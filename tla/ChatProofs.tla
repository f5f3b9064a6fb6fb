----------------------------- MODULE ChatProofs -----------------------------
(***************************************************************************)
(* Theorems about the chat, for any number of clients, listeners and       *)
(* lines, any capacity and any buffer size: the server's two vectors, the  *)
(* framing of the clients' streams, what is posted, what is delivered, and *)
(* that all of it together implements the room of ChatRoom.                *)
(***************************************************************************)
EXTENDS Chat, TLAPS, SequenceTheorems, FiniteSetTheorems

\* Deleting from a vector (memmove in ay_vec_delete) keeps what is before the
\* position and shifts what is behind it by one.
LEMMA RemoveAtShifts ==
  ASSUME NEW S, NEW s \in Seq(S), NEW p \in 1..Len(s)
  PROVE  /\ RemoveAt(s, p) \in Seq(S)
         /\ Len(RemoveAt(s, p)) = Len(s) - 1
         /\ \A q \in 1..(Len(s) - 1) :
              RemoveAt(s, p)[q] = IF q < p THEN s[q] ELSE s[q + 1]
<1> DEFINE front == SubSeq(s, 1, p - 1)
           back == SubSeq(s, p + 1, Len(s))
<1>1. /\ front \in Seq(S) /\ Len(front) = p - 1
      /\ \A q \in 1..(p - 1) : front[q] = s[q]
  OBVIOUS
<1>2. /\ back \in Seq(S) /\ Len(back) = Len(s) - p
      /\ \A q \in 1..(Len(s) - p) : back[q] = s[p + q]
  OBVIOUS
<1>3. RemoveAt(s, p) = front \o back
  BY DEF RemoveAt
<1> HIDE DEF front, back
<1>4. /\ front \o back \in Seq(S)
      /\ Len(front \o back) = Len(s) - 1
  BY <1>1, <1>2
<1>5. ASSUME NEW q \in 1..(Len(s) - 1), q < p
      PROVE  (front \o back)[q] = s[q]
  BY <1>1, <1>2, <1>5
<1>6. ASSUME NEW q \in 1..(Len(s) - 1), ~(q < p)
      PROVE  (front \o back)[q] = s[q + 1]
  <2>1. (front \o back)[q] = back[q - (p - 1)]
    BY <1>1, <1>2, <1>6
  <2>2. q - (p - 1) \in 1..(Len(s) - p) /\ p + (q - (p - 1)) = q + 1
    BY <1>6
  <2> QED
    BY <1>2, <2>1, <2>2
<1> QED
  BY <1>3, <1>4, <1>5, <1>6
-----------------------------------------------------------------------------
(***************************************************************************)
(* The inductive invariant.  The table is never reordered, so the numbers  *)
(* in it increase; nor is client_ids_vec.  The two lose different          *)
(* positions, but always one at or behind the position of the table entry, *)
(* which can only lower a label with respect to the number beside it.      *)
(***************************************************************************)
VecTypes ==
    /\ spc \in ServerPcs
    /\ pollfds \in Seq([fd : Fds, revents : BOOLEAN])
    /\ client_ids \in Seq(Nat)
    /\ client_count \in Nat
    /\ number \in [Clients -> Nat]
    /\ backlog \in [Listeners -> Seq(Clients)]
    /\ link \in [Clients -> EndStates]
    /\ cpc \in [Clients -> ClientPcs]
    /\ listening = ServerUp
    /\ i \in Nat /\ i <= Len(pollfds)
    /\ spc = "scan" => i > 0
    /\ spc \in {"body", "bcast"} => i > NumListeners

\* The connections waiting to be accepted are new, open and all different.
BacklogInv ==
    /\ \A l \in Listeners : \A k \in 1..Len(backlog[l]) :
         /\ number[backlog[l][k]] = 0
         /\ cpc[backlog[l][k]] # "start"
         /\ link[backlog[l][k]] = "open"
    /\ \A l, m \in Listeners :
         \A k \in 1..Len(backlog[l]), n \in 1..Len(backlog[m]) :
           backlog[l][k] = backlog[m][n] => l = m /\ k = n
    /\ \A c \in Clients : cpc[c] = "start" => number[c] = 0

TableInv ==
    /\ Len(pollfds) >= NumListeners
    /\ \A p \in 1..NumListeners : pollfds[p].fd = p
    /\ \A p \in Connected :
         /\ pollfds[p].fd \in Clients
         /\ number[pollfds[p].fd] \in 1..client_count
         /\ listening => link[pollfds[p].fd] = "open"
    /\ \A p, q \in Connected :
         p < q => number[pollfds[p].fd] < number[pollfds[q].fd]

IdsInv ==
    /\ Len(client_ids) >= Len(pollfds) - NumListeners
    /\ Len(client_ids) <= client_count
    /\ \A p \in 1..Len(client_ids) : client_ids[p] \in p..client_count
    /\ \A p, q \in 1..Len(client_ids) : p < q => client_ids[p] < client_ids[q]
    /\ \A p \in Connected :
         client_ids[p - NumListeners] <= number[pollfds[p].fd]

AbortInv == spc = "aborted" => client_count >= Capacity - NumListeners

IInv == VecTypes /\ BacklogInv /\ TableInv /\ IdsInv /\ AbortInv

-----------------------------------------------------------------------------
\* The end of a scan step leaves the scan position inside the table.
LEMMA ResumeInTable ==
  ASSUME NEW table \in Seq([fd : Fds, revents : BOOLEAN]),
         NEW p \in Nat \ {0}, Resume(table, p)
  PROVE  /\ spc' \in {"poll", "scan"}
         /\ i' \in Nat /\ i' <= Len(table)
         /\ spc' = "scan" => i' > 0
<1> DEFINE ready == {q \in p..Len(table) : table[q].revents}
<1>1. CASE ready = {}
  <2>1. spc' = "poll" /\ i' = 0
    BY <1>1 DEF Resume
  <2> QED
    BY <2>1
<1>2. CASE ready # {}
  <2>1. spc' = "scan" /\ i' \in ready
    BY <1>2 DEF Resume
  <2> QED
    BY <2>1
<1> QED
  BY <1>1, <1>2

\* Steps that change no descriptor, number or label, and connect nobody.
LEMMA FrameKeeps ==
  ASSUME VecTypes, VecTypes', BacklogInv, TableInv, IdsInv,
         Len(pollfds') = Len(pollfds),
         \A p \in 1..Len(pollfds) : pollfds'[p].fd = pollfds[p].fd,
         UNCHANGED <<client_ids, client_count, number, backlog, link, listening>>,
         \A c \in Clients : cpc'[c] = "start" <=> cpc[c] = "start"
  PROVE  BacklogInv' /\ TableInv' /\ IdsInv'
<1> USE NumListenersAssumption
<1>1. Connected' = Connected /\ Connected \subseteq 1..Len(pollfds)
  BY DEF Connected
<1>2. BacklogInv'
  <2>1. \A l \in Listeners : \A k \in 1..Len(backlog[l]) : backlog[l][k] \in Clients
    BY DEF VecTypes
  <2> QED
    BY <2>1 DEF BacklogInv
<1>3. TableInv'
  <2>1. 1..NumListeners \subseteq 1..Len(pollfds)
    BY DEF TableInv, VecTypes
  <2> QED
    BY <1>1, <2>1 DEF TableInv
<1>4. IdsInv'
  BY <1>1 DEF IdsInv
<1> QED
  BY <1>2, <1>3, <1>4

\* The server's death empties the backlogs and touches no vector.
LEMMA DieKeeps ==
  ASSUME VecTypes, BacklogInv, TableInv, IdsInv,
         NEW how \in {"aborted", "sigpipe"}, Die(how),
         UNCHANGED <<pollfds, client_ids, client_count, number, cpc>>
  PROVE  VecTypes' /\ BacklogInv' /\ TableInv' /\ IdsInv'
<1> USE NumListenersAssumption DEF Die, CloseAllServerEnds
<1>1. VecTypes'
  <2>1. spc' = how /\ i' = 0 /\ pollfds' = pollfds
    OBVIOUS
  <2>2. link' \in [Clients -> EndStates]
    BY DEF VecTypes, EndStates
  <2>3. backlog' \in [Listeners -> Seq(Clients)]
    OBVIOUS
  <2>4. listening' = ServerUp'
    BY <2>1 DEF ServerUp
  <2> QED
    BY <2>1, <2>2, <2>3, <2>4 DEF VecTypes, ServerPcs
<1>2. BacklogInv'
  BY DEF BacklogInv
<1>3. TableInv'
  BY DEF TableInv, Connected
<1>4. IdsInv'
  BY DEF IdsInv, Connected
<1> QED
  BY <1>1, <1>2, <1>3, <1>4

\* Disconnect: the table loses position i, client_ids_vec the same position
\* (which belongs to a later client, or does not exist).
LEMMA DisconnectKeeps ==
  ASSUME VecTypes, BacklogInv, TableInv, IdsInv,
         i \in Connected, spc \in {"scan", "body"},
         Disconnect(pollfds[i].fd), UNCHANGED cpc
  PROVE  VecTypes' /\ BacklogInv' /\ TableInv' /\ IdsInv'
<1> USE NumListenersAssumption DEF Connected
<1> DEFINE c == pollfds[i].fd
<1>1. /\ i \in 1..Len(pollfds) /\ i > NumListeners
      /\ c \in Clients
      /\ pollfds \in Seq([fd : Fds, revents : BOOLEAN])
      /\ client_ids \in Seq(Nat)
  BY DEF VecTypes, TableInv
<1>2. /\ pollfds' = RemoveAt(pollfds, i)
      /\ link' = [link EXCEPT ![c] = "closed"]
      /\ UNCHANGED <<client_count, number, backlog, listening>>
  BY <1>1 DEF Disconnect, VecDelete, TableIndex, CloseServerEnd
<1>3. /\ pollfds' \in Seq([fd : Fds, revents : BOOLEAN])
      /\ Len(pollfds') = Len(pollfds) - 1
      /\ \A q \in 1..(Len(pollfds) - 1) :
           pollfds'[q] = IF q < i THEN pollfds[q] ELSE pollfds[q + 1]
  BY <1>1, <1>2, RemoveAtShifts
<1>4. \/ /\ i <= Len(client_ids)
         /\ client_ids' \in Seq(Nat)
         /\ Len(client_ids') = Len(client_ids) - 1
         /\ \A q \in 1..(Len(client_ids) - 1) :
              client_ids'[q] = IF q < i THEN client_ids[q] ELSE client_ids[q + 1]
      \/ i > Len(client_ids) /\ client_ids' = client_ids
  <2>1. CASE i <= Len(client_ids)
    <3>1. client_ids' = RemoveAt(client_ids, i) /\ i \in 1..Len(client_ids)
      BY <1>1, <2>1 DEF Disconnect, VecDelete, IdsIndex
    <3> QED
      BY <1>1, <2>1, <3>1, RemoveAtShifts
  <2>2. CASE ~(i <= Len(client_ids))
    BY <1>1, <2>2 DEF Disconnect, VecDelete, IdsIndex
  <2> QED
    BY <2>1, <2>2
<1>5. /\ spc' \in {"poll", "scan"}
      /\ i' \in Nat /\ i' <= Len(pollfds')
      /\ spc' = "scan" => i' > 0
  <2>1. Resume(pollfds', i + 1) /\ i + 1 \in Nat \ {0}
    BY <1>1 DEF Disconnect
  <2> QED
    BY <1>3, <2>1, ResumeInTable
<1>6. VecTypes'
  <2>1. listening' = ServerUp'
    BY <1>2, <1>5 DEF VecTypes, ServerUp
  <2>2. link' \in [Clients -> EndStates]
    BY <1>1, <1>2 DEF VecTypes, EndStates
  <2>3. client_ids' \in Seq(Nat)
    BY <1>1, <1>4
  <2> QED
    BY <1>2, <1>3, <1>5, <2>1, <2>2, <2>3 DEF VecTypes, ServerPcs
<1>7. BacklogInv'
  <2>1. number[c] > 0
    BY <1>1 DEF TableInv, VecTypes
  <2>2. \A l \in Listeners : \A k \in 1..Len(backlog[l]) :
          backlog[l][k] \in Clients /\ backlog[l][k] # c
    BY <2>1 DEF VecTypes, BacklogInv
  <2>3. \A l \in Listeners : \A k \in 1..Len(backlog[l]) :
          link'[backlog[l][k]] = link[backlog[l][k]]
    BY <1>2, <2>2 DEF VecTypes
  <2> QED
    BY <1>2, <2>3 DEF BacklogInv
\* The entry behind a connected position p of the new table is that of
\* position Old(p) of the old one.
<1> DEFINE Old(p) == IF p < i THEN p ELSE p + 1
<1>8. ASSUME NEW p \in Connected'
      PROVE  /\ Old(p) \in Connected /\ Old(p) # i
             /\ pollfds'[p] = pollfds[Old(p)]
  BY <1>1, <1>3, SMTT(60)
<1>9. TableInv'
  <2>1. Len(pollfds') >= NumListeners
    BY <1>1, <1>3
  <2>2. \A p \in 1..NumListeners : pollfds'[p].fd = p
    BY <1>1, <1>3 DEF TableInv
  <2>3. ASSUME NEW p \in Connected', NEW q \in Connected', p < q
        PROVE  number'[pollfds'[p].fd] < number'[pollfds'[q].fd]
    <3>1. Old(p) < Old(q)
      BY <1>1, <2>3
    <3> QED
      BY <1>2, <1>8, <3>1 DEF TableInv
  <2>4. ASSUME NEW p \in Connected'
        PROVE  /\ pollfds'[p].fd \in Clients
               /\ number'[pollfds'[p].fd] \in 1..client_count'
               /\ listening' => link'[pollfds'[p].fd] = "open"
    <3> DEFINE d == pollfds[Old(p)].fd
    <3>1. /\ d \in Clients /\ number[d] \in 1..client_count
          /\ listening => link[d] = "open"
      BY <1>8 DEF TableInv
    <3>2. d # c
      <4>1. Old(p) < i \/ i < Old(p)
        BY <1>1, <1>8
      <4>2. number[d] < number[c] \/ number[c] < number[d]
        BY <1>8, <4>1 DEF TableInv
      <4>3. number[d] \in Nat /\ number[c] \in Nat
        BY <1>1, <3>1 DEF VecTypes
      <4> QED
        BY <4>2, <4>3, SMTT(60)
    <3> QED
      BY <1>2, <1>8, <3>1, <3>2 DEF VecTypes
  <2> HIDE DEF Connected, Old
  <2> QED
    BY <2>1, <2>2, <2>3, <2>4 DEF TableInv
<1>10. IdsInv'
  <2> DEFINE n == Len(client_ids)
  <2>0. n \in Nat /\ client_count \in Nat /\ NumListeners \in Nat \ {0}
        /\ i \in Nat /\ Len(pollfds) \in Nat
    BY <1>1 DEF VecTypes
  <2>1. Len(client_ids') >= Len(pollfds') - NumListeners
        /\ Len(client_ids') <= client_count'
    BY <1>1, <1>2, <1>3, <1>4, <2>0 DEF IdsInv
  <2>2. \A p \in 1..Len(client_ids') : client_ids'[p] \in p..client_count'
    <3>1. CASE i <= n
      <4> SUFFICES ASSUME NEW p \in 1..(n - 1)
                   PROVE  client_ids'[p] \in p..client_count
        BY <1>2, <1>4, <3>1, <2>0
      <4>1. client_ids[p] \in p..client_count
            /\ client_ids[p + 1] \in (p + 1)..client_count
        BY <2>0, SMTT(60) DEF IdsInv
      <4>2. client_ids'[p] = client_ids[Old(p)]
        BY <1>4, <2>0, <3>1, SMTT(60)
      <4>3. client_ids[Old(p)] \in p..client_count
        BY <2>0, <4>1
      <4> QED
        BY <4>2, <4>3
    <3>2. CASE i > n
      BY <1>2, <1>4, <2>0, <3>2 DEF IdsInv
    <3> QED
      BY <2>0, <3>1, <3>2
  <2>3. \A p, q \in 1..Len(client_ids') : p < q => client_ids'[p] < client_ids'[q]
    <3>1. CASE i <= n
      <4> SUFFICES ASSUME NEW p \in 1..(n - 1), NEW q \in 1..(n - 1), p < q
                   PROVE  client_ids'[p] < client_ids'[q]
        BY <1>4, <3>1, <2>0, SMTT(60)
      <4>1. /\ client_ids'[p] = client_ids[Old(p)]
            /\ client_ids'[q] = client_ids[Old(q)]
        BY <1>4, <2>0, <3>1, SMTT(60)
      <4>2. Old(p) < Old(q) /\ Old(p) \in 1..n /\ Old(q) \in 1..n
        BY <2>0
      <4> QED
        BY <4>1, <4>2 DEF IdsInv
    <3>2. CASE i > n
      BY <1>4, <2>0, <3>2 DEF IdsInv
    <3> QED
      BY <2>0, <3>1, <3>2, SMTT(60)
  <2>4. ASSUME NEW p \in Connected'
        PROVE  client_ids'[p - NumListeners] <= number'[pollfds'[p].fd]
    <3> DEFINE k == p - NumListeners
               m == Old(p) - NumListeners
    <3>0. /\ p \in NumListeners + 1..Len(pollfds) - 1
          /\ n >= Len(pollfds) - NumListeners
      BY <1>3 DEF IdsInv
    <3>1. /\ p \in Nat /\ k \in 1..n /\ m \in 1..n /\ k \in 1..Len(client_ids')
          /\ Old(p) \in Connected
      <4>1. p \in Nat /\ k \in 1..(n - 1) /\ m \in 1..n
        BY <2>0, <3>0
      <4>2. k \in 1..Len(client_ids')
        <5>1. Len(client_ids') \in {n - 1, n}
          BY <1>4
        <5> QED
          BY <2>0, <4>1, <5>1
      <4> QED
        BY <1>8, <2>0, <4>1, <4>2
    <3>2. client_ids[m] <= number[pollfds[Old(p)].fd]
      BY <3>1 DEF IdsInv
    \* The new label is the old one of the same client or that of the
    \* position before it, which is smaller.
    <3>3. client_ids'[k] <= client_ids[m]
      <4>0. \A x \in 1..n : client_ids[x] \in Nat
        BY <1>1
      <4>5. client_ids'[k] = IF i <= n /\ ~(k < i)
                              THEN client_ids[k + 1] ELSE client_ids[k]
        <5>1. CASE i <= n
          <6>1. k \in 1..(n - 1)
            BY <2>0, <3>0
          <6> QED
            BY <1>4, <2>0, <5>1, <6>1, SMTT(60)
        <5>2. CASE i > n
          BY <1>4, <2>0, <5>2
        <5> QED
          BY <2>0, <5>1, <5>2
      <4>1. CASE p < i
        <5>1. m = k /\ k < i
          BY <2>0, <3>1, <4>1
        <5>2. client_ids'[k] = client_ids[k]
          BY <4>5, <5>1
        <5> QED
          BY <3>1, <4>0, <5>1, <5>2, SMTT(60)
      <4>2. CASE ~(p < i) /\ k < i
        <5>1. m = k + 1 /\ k < m
          BY <2>0, <3>1, <4>2
        <5>2. client_ids'[k] = client_ids[k]
          BY <4>5, <4>2
        <5>3. client_ids[k] < client_ids[m]
          BY <3>1, <5>1 DEF IdsInv
        <5>4. client_ids[k] \in Nat /\ client_ids[m] \in Nat
          BY <3>1, <4>0
        <5> QED
          BY <5>2, <5>3, <5>4, SMTT(60)
      <4>3. CASE ~(p < i) /\ ~(k < i)
        <5>1. m = k + 1
          BY <2>0, <3>1, <4>3
        <5>2. client_ids'[k] = client_ids[k + 1]
          BY <2>0, <3>1, <4>3, <4>5
        <5> QED
          BY <3>1, <4>0, <5>1, <5>2, SMTT(60)
      <4> QED
        BY <4>1, <4>2, <4>3
    <3>4. /\ client_ids'[k] \in Nat /\ client_ids[m] \in Nat
          /\ number[pollfds[Old(p)].fd] \in Nat
      <4>1. client_ids'[k] \in Nat
        <5>1. client_ids' \in Seq(Nat)
          BY <1>6 DEF VecTypes
        <5>2. k \in 1..Len(client_ids')
          BY <3>1
        <5> QED
          BY <5>1, <5>2
      <4>2. pollfds[Old(p)].fd \in Clients
        BY <3>1 DEF TableInv
      <4>3. number[pollfds[Old(p)].fd] \in Nat
        BY <4>2 DEF VecTypes
      <4>4. client_ids[m] \in Nat
        BY <1>1, <3>1
      <4> QED
        BY <4>1, <4>3, <4>4
    <3>5. client_ids'[k] <= number[pollfds[Old(p)].fd]
      BY <3>2, <3>3, <3>4, SMTT(60)
    <3> QED
      BY <1>2, <1>8, <3>5
  <2> HIDE DEF Connected, Old
  <2> QED
    BY <2>1, <2>2, <2>3, <2>4 DEF IdsInv
<1> QED
  BY <1>6, <1>7, <1>9, <1>10

\* AcceptNewConnection: the newest number goes to the end of both vectors.
LEMMA AcceptKeeps ==
  ASSUME VecTypes, BacklogInv, TableInv, IdsInv, AcceptNewConnection, UNCHANGED cpc
  PROVE  VecTypes' /\ BacklogInv' /\ TableInv' /\ IdsInv'
<1> USE NumListenersAssumption
<1> DEFINE c == backlog[i][1]
           N == client_count + 1
           n == Len(pollfds)
<1>1. /\ i \in Listeners /\ backlog[i] \in Seq(Clients) /\ backlog[i] # <<>>
      /\ Len(backlog[i]) > 0 /\ c \in Clients
      /\ Head(backlog[i]) = c
  BY SMTT(60) DEF AcceptNewConnection, VecTypes, Listeners
<1>2. /\ number[c] = 0 /\ cpc[c] # "start" /\ link[c] = "open"
  BY <1>1 DEF BacklogInv
<1>3. /\ pollfds' = Append(pollfds, [fd |-> c, revents |-> FALSE])
      /\ client_ids' = Append(client_ids, N)
      /\ number' = [number EXCEPT ![c] = N]
      /\ client_count' = N
      /\ backlog' = [backlog EXCEPT ![i] = Tail(@)]
      /\ UNCHANGED <<listening, link>>
  BY <1>1 DEF AcceptNewConnection, NewNumber
<1>4. /\ pollfds \in Seq([fd : Fds, revents : BOOLEAN])
      /\ client_ids \in Seq(Nat) /\ client_count \in Nat
      /\ number \in [Clients -> Nat]
      /\ backlog \in [Listeners -> Seq(Clients)]
  BY DEF VecTypes
<1>5. /\ pollfds' \in Seq([fd : Fds, revents : BOOLEAN])
      /\ Len(pollfds') = n + 1
      /\ \A q \in 1..n : pollfds'[q] = pollfds[q]
      /\ pollfds'[n + 1].fd = c
  BY <1>1, <1>3, <1>4, SMTT(60) DEF Fds
<1>6. /\ client_ids' \in Seq(Nat)
      /\ Len(client_ids') = Len(client_ids) + 1
      /\ \A q \in 1..Len(client_ids) : client_ids'[q] = client_ids[q]
      /\ client_ids'[Len(client_ids) + 1] = N
  BY <1>3, <1>4
<1>7. /\ \A d \in Clients : number'[d] = IF d = c THEN N ELSE number[d]
      /\ number' \in [Clients -> Nat]
  BY <1>1, <1>3, <1>4
<1>8. /\ backlog' \in [Listeners -> Seq(Clients)]
      /\ \A l \in Listeners \ {i} : backlog'[l] = backlog[l]
      /\ Len(backlog'[i]) = Len(backlog[i]) - 1
      /\ \A k \in 1..Len(backlog'[i]) : backlog'[i][k] = backlog[i][k + 1]
  BY <1>1, <1>3, <1>4, SMTT(60)
<1>9. VecTypes'
  <2>1. Resume(pollfds', i + 1) /\ i + 1 \in Nat \ {0}
    BY <1>1 DEF AcceptNewConnection, Listeners
  <2>2. /\ spc' \in {"poll", "scan"}
        /\ i' \in Nat /\ i' <= Len(pollfds')
        /\ spc' = "scan" => i' > 0
    BY <1>5, <2>1, ResumeInTable
  <2>3. spc = "scan"
    BY DEF AcceptNewConnection
  <2>4. listening' = ServerUp'
    BY <1>3, <2>2, <2>3 DEF VecTypes, ServerUp
  <2> QED
    BY <1>3, <1>4, <1>5, <1>6, <1>7, <1>8, <2>2, <2>4 DEF VecTypes, ServerPcs
<1>10. BacklogInv'
  \* Where an element of the new backlog was in the old one.
  <2> DEFINE Was(l, k) == IF l = i THEN k + 1 ELSE k
  <2>1. ASSUME NEW l \in Listeners, NEW k \in 1..Len(backlog'[l])
        PROVE  /\ Was(l, k) \in 1..Len(backlog[l])
               /\ backlog'[l][k] = backlog[l][Was(l, k)]
               /\ backlog'[l][k] \in Clients
               /\ backlog'[l][k] # c
    <3>1. Was(l, k) \in 1..Len(backlog[l]) /\ k > 0
          /\ backlog'[l][k] = backlog[l][Was(l, k)]
      <4>1. CASE l = i
        BY <1>1, <1>8, <4>1
      <4>2. CASE l # i
        BY <1>8, <4>2
      <4> QED
        BY <4>1, <4>2
    <3>2. ~(l = i /\ Was(l, k) = 1)
      BY <3>1
    <3>3. backlog[l][Was(l, k)] # c
      BY <1>1, <3>1, <3>2 DEF BacklogInv
    <3> QED
      BY <1>4, <3>1, <3>3
  <2>2. ASSUME NEW l \in Listeners, NEW k \in 1..Len(backlog'[l])
        PROVE  /\ number'[backlog'[l][k]] = 0
               /\ cpc'[backlog'[l][k]] # "start"
               /\ link'[backlog'[l][k]] = "open"
    BY <1>3, <1>7, <2>1 DEF BacklogInv
  <2>3. ASSUME NEW l \in Listeners, NEW m \in Listeners,
               NEW k \in 1..Len(backlog'[l]), NEW x \in 1..Len(backlog'[m]),
               backlog'[l][k] = backlog'[m][x]
        PROVE  l = m /\ k = x
    <3>1. backlog[l][Was(l, k)] = backlog[m][Was(m, x)]
      BY <2>1, <2>3
    <3>2. Was(l, k) \in 1..Len(backlog[l]) /\ Was(m, x) \in 1..Len(backlog[m])
      BY <2>1
    <3> HIDE DEF Was
    <3>3. l = m /\ Was(l, k) = Was(m, x)
      BY <3>1, <3>2 DEF BacklogInv
    <3> QED
      BY <3>3 DEF Was
  <2>4. \A d \in Clients : cpc'[d] = "start" => number'[d] = 0
    BY <1>2, <1>7 DEF BacklogInv
  <2> QED
    BY <2>2, <2>3, <2>4 DEF BacklogInv
<1>11. /\ Connected' = Connected \cup {n + 1} /\ n + 1 \notin Connected
       /\ Connected \subseteq 1..n
       /\ \A p \in Connected : p < n + 1
  <2>1. n \in Nat /\ n >= NumListeners /\ Len(pollfds') = n + 1
    BY <1>4, <1>5 DEF TableInv
  <2>2. Connected = (NumListeners + 1)..n /\ Connected' = (NumListeners + 1)..(n + 1)
    BY <2>1 DEF Connected
  <2> HIDE DEF n
  <2> QED
    BY <2>1, <2>2
<1>12. ASSUME NEW p \in Connected
       PROVE  /\ pollfds'[p].fd = pollfds[p].fd
              /\ pollfds[p].fd \in Clients
              /\ number'[pollfds[p].fd] = number[pollfds[p].fd]
              /\ number[pollfds[p].fd] \in 1..client_count
  <2>1. pollfds[p].fd \in Clients /\ number[pollfds[p].fd] \in 1..client_count
    BY DEF TableInv
  <2>2. pollfds[p].fd # c
    BY <1>2, <1>4, <2>1
  <2> QED
    BY <1>5, <1>7, <1>11, <2>1, <2>2
<1>13. /\ pollfds'[n + 1].fd = c /\ c \in Clients /\ number'[c] = N
       /\ N \in Nat /\ N > 0 /\ N > client_count
  BY <1>1, <1>4, <1>5, <1>7
<1>14. TableInv'
  <2>1. Len(pollfds') >= NumListeners
    BY <1>4, <1>5 DEF TableInv
  <2>2. \A p \in 1..NumListeners : pollfds'[p].fd = p
    <3>1. \A p \in 1..NumListeners : p \in 1..n
      BY <1>4 DEF TableInv
    <3> QED
      BY <1>5, <3>1 DEF TableInv
  <2>3. ASSUME NEW p \in Connected'
        PROVE  /\ pollfds'[p].fd \in Clients
               /\ number'[pollfds'[p].fd] \in 1..client_count'
               /\ listening' => link'[pollfds'[p].fd] = "open"
    <3>1. CASE p \in Connected
      <4>1. listening => link[pollfds[p].fd] = "open"
        BY <3>1 DEF TableInv
      <4>2. 1..client_count \subseteq 1..N
        BY <1>4
      <4> QED
        BY <1>3, <1>12, <3>1, <4>1, <4>2
    <3>2. CASE p = n + 1
      BY <1>2, <1>3, <1>13, <3>2
    <3> QED
      BY <1>11, <3>1, <3>2
  <2>4. ASSUME NEW p \in Connected', NEW q \in Connected', p < q
        PROVE  number'[pollfds'[p].fd] < number'[pollfds'[q].fd]
    <3>1. p \in Connected
      BY <1>4, <1>11, <2>4
    <3>2. CASE q \in Connected
      BY <1>12, <2>4, <3>1, <3>2 DEF TableInv
    <3>3. CASE q = n + 1
      <4>1. number[pollfds[p].fd] \in Nat /\ number[pollfds[p].fd] < N
        BY <1>4, <1>12, <3>1
      <4> QED
        BY <1>12, <1>13, <3>1, <3>3, <4>1
    <3> QED
      BY <1>11, <3>2, <3>3
  <2> QED
    BY <2>1, <2>2, <2>3, <2>4 DEF TableInv
<1>15. IdsInv'
  <2> DEFINE w == Len(client_ids)
  <2>0. w \in Nat /\ n \in Nat /\ \A q \in 1..w : client_ids[q] \in Nat
    BY <1>4
  <2>1. Len(client_ids') >= Len(pollfds') - NumListeners
        /\ Len(client_ids') <= client_count'
    BY <1>3, <1>4, <1>5, <1>6, <2>0 DEF IdsInv
  <2>2. ASSUME NEW p \in 1..Len(client_ids')
        PROVE  client_ids'[p] \in p..client_count'
    <3>1. CASE p \in 1..w
      BY <1>3, <1>4, <1>6, <3>1 DEF IdsInv
    <3>2. CASE p = w + 1
      BY <1>3, <1>6, <1>13, <2>0, <2>1, <3>2
    <3> QED
      BY <1>6, <2>0, <3>1, <3>2
  <2>3. ASSUME NEW p \in 1..Len(client_ids'), NEW q \in 1..Len(client_ids'), p < q
        PROVE  client_ids'[p] < client_ids'[q]
    <3>1. p \in 1..w /\ client_ids'[p] = client_ids[p]
      BY <1>6, <2>0, <2>3, SMTT(60)
    <3>2. CASE q \in 1..w
      BY <1>6, <2>3, <3>1, <3>2 DEF IdsInv
    <3>3. CASE q = w + 1
      <4>1. client_ids[p] <= client_count
        BY <3>1 DEF IdsInv
      <4> QED
        BY <1>4, <1>6, <1>13, <2>0, <3>1, <3>3, <4>1
    <3> QED
      BY <1>6, <2>0, <3>2, <3>3
  <2>4. ASSUME NEW p \in Connected'
        PROVE  client_ids'[p - NumListeners] <= number'[pollfds'[p].fd]
    <3>1. CASE p \in Connected
      <4>1. p - NumListeners \in 1..w
        BY <2>0, <3>1 DEF IdsInv, Connected
      <4> QED
        BY <1>6, <1>12, <3>1, <4>1 DEF IdsInv
    <3>2. CASE p = n + 1
      <4>1. p - NumListeners \in 1..Len(client_ids')
        BY <1>5, <1>6, <2>0, <2>1, <3>2 DEF TableInv
      <4>2. client_ids'[p - NumListeners] <= client_count'
            /\ client_ids'[p - NumListeners] \in Nat
        BY <1>3, <1>4, <2>2, <4>1
      <4> QED
        BY <1>3, <1>13, <3>2, <4>2
    <3> QED
      BY <1>11, <3>1, <3>2
  <2> QED
    BY <2>1, <2>2, <2>3, <2>4 DEF IdsInv
<1> QED
  BY <1>9, <1>10, <1>14, <1>15

\* A new connection enters one backlog.
LEMMA ConnectKeeps ==
  ASSUME VecTypes, BacklogInv, TableInv, IdsInv,
         NEW c \in Clients, Connect(c), UNCHANGED serverVars
  PROVE  VecTypes' /\ BacklogInv' /\ TableInv' /\ IdsInv'
<1> USE NumListenersAssumption DEF serverVars
<1>1. PICK l \in Listeners : backlog' = [backlog EXCEPT ![l] = Append(@, c)]
  BY DEF Connect
<1>2. /\ cpc[c] = "start"
      /\ cpc' = [cpc EXCEPT ![c] = "poll"]
      /\ link' = [link EXCEPT ![c] = "open"]
      /\ UNCHANGED <<spc, pollfds, client_ids, client_count, number, i, listening>>
  BY DEF Connect
<1>3. /\ backlog \in [Listeners -> Seq(Clients)] /\ backlog[l] \in Seq(Clients)
      /\ cpc \in [Clients -> ClientPcs] /\ link \in [Clients -> EndStates]
  BY DEF VecTypes
<1>4. /\ backlog' \in [Listeners -> Seq(Clients)]
      /\ \A m \in Listeners \ {l} : backlog'[m] = backlog[m]
      /\ Len(backlog'[l]) = Len(backlog[l]) + 1
      /\ \A k \in 1..Len(backlog[l]) : backlog'[l][k] = backlog[l][k]
      /\ backlog'[l][Len(backlog[l]) + 1] = c
  BY <1>1, <1>3
<1>5. VecTypes'
  <2>1. link' \in [Clients -> EndStates] /\ cpc' \in [Clients -> ClientPcs]
    BY <1>2, <1>3 DEF EndStates, ClientPcs
  <2>2. listening' = ServerUp'
    BY <1>2 DEF VecTypes, ServerUp
  <2> QED
    BY <1>2, <1>4, <2>1, <2>2 DEF VecTypes
<1>6. number[c] = 0
  BY <1>2 DEF BacklogInv
<1>7. BacklogInv'
  <2>1. ASSUME NEW m \in Listeners, NEW k \in 1..Len(backlog'[m])
        PROVE  \/ /\ k \in 1..Len(backlog[m])
                  /\ backlog'[m][k] = backlog[m][k]
                  /\ backlog[m][k] # c /\ backlog[m][k] \in Clients
               \/ m = l /\ k = Len(backlog[l]) + 1 /\ backlog'[m][k] = c
    <3>1. \A x \in 1..Len(backlog[m]) : backlog[m][x] \in Clients /\ backlog[m][x] # c
      BY <1>2, <1>3 DEF BacklogInv
    <3>2. CASE m = l
      BY <1>3, <1>4, <3>1, <3>2
    <3>3. CASE m # l
      BY <1>4, <3>1, <3>3
    <3> QED
      BY <3>2, <3>3
  <2>2. ASSUME NEW m \in Listeners, NEW k \in 1..Len(backlog'[m])
        PROVE  /\ number'[backlog'[m][k]] = 0
               /\ cpc'[backlog'[m][k]] # "start"
               /\ link'[backlog'[m][k]] = "open"
    <3>1. CASE backlog'[m][k] = c
      BY <1>2, <1>3, <1>6, <3>1
    <3>2. CASE backlog'[m][k] # c
      <4>1. k \in 1..Len(backlog[m]) /\ backlog'[m][k] = backlog[m][k]
            /\ backlog[m][k] \in Clients
        BY <2>1, <3>2
      <4>2. \A d \in Clients \ {c} : link'[d] = link[d] /\ cpc'[d] = cpc[d]
        BY <1>2, <1>3
      <4> QED
        BY <1>2, <3>2, <4>1, <4>2 DEF BacklogInv
    <3> QED
      BY <3>1, <3>2
  <2>3. ASSUME NEW m \in Listeners, NEW k \in 1..Len(backlog'[m]),
               NEW x \in Listeners, NEW y \in 1..Len(backlog'[x]),
               backlog'[m][k] = backlog'[x][y]
        PROVE  m = x /\ k = y
    BY <2>1, <2>3 DEF BacklogInv
  <2>4. \A d \in Clients : cpc'[d] = "start" => number'[d] = 0
    BY <1>2, <1>3 DEF BacklogInv
  <2> QED
    BY <2>2, <2>3, <2>4 DEF BacklogInv
<1>8. TableInv'
  <2>1. Connected' = Connected
    BY <1>2 DEF Connected
  <2>2. \A p \in Connected : link'[pollfds[p].fd] = link[pollfds[p].fd]
    <3> SUFFICES ASSUME NEW p \in Connected
                 PROVE  link'[pollfds[p].fd] = link[pollfds[p].fd]
      OBVIOUS
    <3>1. pollfds[p].fd \in Clients /\ number[pollfds[p].fd] # 0
      BY DEF TableInv, VecTypes
    <3> QED
      BY <1>2, <1>3, <1>6, <3>1
  <2> QED
    BY <1>2, <2>1, <2>2 DEF TableInv
<1>9. IdsInv'
  BY <1>2 DEF IdsInv, Connected
<1> QED
  BY <1>5, <1>7, <1>8, <1>9

\* The frame of a step that moves one client and no connection.
LEMMA ClientMoves ==
  ASSUME VecTypes, BacklogInv, TableInv, IdsInv, NEW c \in Clients,
         NEW to \in ClientPcs \ {"start"},
         cpc' = [cpc EXCEPT ![c] = to],
         UNCHANGED <<serverVars, backlog, link, listening>>
  PROVE  VecTypes' /\ BacklogInv' /\ TableInv' /\ IdsInv'
<1>1. cpc' \in [Clients -> ClientPcs] /\ \A d \in Clients : cpc'[d] = "start" => cpc[d] = "start"
  BY DEF VecTypes
<1>2. VecTypes'
  <2>1. listening' = ServerUp'
    BY DEF VecTypes, ServerUp, serverVars
  <2> QED
    BY <1>1, <2>1 DEF VecTypes, serverVars
<1>3. \A d \in Clients : cpc'[d] = "start" => number[d] = 0
  BY <1>1 DEF BacklogInv
<1>4. BacklogInv'
  <2>1. \A l \in Listeners : \A k \in 1..Len(backlog[l]) :
          backlog[l][k] \in Clients /\ cpc'[backlog[l][k]] # "start"
    BY <1>1 DEF VecTypes, BacklogInv
  <2> QED
    BY <1>3, <2>1 DEF BacklogInv, serverVars
<1>5. TableInv' /\ IdsInv'
  BY DEF TableInv, IdsInv, Connected, serverVars
<1> QED
  BY <1>2, <1>4, <1>5

\* Initially there are only listeners in the table.
LEMMA InitIInv == Init => IInv
<1> SUFFICES ASSUME Init PROVE IInv
  OBVIOUS
<1> USE NumListenersAssumption DEF Init, SocketsInit, ServerInit, ClientInit
<1>1. /\ pollfds \in Seq([fd : Fds, revents : BOOLEAN])
      /\ Len(pollfds) = NumListeners
      /\ \A p \in 1..NumListeners : pollfds[p].fd = p
  BY DEF Listeners, Fds
<1>2. VecTypes
  <2>1. listening = ServerUp
    BY DEF ServerUp
  <2> QED
    BY <1>1, <2>1 DEF VecTypes, ServerPcs, ClientPcs, EndStates
<1>3. BacklogInv
  BY DEF BacklogInv
<1>4. TableInv
  BY <1>1 DEF TableInv, Connected
<1>5. IdsInv
  BY <1>1 DEF IdsInv, Connected
<1> QED
  BY <1>2, <1>3, <1>4, <1>5 DEF IInv, AbortInv

\* Every step of the server.
LEMMA ServerKeeps ==
  ASSUME IInv, ServerNext, UNCHANGED clientVars
  PROVE  IInv'
<1> USE NumListenersAssumption, CapacityAssumption
<1>0. /\ VecTypes /\ BacklogInv /\ TableInv /\ IdsInv /\ AbortInv
      /\ cpc' = cpc
  BY DEF IInv, clientVars
<1> SUFFICES VecTypes' /\ BacklogInv' /\ TableInv' /\ IdsInv' /\ AbortInv'
  BY DEF IInv
<1>1. CASE Poll
  <2>1. DOMAIN pollfds = 1..Len(pollfds)
    BY <1>0 DEF VecTypes
  <2>2. /\ pollfds' = [p \in 1..Len(pollfds) |->
                         [fd |-> pollfds[p].fd,
                          revents |-> ServerReadable(pollfds[p].fd)]]
        /\ \A p \in 1..Len(pollfds) : pollfds[p].fd \in Fds
    <3>1. \A p \in 1..Len(pollfds) : pollfds[p].fd \in Fds
      <4>1. pollfds \in Seq([fd : Fds, revents : BOOLEAN])
        BY <1>0 DEF VecTypes
      <4>2. \A p \in 1..Len(pollfds) : pollfds[p] \in [fd : Fds, revents : BOOLEAN]
        BY <4>1, ElementOfSeq
      <4> QED
        BY <4>2
    <3>2. pollfds' = [p \in DOMAIN pollfds |->
                       [fd |-> pollfds[p].fd,
                        revents |-> ServerReadable(pollfds[p].fd)]]
      BY <1>1 DEF Poll
    <3> QED
      BY <2>1, <3>1, <3>2
  <2>3. \A d : ServerReadable(d) \in BOOLEAN
    BY DEF ServerReadable
  <2>4. /\ pollfds' \in Seq([fd : Fds, revents : BOOLEAN])
        /\ Len(pollfds') = Len(pollfds)
        /\ \A p \in 1..Len(pollfds) : pollfds'[p].fd = pollfds[p].fd
    <3>1. Len(pollfds) \in Nat
      BY <1>0 DEF VecTypes
    <3> QED
      BY <2>2, <2>3, <3>1
  <2>5. /\ spc' \in {"poll", "scan"}
        /\ i' \in Nat /\ i' <= Len(pollfds')
        /\ spc' = "scan" => i' > 0
    <3>1. Resume(pollfds', 1) /\ 1 \in Nat \ {0}
      BY <1>1 DEF Poll, ScanStart
    <3>2. pollfds' \in Seq([fd : Fds, revents : BOOLEAN])
      BY <2>4
    <3> QED
      BY <3>1, <3>2, ResumeInTable
  <2>6. UNCHANGED <<client_ids, client_count, number, backlog, link, listening>>
    BY <1>1 DEF Poll, socketVars
  <2>7. VecTypes'
    <3>1. listening' = ServerUp'
      BY <1>0, <1>1, <2>5, <2>6 DEF VecTypes, ServerUp, Poll
    <3> QED
      BY <1>0, <2>4, <2>5, <2>6, <3>1 DEF VecTypes, ServerPcs
  <2>8. BacklogInv' /\ TableInv' /\ IdsInv'
    BY <1>0, <2>4, <2>6, <2>7, FrameKeeps
  <2> QED
    BY <2>5, <2>7, <2>8 DEF AbortInv
<1>2. CASE AcceptNewConnection
  <2>1. spc' # "aborted"
    <3>1. Resume(pollfds', i + 1)
      BY <1>2 DEF AcceptNewConnection
    <3> QED
      BY <3>1 DEF Resume
  <2> QED
    BY <1>0, <1>2, <2>1, AcceptKeeps DEF AbortInv
<1>3. CASE AcceptOverflow
  <2>1. Die("aborted") /\ UNCHANGED <<pollfds, client_ids, client_count, number, cpc>>
    BY <1>0, <1>3 DEF AcceptOverflow
  <2>2. VecTypes' /\ BacklogInv' /\ TableInv' /\ IdsInv'
    BY <1>0, <2>1, DieKeeps
  \* A full table has Capacity - NumListeners clients in it, and each label
  \* stands for a connection of its own.
  <2>3. client_count >= Capacity - NumListeners
    <3>1. Len(pollfds) = Capacity \/ Len(client_ids) = Capacity
      BY <1>3 DEF AcceptOverflow, VecFull
    <3>2. Len(pollfds) \in Nat /\ Len(client_ids) \in Nat /\ client_count \in Nat
      BY <1>0 DEF VecTypes
    <3> QED
      BY <1>0, <3>1, <3>2 DEF IdsInv
  <2> QED
    BY <2>1, <2>2, <2>3 DEF AbortInv
<1>4. CASE ReadHeader \/ ReadBody \/ Writev \/ WritevGone
  <2>1. /\ UNCHANGED <<pollfds, client_ids, client_count, number, backlog,
                       link, listening, i>>
        /\ spc \in {"scan", "body", "bcast"} /\ spc' \in {"body", "bcast"}
        /\ spc = "scan" => i > NumListeners
    BY <1>4 DEF ReadHeader, ReadBody, Writev, WritevGone
  <2>2. VecTypes'
    <3>1. listening' = ServerUp'
      BY <1>0, <2>1 DEF VecTypes, ServerUp
    <3> QED
      BY <1>0, <2>1, <3>1 DEF VecTypes, ServerPcs
  <2>3. BacklogInv' /\ TableInv' /\ IdsInv'
    BY <1>0, <2>1, <2>2, FrameKeeps
  <2> QED
    BY <2>1, <2>2, <2>3 DEF AbortInv
<1>5. CASE ReadEmptyLine \/ ReadEof
  <2>1. /\ spc \in {"scan", "body"} /\ i > NumListeners
        /\ Disconnect(pollfds[i].fd)
    BY <1>0, <1>5 DEF ReadEmptyLine, ReadEof, VecTypes
  <2>2. i \in Connected
    BY <1>0, <2>1 DEF Connected, VecTypes
  <2>3. VecTypes' /\ BacklogInv' /\ TableInv' /\ IdsInv'
    BY <1>0, <2>1, <2>2, DisconnectKeeps
  <2>4. spc' # "aborted"
    BY <2>1 DEF Disconnect, Resume
  <2> QED
    BY <2>3, <2>4 DEF AbortInv
<1>6. CASE WritevSigpipe
  <2>1. Die("sigpipe") /\ UNCHANGED <<pollfds, client_ids, client_count, number, cpc>>
    BY <1>0, <1>6 DEF WritevSigpipe
  <2>2. VecTypes' /\ BacklogInv' /\ TableInv' /\ IdsInv'
    BY <1>0, <2>1, DieKeeps
  <2> QED
    BY <2>1, <2>2 DEF AbortInv, Die
<1>7. CASE BroadcastDone
  <2>1. /\ UNCHANGED <<pollfds, client_ids, client_count, number, backlog,
                       link, listening>>
        /\ Resume(pollfds, i + 1) /\ i + 1 \in Nat \ {0} /\ spc = "bcast"
    BY <1>0, <1>7 DEF BroadcastDone, socketVars, VecTypes
  <2>2. /\ spc' \in {"poll", "scan"}
        /\ i' \in Nat /\ i' <= Len(pollfds')
        /\ spc' = "scan" => i' > 0
    BY <1>0, <2>1, ResumeInTable DEF VecTypes
  <2>3. VecTypes'
    <3>1. listening' = ServerUp'
      BY <1>0, <2>1, <2>2 DEF VecTypes, ServerUp
    <3> QED
      BY <1>0, <2>1, <2>2, <3>1 DEF VecTypes, ServerPcs
  <2>4. BacklogInv' /\ TableInv' /\ IdsInv'
    BY <1>0, <2>1, <2>3, FrameKeeps
  <2> QED
    BY <2>2, <2>3, <2>4 DEF AbortInv
<1> QED
  BY <1>1, <1>2, <1>3, <1>4, <1>5, <1>6, <1>7 DEF ServerNext

\* Every step of a client.
LEMMA ClientKeeps ==
  ASSUME IInv, NEW c \in Clients, ClientStep(c) \/ UserStep(c), UNCHANGED serverVars
  PROVE  IInv'
<1>0. /\ VecTypes /\ BacklogInv /\ TableInv /\ IdsInv /\ AbortInv
  BY DEF IInv
<1>1. AbortInv'
  BY <1>0 DEF AbortInv, serverVars
<1>2. CASE Connect(c)
  BY <1>0, <1>1, <1>2, ConnectKeeps DEF IInv
<1>3. CASE ~Connect(c)
  <2>1. PICK to \in ClientPcs \ {"start"} :
          /\ cpc' = [cpc EXCEPT ![c] = to]
          /\ UNCHANGED <<backlog, link, listening>>
    <3>1. CASE ConnectRefused(c)
      BY <3>1 DEF ConnectRefused, ClientPcs, socketVars
    <3>2. CASE \E kind \in {"line", "empty"} : PollLine(c, kind)
      BY <3>2 DEF PollLine, ClientPcs, socketVars
    <3>3. CASE PollEof(c) \/ WriteFails(c) \/ ReceiveEof(c) \/ Kill(c)
      BY <3>3 DEF PollEof, WriteFails, ReceiveEof, Kill, Leave, ClientPcs
    <3>4. CASE Receive(c) \/ EndLine(c) \/ Printed(c)
      BY <3>4 DEF Receive, EndLine, Printed, ClientPcs, socketVars
    <3>5. CASE WriteHeader(c) \/ WritePayload(c) \/ WriteLost(c)
      <4>1. /\ UNCHANGED <<backlog, link, listening>>
            /\ cpc' = [cpc EXCEPT ![c] = "payload"] \/ LineSent(c)
        BY <3>5 DEF WriteHeader, WritePayload, WriteLost, socketVars
      <4> QED
        BY <4>1 DEF LineSent, ClientPcs
    <3> QED
      BY <1>3, <3>1, <3>2, <3>3, <3>4, <3>5 DEF ClientStep, UserStep
  <2> QED
    BY <1>0, <1>1, <2>1, ClientMoves DEF IInv
<1> QED
  BY <1>2, <1>3

\* Every step of the server, of a client and of its user keeps IInv.
LEMMA InductiveStep == IInv /\ [Next]_vars => IInv'
<1> SUFFICES ASSUME IInv, [Next]_vars PROVE IInv'
  OBVIOUS
<1>1. CASE Server
  BY <1>1, ServerKeeps DEF Server
<1>2. CASE \E c \in Clients : Client(c) \/ User(c)
  BY <1>2, ClientKeeps DEF Client, User
<1>3. CASE UNCHANGED vars
  <2>1. UNCHANGED <<serverVars, backlog, link, listening, cpc>>
    BY <1>3 DEF vars, socketVars, clientVars
  <2>2. Connected' = Connected
    BY <2>1 DEF Connected, serverVars
  <2>3. VecTypes' = VecTypes
    BY <2>1 DEF VecTypes, ServerUp, serverVars
  <2> QED
    BY <2>1, <2>2, <2>3 DEF IInv, BacklogInv, TableInv, IdsInv, AbortInv, serverVars
<1> QED
  BY <1>1, <1>2, <1>3 DEF Next

\* IInv is an invariant of the chat: every operation on the vectors keeps it.
THEOREM Inductive == Spec => []IInv
BY InitIInv, InductiveStep, PTL DEF Spec

-----------------------------------------------------------------------------
\* The index arithmetic on the table is right for any number of listeners:
\* they keep the first positions, every other entry is an accepted connection,
\* still open, of a client of its own.
THEOREM TableIsRight == Spec => []TableOK
<1>1. IInv => TableOK
  <2> SUFFICES ASSUME IInv PROVE TableOK
    OBVIOUS
  <2> USE NumListenersAssumption
  <2>1. /\ Len(pollfds) \in Nat /\ DOMAIN pollfds = 1..Len(pollfds)
        /\ Len(pollfds) >= NumListeners
        /\ number \in [Clients -> Nat]
    BY DEF IInv, VecTypes, TableInv
  <2>2. ASSUME NEW p \in DOMAIN pollfds
        PROVE  IF p <= NumListeners
               THEN pollfds[p].fd = p
               ELSE /\ pollfds[p].fd \in Clients
                    /\ number[pollfds[p].fd] > 0
                    /\ listening => link[pollfds[p].fd] = "open"
    <3>1. CASE p <= NumListeners
      BY <2>1, <3>1 DEF IInv, TableInv
    <3>2. CASE ~(p <= NumListeners)
      <4>1. p \in Connected
        BY <2>1, <3>2 DEF Connected
      <4>2. /\ pollfds[p].fd \in Clients
            /\ number[pollfds[p].fd] \in 1..client_count
            /\ listening => link[pollfds[p].fd] = "open"
        BY <4>1 DEF IInv, TableInv
      <4> QED
        BY <3>2, <4>2
    <3> QED
      BY <3>1, <3>2
  <2>3. ASSUME NEW p \in DOMAIN pollfds, NEW q \in DOMAIN pollfds,
               pollfds[p].fd = pollfds[q].fd, p < q
        PROVE  FALSE
    <3>1. CASE q <= NumListeners
      <4>1. p \in 1..NumListeners /\ q \in 1..NumListeners
        BY <2>1, <2>3, <3>1
      <4> QED
        BY <2>1, <2>3, <4>1 DEF IInv, TableInv
    <3>2. CASE ~(q <= NumListeners) /\ p <= NumListeners
      <4>1. pollfds[p].fd \in Listeners
        BY <2>1, <2>2, <3>2 DEF Listeners
      <4>2. pollfds[q].fd \in Clients
        BY <2>2, <3>2
      <4> QED
        BY <2>3, <4>1, <4>2, ClientsAssumption
    <3>3. CASE ~(p <= NumListeners)
      <4>1. p \in Connected /\ q \in Connected
        BY <2>1, <2>3, <3>3 DEF Connected
      <4>2. number[pollfds[p].fd] < number[pollfds[q].fd]
        BY <2>3, <4>1 DEF IInv, TableInv
      <4>3. number[pollfds[p].fd] \in Nat
        BY <2>1, <4>1 DEF IInv, TableInv
      <4> QED
        BY <2>3, <4>2, <4>3
    <3> QED
      BY <2>1, <3>1, <3>2, <3>3
  <2>4. \A p, q \in DOMAIN pollfds : pollfds[p].fd = pollfds[q].fd => p = q
    BY <2>1, <2>3
  <2> QED
    BY <2>1, <2>2, <2>4 DEF TableOK
<1> QED
  BY <1>1, Inductive, PTL

\* Line 123 never reads client_ids_vec behind its end.
THEOREM IdsCover == Spec => []IdsCoverClients
<1>1. IInv => IdsCoverClients
  BY DEF IInv, IdsInv, IdsCoverClients
<1> QED
  BY <1>1, Inductive, PTL

\* However clients come and go, a label is never newer than the client it is
\* put on.
THEOREM LabelsNeverNewer == Spec => []LabelNeverNewer
<1>1. IInv => LabelNeverNewer
  <2> SUFFICES ASSUME IInv, NEW p \in Connected
               PROVE  /\ client_ids[p - NumListeners] >= 1
                      /\ client_ids[p - NumListeners] <= number[pollfds[p].fd]
    BY DEF LabelNeverNewer
  <2>1. p - NumListeners \in 1..Len(client_ids)
    BY NumListenersAssumption DEF IInv, IdsInv, VecTypes, Connected
  <2>2. client_ids[p - NumListeners] \in (p - NumListeners)..client_count
    BY <2>1 DEF IInv, IdsInv
  <2> QED
    BY <2>1, <2>2 DEF IInv, IdsInv
<1> QED
  BY <1>1, Inductive, PTL

\* A client whose predecessors are all still there has its own number.
THEOREM PrefixIsRight == Spec => []PrefixAttribution
<1>1. IInv => PrefixAttribution
  <2> SUFFICES ASSUME IInv, NEW p \in Connected,
                      number[pollfds[p].fd] = p - NumListeners
               PROVE  client_ids[p - NumListeners] = p - NumListeners
    BY DEF PrefixAttribution
  <2>1. p - NumListeners \in 1..Len(client_ids)
    BY NumListenersAssumption DEF IInv, IdsInv, VecTypes, Connected
  <2>2. client_ids[p - NumListeners] \in (p - NumListeners)..client_count
    BY <2>1 DEF IInv, IdsInv
  <2>3. client_ids[p - NumListeners] <= p - NumListeners
    BY DEF IInv, IdsInv
  <2> QED
    BY <2>1, <2>2, <2>3
<1> QED
  BY <1>1, Inductive, PTL

\* The vectors abort only after Capacity - NumListeners connections.
THEOREM AbortIsLate == Spec => []AbortNeedsCrowd
<1>1. IInv => AbortNeedsCrowd
  BY DEF IInv, AbortInv, AbortNeedsCrowd
<1> QED
  BY <1>1, Inductive, PTL

-----------------------------------------------------------------------------
(***************************************************************************)
(* The framing of the streams.  What server and client know of each other  *)
(* through a stream: the server awaits a payload exactly when the length   *)
(* before what is left promised one, and a client that is still connected  *)
(* is about to write a payload exactly when its last length promised it.   *)
(***************************************************************************)
StreamUnits ==
    [part : {"len"}, empty : BOOLEAN]
      \cup [part : {"data"}, body : [from : Clients, no : Nat, enc : BOOLEAN]]

Promise(unit) == unit.part = "len" /\ ~unit.empty

\* The server has read c's length and awaits its payload.
Awaited(c) == spc = "body" /\ pollfds[i].fd = c

\* s is well framed behind a length that promised a payload, or did not.
Framed(s, promised) ==
    \A k \in 1..Len(s) :
        s[k].part = "data" <=> IF k = 1 THEN promised ELSE Promise(s[k - 1])

\* Whether a payload is due at the end of s.
Due(s, promised) == IF s = <<>> THEN promised ELSE Promise(s[Len(s)])

InStepWith(s, end, pc, promised) ==
    /\ Framed(s, promised)
    /\ end # "open" => s = <<>>
    /\ end = "open" /\ pc = "payload" => Due(s, promised)
    /\ end = "open" /\ pc \in {"poll", "line", "header", "recv", "print"} =>
         ~Due(s, promised)
    /\ pc = "start" => s = <<>>

Framing ==
    /\ c2s \in [Clients -> Seq(StreamUnits)]
    /\ lines \in [Clients -> Nat]
    /\ \A c \in Clients : InStepWith(c2s[c], link[c], cpc[c], Awaited(c))

\* A unit that is due at the end of a stream may be put there.
LEMMA AppendFramed ==
  ASSUME NEW s \in Seq(StreamUnits), NEW promised \in BOOLEAN, NEW unit \in StreamUnits,
         Framed(s, promised), unit.part = "data" <=> Due(s, promised)
  PROVE  /\ Append(s, unit) \in Seq(StreamUnits)
         /\ Framed(Append(s, unit), promised)
         /\ Due(Append(s, unit), promised) <=> Promise(unit)
<1> DEFINE t == Append(s, unit)
<1>1. /\ t \in Seq(StreamUnits) /\ Len(t) = Len(s) + 1 /\ t # <<>>
      /\ \A k \in 1..Len(s) : t[k] = s[k]
      /\ t[Len(s) + 1] = unit
      /\ Len(s) \in Nat /\ (s = <<>> <=> Len(s) = 0)
  OBVIOUS
<1> HIDE DEF t
<1>2. ASSUME NEW k \in 1..Len(t)
      PROVE  t[k].part = "data" <=> IF k = 1 THEN promised ELSE Promise(t[k - 1])
  <2>1. CASE k \in 1..Len(s)
    <3>1. t[k] = s[k] /\ (k # 1 => t[k - 1] = s[k - 1])
      BY <1>1, <2>1
    <3> QED
      BY <2>1, <3>1 DEF Framed
  <2>2. CASE k = Len(s) + 1 /\ s = <<>>
    BY <1>1, <2>2 DEF Due
  <2>3. CASE k = Len(s) + 1 /\ s # <<>>
    <3>1. k # 1 /\ t[k] = unit /\ t[k - 1] = s[Len(s)]
      BY <1>1, <2>3
    <3> QED
      BY <2>3, <3>1 DEF Due
  <2> QED
    BY <1>1, <2>1, <2>2, <2>3
<1> QED
  BY <1>1, <1>2 DEF Framed, Due, t

\* Reading the first unit: it is a payload exactly when one was promised, and
\* what is left is framed behind it.
LEMMA TailFramed ==
  ASSUME NEW s \in Seq(StreamUnits), NEW promised \in BOOLEAN, s # <<>>, Framed(s, promised)
  PROVE  /\ Tail(s) \in Seq(StreamUnits)
         /\ Head(s) \in StreamUnits /\ (Head(s).part = "data" <=> promised)
         /\ Framed(Tail(s), Promise(Head(s)))
         /\ Due(Tail(s), Promise(Head(s))) <=> Due(s, promised)
<1> DEFINE t == Tail(s)
<1>1. /\ t \in Seq(StreamUnits) /\ Len(t) = Len(s) - 1
      /\ \A k \in 1..Len(t) : t[k] = s[k + 1]
      /\ Len(s) \in Nat \ {0} /\ Head(s) = s[1] /\ s[1] \in StreamUnits
      /\ t = <<>> <=> Len(s) = 1
  <2>1. t \in Seq(StreamUnits) /\ Len(t) = Len(s) - 1
    OBVIOUS
  <2>2. \A k \in 1..Len(t) : t[k] = s[k + 1]
    OBVIOUS
  <2>3. Len(s) \in Nat \ {0} /\ Head(s) = s[1] /\ s[1] \in StreamUnits
    OBVIOUS
  <2>4. t = <<>> <=> Len(t) = 0
    BY <2>1, SMTT(60)
  <2> QED
    BY <2>1, <2>2, <2>3, <2>4
<1> HIDE DEF t
<1>2. s[1].part = "data" <=> promised
  BY <1>1 DEF Framed
<1>3. ASSUME NEW k \in 1..Len(t)
      PROVE  t[k].part = "data" <=> IF k = 1 THEN Promise(s[1]) ELSE Promise(t[k - 1])
  <2>1. k + 1 \in 1..Len(s) /\ k + 1 # 1 /\ (k + 1) - 1 = k /\ t[k] = s[k + 1]
    BY <1>1
  <2>2. s[k + 1].part = "data" <=> Promise(s[k])
    BY <2>1 DEF Framed
  <2>3. k # 1 => t[k - 1] = s[k]
    BY <1>1, SMTT(60)
  <2> QED
    BY <2>1, <2>2, <2>3
<1>4. Due(t, Promise(s[1])) <=> Due(s, promised)
  <2>1. CASE t = <<>>
    BY <1>1, <2>1 DEF Due
  <2>2. CASE t # <<>>
    <3>1. t[Len(t)] = s[Len(s)]
      BY <1>1, <2>2
    <3> QED
      BY <2>2, <3>1 DEF Due
  <2> QED
    BY <2>1, <2>2
<1> QED
  BY <1>1, <1>2, <1>3, <1>4 DEF Framed, t

\* Nothing left to read is well framed, whatever was promised.
LEMMA EmptyFramed ==
  ASSUME NEW promised \in BOOLEAN
  PROVE  Framed(<<>>, promised) /\ (Due(<<>>, promised) <=> promised)
BY DEF Framed, Due

-----------------------------------------------------------------------------
\* Where the server does not await a payload, before and after.
LEMMA ServerElsewhere ==
  ASSUME Framing, spc # "body", spc' # "body", UNCHANGED <<c2s, link, cpc, lines>>
  PROVE  Framing'
BY DEF Framing, Awaited

\* The server drops the client whose turn it is.
LEMMA DisconnectFrames ==
  ASSUME IInv, Framing, i \in Connected, spc \in {"scan", "body"},
         Disconnect(pollfds[i].fd), UNCHANGED clientVars
  PROVE  Framing'
<1> DEFINE c == pollfds[i].fd
<1>1. c \in Clients
  BY DEF IInv, TableInv
<1>2. /\ c2s' = [c2s EXCEPT ![c] = <<>>] /\ link' = [link EXCEPT ![c] = "closed"]
      /\ UNCHANGED <<cpc, lines>>
  BY DEF Disconnect, CloseServerEnd, clientVars
<1>3. spc' # "body"
  BY DEF Disconnect, Resume
<1>4. c2s' \in [Clients -> Seq(StreamUnits)] /\ lines' \in [Clients -> Nat]
  <2>1. <<>> \in Seq(StreamUnits)
    OBVIOUS
  <2>2. c2s \in [Clients -> Seq(StreamUnits)] /\ lines \in [Clients -> Nat]
    BY DEF Framing
  <2> QED
    BY <1>2, <2>1, <2>2
<1>5. ASSUME NEW d \in Clients
      PROVE  InStepWith(c2s'[d], link'[d], cpc'[d], Awaited(d)')
  <2>1. CASE d = c
    <3>1. c2s'[d] = <<>> /\ link'[d] = "closed"
      BY <1>1, <1>2, <2>1 DEF Framing, IInv, VecTypes
    <3> QED
      BY <3>1 DEF InStepWith, Framed
  <2>2. CASE d # c
    <3>1. c2s'[d] = c2s[d] /\ link'[d] = link[d] /\ cpc'[d] = cpc[d]
      BY <1>2, <2>2 DEF Framing, IInv, VecTypes
    <3>2. ~Awaited(d) /\ ~Awaited(d)'
      BY <1>3, <2>2 DEF Awaited
    <3>3. InStepWith(c2s[d], link[d], cpc[d], Awaited(d))
      BY DEF Framing
    <3> QED
      BY <3>1, <3>2, <3>3 DEF InStepWith, Framed, Due
  <2> QED
    BY <2>1, <2>2
<1> QED
  BY <1>4, <1>5 DEF Framing

\* The server takes a unit of the client whose turn it is: a length, after
\* which it awaits a payload, or the payload.
LEMMA ReadFrames ==
  ASSUME IInv, Framing, i \in Connected, UNCHANGED <<clientVars, link, pollfds, i>>,
         c2s[pollfds[i].fd] # <<>>,
         c2s' = [c2s EXCEPT ![pollfds[i].fd] = Tail(@)],
         \/ spc = "scan" /\ spc' = "body" /\ ~Head(c2s[pollfds[i].fd]).empty
         \/ spc = "body" /\ spc' = "bcast"
  PROVE  Framing'
<1> DEFINE c == pollfds[i].fd
           s == c2s[c]
<1>1. c \in Clients /\ s \in Seq(StreamUnits)
  BY DEF IInv, TableInv, Framing
<1>2. Framed(s, Awaited(c)) /\ Awaited(c) \in BOOLEAN
  BY <1>1 DEF Framing, InStepWith, Awaited
<1>3. /\ Tail(s) \in Seq(StreamUnits)
      /\ Head(s) \in StreamUnits /\ (Head(s).part = "data" <=> Awaited(c))
      /\ Framed(Tail(s), Promise(Head(s)))
      /\ Due(Tail(s), Promise(Head(s))) <=> Due(s, Awaited(c))
  BY <1>1, <1>2, TailFramed
<1>4. /\ \A d \in Clients : c2s'[d] = IF d = c THEN Tail(s) ELSE c2s[d]
      /\ c2s' \in [Clients -> Seq(StreamUnits)] /\ lines' \in [Clients -> Nat]
  BY <1>1, <1>3 DEF Framing, clientVars
<1>5. Awaited(c)' <=> Promise(Head(s))
  <2>1. CASE spc = "scan" /\ spc' = "body"
    <3>1. Head(s).part # "data" /\ ~Head(s).empty
      BY <1>3, <2>1 DEF Awaited
    <3>2. Head(s).part = "len"
      BY <1>3, <3>1 DEF StreamUnits
    <3> QED
      BY <2>1, <3>1, <3>2 DEF Awaited, Promise
  <2>2. CASE spc = "body" /\ spc' = "bcast"
    <3>1. Head(s).part = "data"
      BY <1>3, <2>2 DEF Awaited
    <3> QED
      BY <2>2, <3>1 DEF Awaited, Promise
  <2> QED
    BY <2>1, <2>2
<1>6. ASSUME NEW d \in Clients
      PROVE  InStepWith(c2s'[d], link'[d], cpc'[d], Awaited(d)')
  <2>0. link'[d] = link[d] /\ cpc'[d] = cpc[d]
        /\ InStepWith(c2s[d], link[d], cpc[d], Awaited(d))
    BY DEF Framing, clientVars
  <2>1. CASE d = c
    <3>1. c2s'[d] = Tail(s) /\ c2s[d] = s /\ s # <<>>
      BY <1>4, <2>1
    <3>2. Framed(Tail(s), Awaited(d)') /\ (Due(Tail(s), Awaited(d)') <=> Due(s, Awaited(d)))
      <4>1. Awaited(d)' = Promise(Head(s))
        BY <1>5, <2>1 DEF Awaited, Promise
      <4> QED
        BY <1>3, <2>1, <4>1
    <3> QED
      BY <2>0, <3>1, <3>2 DEF InStepWith
  <2>2. CASE d # c
    <3>1. c2s'[d] = c2s[d] /\ ~Awaited(d) /\ ~Awaited(d)'
      BY <1>4, <2>2 DEF Awaited
    <3> QED
      BY <2>0, <3>1 DEF InStepWith, Framed, Due
  <2> QED
    BY <2>1, <2>2
<1> QED
  BY <1>4, <1>6 DEF Framing

\* The end of the server closes every connection.
LEMMA DieFrames ==
  ASSUME IInv, Framing, NEW how \in {"aborted", "sigpipe"}, Die(how), UNCHANGED clientVars
  PROVE  Framing'
<1>1. /\ spc' = how
      /\ c2s' = [c \in Clients |-> <<>>]
      /\ \A c \in Clients : link'[c] # "open"
      /\ lines' = lines
  BY DEF Die, CloseAllServerEnds, clientVars
<1>2. <<>> \in Seq(StreamUnits)
  OBVIOUS
<1>3. c2s' \in [Clients -> Seq(StreamUnits)] /\ lines' \in [Clients -> Nat]
  BY <1>1, <1>2 DEF Framing
<1>4. \A c \in Clients : InStepWith(c2s'[c], link'[c], cpc'[c], Awaited(c)')
  BY <1>1 DEF InStepWith, Framed
<1> QED
  BY <1>3, <1>4 DEF Framing

\* Every step of the server.
LEMMA ServerFrames ==
  ASSUME IInv, Framing, ServerNext, UNCHANGED clientVars
  PROVE  Framing'
<1>0. spc \in {"scan", "body", "bcast"} /\ i > NumListeners => i \in Connected
  BY NumListenersAssumption DEF IInv, VecTypes, Connected
<1>1. CASE Poll \/ AcceptNewConnection \/ Writev \/ WritevGone \/ BroadcastDone
  <2>1. spc # "body" /\ spc' # "body" /\ UNCHANGED <<c2s, link, cpc, lines>>
    BY <1>1 DEF Poll, AcceptNewConnection, Writev, WritevGone, BroadcastDone, Resume,
                socketVars, clientVars
  <2> QED
    BY <2>1, ServerElsewhere
<1>2. CASE AcceptOverflow \/ WritevSigpipe
  <2>1. Die("aborted") \/ Die("sigpipe")
    BY <1>2 DEF AcceptOverflow, WritevSigpipe
  <2> QED
    BY <2>1, DieFrames
<1>3. CASE ReadHeader \/ ReadBody
  <2>1. i \in Connected
    <3>1. i > NumListeners
      BY <1>3 DEF ReadHeader, ReadBody, IInv, VecTypes
    <3> QED
      BY <1>0, <1>3, <3>1 DEF ReadHeader, ReadBody
  <2>2. /\ UNCHANGED <<link, pollfds, i>>
        /\ c2s[pollfds[i].fd] # <<>>
        /\ c2s' = [c2s EXCEPT ![pollfds[i].fd] = Tail(@)]
        /\ \/ spc = "scan" /\ spc' = "body" /\ ~Head(c2s[pollfds[i].fd]).empty
           \/ spc = "body" /\ spc' = "bcast"
    BY <1>3 DEF ReadHeader, ReadBody, PromisesPayload
  <2> QED
    BY <2>1, <2>2, ReadFrames DEF clientVars
<1>4. CASE ReadEmptyLine \/ ReadEof
  <2>1. spc \in {"scan", "body"} /\ Disconnect(pollfds[i].fd)
    BY <1>4 DEF ReadEmptyLine, ReadEof
  <2>2. i > NumListeners
    BY <1>4 DEF ReadEmptyLine, ReadEof, IInv, VecTypes
  <2>3. i \in Connected
    BY <1>0, <2>1, <2>2
  <2> QED
    BY <2>1, <2>3, DisconnectFrames
<1> QED
  BY <1>1, <1>2, <1>3, <1>4 DEF ServerNext

\* A step of client c that leaves its stream s, the server's end e and itself at
\* to.
LEMMA ClientMovesFrame ==
  ASSUME IInv, Framing, NEW c \in Clients, UNCHANGED serverVars,
         NEW s \in Seq(StreamUnits), NEW e, NEW to,
         c2s' = [c2s EXCEPT ![c] = s], link' = [link EXCEPT ![c] = e],
         cpc' = [cpc EXCEPT ![c] = to], lines' \in [Clients -> Nat],
         InStepWith(s, e, to, Awaited(c))
  PROVE  Framing'
<1>1. c2s \in [Clients -> Seq(StreamUnits)]
      /\ DOMAIN link = Clients /\ DOMAIN cpc = Clients
  BY DEF Framing, IInv, VecTypes
<1>2. c2s' \in [Clients -> Seq(StreamUnits)]
  BY <1>1
<1>3. ASSUME NEW d \in Clients
      PROVE  InStepWith(c2s'[d], link'[d], cpc'[d], Awaited(d)')
  <2>1. Awaited(d)' <=> Awaited(d)
    BY DEF Awaited, serverVars
  <2>2. CASE d = c
    <3>1. c2s'[d] = s /\ link'[d] = e /\ cpc'[d] = to
      BY <1>1, <2>2
    <3> QED
      BY <2>1, <2>2, <3>1 DEF InStepWith, Framed, Due
  <2>3. CASE d # c
    <3>1. c2s'[d] = c2s[d] /\ link'[d] = link[d] /\ cpc'[d] = cpc[d]
      BY <1>1, <2>3
    <3>2. InStepWith(c2s[d], link[d], cpc[d], Awaited(d))
      BY DEF Framing
    <3> QED
      BY <2>1, <3>1, <3>2 DEF InStepWith, Framed, Due
  <2> QED
    BY <2>2, <2>3
<1> QED
  BY <1>2, <1>3 DEF Framing

\* Every step of a client.
LEMMA ClientFrames ==
  ASSUME IInv, Framing, NEW c \in Clients, ClientStep(c) \/ UserStep(c), UNCHANGED serverVars
  PROVE  Framing'
<1> DEFINE s == c2s[c]
<1>1. /\ s \in Seq(StreamUnits) /\ Awaited(c) \in BOOLEAN
      /\ InStepWith(s, link[c], cpc[c], Awaited(c))
      /\ lines \in [Clients -> Nat]
      /\ c2s = [c2s EXCEPT ![c] = s] /\ link = [link EXCEPT ![c] = link[c]]
  BY DEF Framing, Awaited, IInv, VecTypes
<1>2. CASE Connect(c)
  <2>1. s = <<>> /\ ~Awaited(c)
    <3>1. cpc[c] = "start"
      BY <1>2 DEF Connect
    <3>2. s = <<>>
      BY <1>1, <3>1 DEF InStepWith
    <3>3. number[c] = 0
      BY <3>1 DEF IInv, BacklogInv
    <3>4. spc = "body" => i \in Connected
      BY NumListenersAssumption DEF IInv, VecTypes, Connected
    <3>5. ~Awaited(c)
      BY <3>3, <3>4 DEF Awaited, IInv, TableInv
    <3> QED
      BY <3>2, <3>5
  <2>2. InStepWith(s, "open", "poll", Awaited(c))
    BY <2>1 DEF InStepWith, Framed, Due
  <2>3. /\ c2s' = c2s /\ link' = [link EXCEPT ![c] = "open"]
        /\ cpc' = [cpc EXCEPT ![c] = "poll"] /\ lines' = lines
    BY <1>2 DEF Connect
  <2> QED
    BY <1>1, <2>2, <2>3, ClientMovesFrame
\* Steps that leave the stream and the server's end alone.
<1>3. CASE \/ ConnectRefused(c) \/ PollEof(c) \/ Kill(c) \/ WriteFails(c) \/ ReceiveEof(c)
           \/ (\E kind \in {"line", "empty"} : PollLine(c, kind)) \/ EndLine(c) \/ Receive(c) \/ Printed(c)
           \/ WriteLost(c)
  <2>1. PICK to :
          /\ cpc' = [cpc EXCEPT ![c] = to]
          /\ UNCHANGED <<c2s, link>>
          /\ \/ to = "exit"
             \/ to \in {"line", "header"} /\ cpc[c] \in {"poll", "line"}
             \/ to = "print" /\ cpc[c] \in {"poll", "recv"}
             \/ to = "poll" /\ cpc[c] = "print"
             \/ to \in {"payload", "recv", "poll"} /\ link[c] = "closed"
    <3>1. CASE ConnectRefused(c) \/ PollEof(c) \/ Kill(c) \/ WriteFails(c) \/ ReceiveEof(c)
      BY <3>1 DEF ConnectRefused, PollEof, Kill, WriteFails, ReceiveEof, Leave, socketVars
    <3>2. CASE (\E kind \in {"line", "empty"} : PollLine(c, kind)) \/ EndLine(c)
      BY <3>2 DEF PollLine, EndLine, socketVars
    <3>3. CASE Receive(c) \/ Printed(c)
      BY <3>3 DEF Receive, AtSocket, Printed, socketVars
    <3>4. CASE WriteLost(c)
      BY <3>4 DEF WriteLost, LineSent, socketVars
    <3> QED
      BY <1>3, <3>1, <3>2, <3>3, <3>4
  <2>2. InStepWith(s, link[c], to, Awaited(c))
    BY <1>1, <2>1 DEF InStepWith
  <2>3. lines' \in [Clients -> Nat]
    <3>1. lines' = lines \/ lines' = [lines EXCEPT ![c] = @ + 1]
      BY <1>3 DEF ConnectRefused, PollEof, Kill, WriteFails, ReceiveEof, PollLine, EndLine,
                  Receive, Printed, WriteLost, LineSent
    <3> QED
      BY <1>1, <3>1
  <2> QED
    BY <1>1, <2>1, <2>2, <2>3, ClientMovesFrame
<1>4. CASE WriteHeader(c)
  <2> DEFINE unit == [part |-> "len", empty |-> typed[c] = "empty"]
  <2>1. /\ cpc[c] = "header" /\ link[c] = "open"
        /\ c2s' = [c2s EXCEPT ![c] = Append(s, unit)]
        /\ UNCHANGED <<link, lines>>
    BY <1>4 DEF WriteHeader, LineSent
  <2>2. unit \in StreamUnits /\ unit.part = "len" /\ unit.part # "data"
        /\ (Promise(unit) <=> typed[c] # "empty")
    BY DEF StreamUnits, Promise
  <2>3. Framed(s, Awaited(c)) /\ ~Due(s, Awaited(c))
    BY <1>1, <2>1 DEF InStepWith
  <2>4. /\ Append(s, unit) \in Seq(StreamUnits)
        /\ Framed(Append(s, unit), Awaited(c))
        /\ Due(Append(s, unit), Awaited(c)) <=> Promise(unit)
    <3> HIDE DEF unit
    <3>1. unit.part = "data" <=> Due(s, Awaited(c))
      BY <2>2, <2>3
    <3> QED
      BY <1>1, <2>2, <2>3, <3>1, AppendFramed
  <2>5. PICK to : /\ cpc' = [cpc EXCEPT ![c] = to]
                  /\ \/ to \in {"recv", "poll"} /\ typed[c] = "empty"
                     \/ to = "payload" /\ typed[c] # "empty"
    BY <1>4 DEF WriteHeader, LineSent
  <2>6. InStepWith(Append(s, unit), link[c], to, Awaited(c))
    <3> HIDE DEF unit
    <3> QED
      BY <2>1, <2>2, <2>4, <2>5 DEF InStepWith
  <2> QED
    BY <1>1, <2>1, <2>4, <2>5, <2>6, ClientMovesFrame
<1>5. CASE WritePayload(c)
  <2> DEFINE unit == [part |-> "data",
                      body |-> Xcrypt([from |-> c, no |-> lines[c], enc |-> FALSE])]
  <2>1. /\ cpc[c] = "payload" /\ link[c] = "open"
        /\ c2s' = [c2s EXCEPT ![c] = Append(s, unit)]
        /\ UNCHANGED <<link, lines>>
    BY <1>5 DEF WritePayload, LineSent
  <2>2. unit \in StreamUnits /\ unit.part = "data" /\ ~Promise(unit)
    <3>1. Xcrypt([from |-> c, no |-> lines[c], enc |-> FALSE])
            \in [from : Clients, no : Nat, enc : BOOLEAN]
      BY <1>1 DEF Xcrypt
    <3> QED
      BY <3>1 DEF StreamUnits, Promise
  <2>3. Framed(s, Awaited(c)) /\ Due(s, Awaited(c))
    BY <1>1, <2>1 DEF InStepWith
  <2>4. /\ Append(s, unit) \in Seq(StreamUnits)
        /\ Framed(Append(s, unit), Awaited(c))
        /\ Due(Append(s, unit), Awaited(c)) <=> Promise(unit)
    <3> HIDE DEF unit
    <3>1. unit.part = "data" <=> Due(s, Awaited(c))
      BY <2>2, <2>3
    <3> QED
      BY <1>1, <2>2, <2>3, <3>1, AppendFramed
  <2>5. PICK to \in {"recv", "poll"} : cpc' = [cpc EXCEPT ![c] = to]
    BY <1>5 DEF WritePayload, LineSent
  <2>6. InStepWith(Append(s, unit), link[c], to, Awaited(c))
    <3> HIDE DEF unit
    <3> QED
      BY <2>1, <2>2, <2>4, <2>5 DEF InStepWith
  <2> QED
    BY <1>1, <2>1, <2>4, <2>5, <2>6, ClientMovesFrame
<1> QED
  BY <1>2, <1>3, <1>4, <1>5 DEF ClientStep, UserStep

\* At first nothing has been sent.
LEMMA InitFraming == Init => Framing
<1> SUFFICES ASSUME Init PROVE Framing
  OBVIOUS
<1>1. <<>> \in Seq(StreamUnits) /\ 0 \in Nat
  OBVIOUS
<1>2. /\ c2s = [c \in Clients |-> <<>>] /\ lines = [c \in Clients |-> 0]
      /\ link = [c \in Clients |-> "none"] /\ spc # "body"
  BY DEF Init, SocketsInit, ServerInit, ClientInit
<1>3. c2s \in [Clients -> Seq(StreamUnits)] /\ lines \in [Clients -> Nat]
  BY <1>1, <1>2
<1>4. ASSUME NEW c \in Clients
      PROVE  InStepWith(c2s[c], link[c], cpc[c], Awaited(c))
  <2>1. c2s[c] = <<>> /\ link[c] # "open" /\ Awaited(c) \in BOOLEAN
    BY <1>2 DEF Awaited
  <2>2. Framed(<<>>, Awaited(c))
    BY <2>1, EmptyFramed
  <2> QED
    BY <2>1, <2>2 DEF InStepWith
<1> QED
  BY <1>3, <1>4 DEF Framing

\* Every step keeps the streams framed.
LEMMA FramingStep == IInv /\ Framing /\ [Next]_vars => Framing'
<1> SUFFICES ASSUME IInv, Framing, [Next]_vars PROVE Framing'
  OBVIOUS
<1>1. CASE Server
  BY <1>1, ServerFrames DEF Server
<1>2. CASE \E c \in Clients : Client(c) \/ User(c)
  BY <1>2, ClientFrames DEF Client, User
<1>3. CASE UNCHANGED vars
  BY <1>3 DEF Framing, Awaited, vars, socketVars, serverVars, clientVars
<1> QED
  BY <1>1, <1>2, <1>3 DEF Next

\* A payload is never read as a length nor a length as a payload, for any number
\* of clients and any buffer size.
THEOREM StreamsFramed == Spec => []WellFramed
<1>1. Framing => WellFramed
  <2> SUFFICES ASSUME Framing, NEW c \in Clients, NEW k \in DOMAIN c2s[c]
               PROVE  LET first == [part |-> IF spc = "body" /\ pollfds[i].fd = c
                                             THEN "len" ELSE "data",
                                    empty |-> FALSE]
                          prev == IF k = 1 THEN first ELSE c2s[c][k - 1]
                      IN  (c2s[c][k].part = "data") <=> (prev.part = "len" /\ ~prev.empty)
    BY DEF WellFramed, InFraming
  <2>1. k \in 1..Len(c2s[c]) /\ Framed(c2s[c], Awaited(c))
    BY DEF Framing, InStepWith
  <2>2. c2s[c][k].part = "data" <=> IF k = 1 THEN Awaited(c) ELSE Promise(c2s[c][k - 1])
    BY <2>1 DEF Framed
  <2> QED
    BY <2>2 DEF Awaited, Promise
<1> QED
  BY <1>1, InitFraming, FramingStep, Inductive, PTL DEF Spec

-----------------------------------------------------------------------------
(***************************************************************************)
(* The lines somebody is owed, as the log grows.  The places of the log    *)
(* that hold them are ranked; the n-th line owed is at the place ranked n. *)
(***************************************************************************)
\* The room counts as the chat does.
LEMMA SameCardinality == \A S : Room!Cardinality(S) = Cardinality(S)
BY DEF Room!Cardinality, Cardinality

\* A function on the first n numbers is a sequence.
LEMMA FunctionIsSeq ==
  ASSUME NEW S, NEW n \in Nat, NEW f \in [1..n -> S]
  PROVE  f \in Seq(S) /\ Len(f) = n
<1>1. f \in Seq(S)
  BY SeqDef
<1>2. Len(f) \in Nat /\ DOMAIN f = 1..Len(f) /\ DOMAIN f = 1..n
  BY <1>1, LenProperties
<1> QED
  BY <1>1, <1>2

\* How many of the places are at or before k.
Rank(places, k) == Cardinality({m \in places : m <= k})

\* The places of a sequence up to length n are finite.
LEMMA PlacesFinite ==
  ASSUME NEW n \in Nat, NEW P, P \subseteq 1..n
  PROVE  /\ IsFiniteSet(P) /\ Cardinality(P) \in Nat
         /\ \A k \in Nat : Rank(P, k) \in Nat /\ Rank(P, k) <= Cardinality(P)
<1>1. IsFiniteSet(P)
  <2>1. IsFiniteSet(1..n)
    BY FS_Interval
  <2> QED
    BY <2>1, FS_Subset
<1>2. ASSUME NEW k \in Nat PROVE Rank(P, k) \in Nat /\ Rank(P, k) <= Cardinality(P)
  BY <1>1, FS_Subset, FS_CardinalityType DEF Rank
<1> QED
  BY <1>1, <1>2, FS_CardinalityType

\* A place behind all others.
LEMMA RankOfLast ==
  ASSUME NEW n \in Nat, NEW P, P \subseteq 1..n
  PROVE  /\ Cardinality(P \cup {n + 1}) = Cardinality(P) + 1
         /\ Rank(P \cup {n + 1}, n + 1) = Cardinality(P) + 1
         /\ \A k \in 1..n : Rank(P \cup {n + 1}, k) = Rank(P, k)
<1>1. IsFiniteSet(P) /\ n + 1 \notin P /\ \A m \in P : m \in Nat /\ m <= n
  <2>1. n + 1 \notin 1..n /\ \A m \in 1..n : m \in Nat /\ m <= n
    OBVIOUS
  <2> QED
    BY <2>1, PlacesFinite
<1>2. Cardinality(P \cup {n + 1}) = Cardinality(P) + 1
  BY <1>1, FS_AddElement
<1>3. {m \in P \cup {n + 1} : m <= n + 1} = P \cup {n + 1}
  <2>1. \A m \in P \cup {n + 1} : m <= n + 1
    BY <1>1
  <2> QED
    BY <2>1
<1>4. \A k \in 1..n : {m \in P \cup {n + 1} : m <= k} = {m \in P : m <= k}
  BY <1>1
<1> QED
  BY <1>2, <1>3, <1>4 DEF Rank

\* The places have the ranks from 1 to their number.
RanksFilled(P) == \A x \in 1..Cardinality(P) : \E k \in P : Rank(P, k) = x

\* One more place behind the others takes the next rank.
LEMMA RanksFilledNext ==
  ASSUME NEW n \in Nat, NEW P, P \subseteq 1..n, RanksFilled(P)
  PROVE  RanksFilled(P \cup {n + 1})
<1> DEFINE Q == P \cup {n + 1}
<1>1. Cardinality(P) \in Nat /\ Cardinality(Q) = Cardinality(P) + 1
  BY PlacesFinite, RankOfLast
<1>2. SUFFICES ASSUME NEW x \in 1..Cardinality(Q)
               PROVE  \E k \in Q : Rank(Q, k) = x
  BY DEF RanksFilled
<1>3. CASE x = Cardinality(P) + 1
  BY <1>3, RankOfLast
<1>4. CASE x \in 1..Cardinality(P)
  <2>1. PICK k \in P : Rank(P, k) = x
    BY <1>4 DEF RanksFilled
  <2>2. Rank(Q, k) = Rank(P, k)
    BY RankOfLast
  <2> QED
    BY <2>1, <2>2
<1> QED
  BY <1>1, <1>3, <1>4

\* Places and what is there.
LEMMA InOrderIs ==
  ASSUME NEW S, NEW s \in Seq(S), NEW P, P \subseteq 1..Len(s), RanksFilled(P)
  PROVE  /\ \A x \in 1..Cardinality(P) : Room!Place(P, x) \in P /\ s[Room!Place(P, x)] \in S
         /\ Room!InOrder(s, P) = [x \in 1..Cardinality(P) |-> s[Room!Place(P, x)]]
         /\ Room!InOrder(s, P) \in Seq(S)
         /\ Len(Room!InOrder(s, P)) = Cardinality(P)
<1> DEFINE N == Cardinality(P)
           old == Room!InOrder(s, P)
<1>1. N \in Nat
  <2>1. Len(s) \in Nat
    OBVIOUS
  <2> QED
    BY <2>1, PlacesFinite
<1>2. ASSUME NEW x \in 1..N
      PROVE  Room!Place(P, x) \in P /\ s[Room!Place(P, x)] \in S
  <2>1. \E k \in P : Rank(P, k) = x
    BY DEF RanksFilled
  <2>2. Room!Place(P, x) \in P
    BY <2>1, SameCardinality DEF Room!Place, Rank
  <2> QED
    BY <2>2, ElementOfSeq
<1>3. old = [x \in 1..N |-> s[Room!Place(P, x)]]
  BY SameCardinality DEF Room!InOrder
<1> HIDE DEF N, old
<1>4. old \in [1..N -> S]
  BY <1>2, <1>3
<1>5. old \in Seq(S) /\ Len(old) = N
  BY <1>1, <1>4, FunctionIsSeq
<1> QED
  BY <1>2, <1>3, <1>5 DEF N, old

\* Putting one more line behind those of these places, or behind a log that has
\* it for itself.
LEMMA InOrderGrows ==
  ASSUME NEW s \in Seq(Bodies), NEW b \in Bodies, NEW P, P \subseteq 1..Len(s), RanksFilled(P)
  PROVE  /\ Room!InOrder(s, P) \in Seq(Bodies)
         /\ Len(Room!InOrder(s, P)) = Cardinality(P)
         /\ Room!InOrder(Append(s, b), P) = Room!InOrder(s, P)
         /\ Room!InOrder(Append(s, b), P \cup {Len(s) + 1}) = Append(Room!InOrder(s, P), b)
<1> DEFINE t == Append(s, b)
           n == Len(s)
           Q == P \cup {n + 1}
           N == Cardinality(P)
           old == Room!InOrder(s, P)
<1>1. /\ t \in Seq(Bodies) /\ Len(t) = n + 1 /\ t[n + 1] = b /\ n \in Nat
      /\ \A k \in 1..n : t[k] = s[k] /\ s[k] \in Bodies
  OBVIOUS
<1>2. N \in Nat /\ Cardinality(Q) = N + 1
  BY <1>1, PlacesFinite, RankOfLast
<1>3. ASSUME NEW x \in 1..N
      PROVE  Room!Place(P, x) \in 1..n /\ Room!Place(Q, x) = Room!Place(P, x)
  <2>1. \E k \in P : Rank(P, k) = x
    BY DEF RanksFilled
  <2>2. Room!Place(P, x) \in P
    BY <2>1, SameCardinality DEF Room!Place, Rank
  <2>3. \A k : (k \in Q /\ Rank(Q, k) = x) <=> (k \in P /\ Rank(P, k) = x)
    <3>1. \A k \in P : k \in 1..n /\ Rank(Q, k) = Rank(P, k)
      BY <1>1, RankOfLast
    <3>2. Rank(Q, n + 1) = N + 1
      BY <1>1, RankOfLast
    <3>3. n + 1 \notin P
      BY <1>1
    <3>4. N + 1 # x
      BY <1>2
    <3> QED
      BY <3>1, <3>2, <3>3, <3>4
  <2>4. Room!Place(Q, x) = Room!Place(P, x)
    <3> HIDE DEF Q
    <3> QED
      BY <2>3, SameCardinality DEF Room!Place, Rank
  <2> QED
    BY <2>2, <2>4
<1>4. Room!Place(Q, N + 1) = n + 1
  <2>1. ASSUME NEW k \in Q
        PROVE  Rank(Q, k) = N + 1 <=> k = n + 1
    <3>1. CASE k \in P
      <4>1. k \in 1..n /\ Rank(Q, k) = Rank(P, k)
        BY <1>1, <3>1, RankOfLast
      <4>2. Rank(P, k) \in Nat /\ Rank(P, k) <= N
        <5>1. k \in Nat
          BY <1>1, <4>1
        <5> QED
          BY <1>1, <5>1, PlacesFinite
      <4> QED
        BY <1>1, <1>2, <4>1, <4>2
    <3>2. CASE k = n + 1
      BY <1>1, <3>2, RankOfLast
    <3> QED
      BY <3>1, <3>2
  <2>2. n + 1 \in Q
    OBVIOUS
  <2> HIDE DEF Q
  <2> QED
    BY <2>1, <2>2, SameCardinality DEF Room!Place, Rank
<1>5. /\ old = [x \in 1..N |-> s[Room!Place(P, x)]]
      /\ Room!InOrder(t, P) = [x \in 1..N |-> t[Room!Place(P, x)]]
      /\ Room!InOrder(t, Q) = [x \in 1..(N + 1) |-> t[Room!Place(Q, x)]]
  <2>1. Room!InOrder(t, Q) = [x \in 1..Cardinality(Q) |-> t[Room!Place(Q, x)]]
    BY SameCardinality DEF Room!InOrder
  <2>2. /\ old = [x \in 1..N |-> s[Room!Place(P, x)]]
        /\ Room!InOrder(t, P) = [x \in 1..N |-> t[Room!Place(P, x)]]
    BY SameCardinality DEF Room!InOrder
  <2> HIDE DEF Q, N, old, t
  <2> QED
    BY <1>2, <2>1, <2>2
<1> HIDE DEF t, Q, n, N, old
<1>6. old \in Seq(Bodies) /\ Len(old) = N
  BY <1>1, <1>2, <1>3, <1>5
<1>7. Room!InOrder(t, P) = old
  BY <1>1, <1>3, <1>5
<1>8. Room!InOrder(t, Q) = Append(old, b)
  <2>1. /\ Append(old, b) \in Seq(Bodies) /\ Len(Append(old, b)) = N + 1
        /\ \A x \in 1..N : Append(old, b)[x] = old[x]
        /\ Append(old, b)[N + 1] = b
    BY <1>6, AppendProperties
  <2>2. ASSUME NEW x \in 1..(N + 1)
        PROVE  t[Room!Place(Q, x)] = Append(old, b)[x] /\ Append(old, b)[x] \in Bodies
    <3>1. CASE x = N + 1
      BY <1>1, <1>4, <2>1, <3>1
    <3>2. CASE x # N + 1
      <4>1. x \in 1..N
        BY <1>2, <3>2
      <4>2. old[x] \in Bodies
        BY <1>6, <4>1, ElementOfSeq
      <4> QED
        BY <1>1, <1>3, <1>5, <2>1, <4>1, <4>2
    <3> QED
      BY <3>1, <3>2
  <2>3. /\ Room!InOrder(t, Q) \in Seq(Bodies) /\ Len(Room!InOrder(t, Q)) = N + 1
        /\ \A x \in 1..(N + 1) : Room!InOrder(t, Q)[x] = Append(old, b)[x]
    <3> DEFINE new == Room!InOrder(t, Q)
    <3>1. \A x \in 1..(N + 1) : t[Room!Place(Q, x)] \in Bodies
      BY <2>2
    <3>2. new \in [1..(N + 1) -> Bodies] /\ \A x \in 1..(N + 1) : new[x] = t[Room!Place(Q, x)]
      BY <1>5, <3>1
    <3>3. N + 1 \in Nat
      BY <1>2
    <3> HIDE DEF new
    <3>4. new \in Seq(Bodies) /\ Len(new) = N + 1
      BY <3>2, <3>3, FunctionIsSeq
    <3> QED
      BY <2>2, <3>2, <3>4 DEF new
  <2> QED
    BY <2>1, <2>3, SeqEqual
<1> QED
  BY <1>6, <1>7, <1>8 DEF t, Q, n, N, old

-----------------------------------------------------------------------------
Frames == [id : Nat, body : Bodies]

\* What somebody has been shown, and what is on its way.
ReceivedAs(sh, q) == Payloads(sh) \o [k \in DOMAIN q |-> Xcrypt(q[k].body)]

\* What c is owed of the log l from place a on.
OwedOf(l, a, c) == Room!InOrder(l, Room!OthersFrom(l, a, c))

\* AES in counter mode: encrypting again decrypts, and leaves sender and number alone.
LEMMA XcryptTwice ==
  ASSUME NEW b \in Bodies
  PROVE  /\ Xcrypt(b) \in Bodies /\ Xcrypt(Xcrypt(b)) = b
         /\ Xcrypt(b).from = b.from /\ Xcrypt(b).no = b.no /\ Xcrypt(b).enc = ~b.enc
<1>1. b = [from |-> b.from, no |-> b.no, enc |-> b.enc]
      /\ b.from \in Clients /\ b.no \in 1..MaxLines /\ b.enc \in BOOLEAN
  BY DEF Bodies
<1>2. Xcrypt(b) = [from |-> b.from, no |-> b.no, enc |-> ~b.enc]
  BY <1>1 DEF Xcrypt
<1>3. Xcrypt(b) \in Bodies
  BY <1>1, <1>2 DEF Bodies
<1>4. Xcrypt(Xcrypt(b)) = [from |-> b.from, no |-> b.no, enc |-> ~ ~ b.enc]
  <2> DEFINE d == Xcrypt(b)
  <2>1. /\ DOMAIN d = {"from", "no", "enc"}
        /\ d.from = b.from /\ d.no = b.no /\ d.enc = ~b.enc
    BY <1>2
  <2> HIDE DEF d
  <2>2. /\ DOMAIN [d EXCEPT !.enc = ~d.enc] = {"from", "no", "enc"}
        /\ [d EXCEPT !.enc = ~d.enc].from = b.from /\ [d EXCEPT !.enc = ~d.enc].no = b.no
        /\ [d EXCEPT !.enc = ~d.enc].enc = ~ ~ b.enc
    BY <2>1
  <2>3. [d EXCEPT !.enc = ~d.enc] = [from |-> b.from, no |-> b.no, enc |-> ~ ~ b.enc]
    BY <2>1, <2>2
  <2> QED
    BY <2>3 DEF d, Xcrypt
<1>5. ~ ~ b.enc = b.enc
  BY <1>1
<1>6. Xcrypt(Xcrypt(b)) = b
  BY <1>1, <1>4, <1>5, Zenon
<1>7. Xcrypt(b).from = b.from /\ Xcrypt(b).no = b.no /\ Xcrypt(b).enc = ~b.enc
  BY <1>2
<1> QED
  BY <1>3, <1>6, <1>7

\* What is received, place by place.
LEMMA ReceivedIs ==
  ASSUME NEW sh \in Seq(Frames), NEW q \in Seq(Frames)
  PROVE  /\ ReceivedAs(sh, q) \in Seq(Bodies)
         /\ Len(ReceivedAs(sh, q)) = Len(sh) + Len(q)
         /\ \A k \in 1..Len(sh) : ReceivedAs(sh, q)[k] = sh[k].body
         /\ \A k \in 1..Len(q) : ReceivedAs(sh, q)[Len(sh) + k] = Xcrypt(q[k].body)
<1> DEFINE plain == [k \in DOMAIN q |-> Xcrypt(q[k].body)]
<1>1. /\ Len(sh) \in Nat /\ DOMAIN sh = 1..Len(sh)
      /\ Len(q) \in Nat /\ DOMAIN q = 1..Len(q)
  OBVIOUS
<1>2. \A k \in 1..Len(sh) : sh[k].body \in Bodies
  <2>1. \A k \in 1..Len(sh) : sh[k] \in Frames
    BY ElementOfSeq
  <2> QED
    BY <2>1 DEF Frames
<1>3. \A k \in 1..Len(q) : Xcrypt(q[k].body) \in Bodies
  <2>1. \A k \in 1..Len(q) : q[k] \in Frames
    BY ElementOfSeq
  <2> QED
    BY <2>1, XcryptTwice DEF Frames
<1>4. /\ Payloads(sh) \in Seq(Bodies) /\ Len(Payloads(sh)) = Len(sh)
      /\ \A k \in 1..Len(sh) : Payloads(sh)[k] = sh[k].body
  BY <1>1, <1>2 DEF Payloads
<1>5. /\ plain \in Seq(Bodies) /\ Len(plain) = Len(q)
      /\ \A k \in 1..Len(q) : plain[k] = Xcrypt(q[k].body)
  BY <1>1, <1>3
<1>6. ReceivedAs(sh, q) = Payloads(sh) \o plain
  BY DEF ReceivedAs
<1> HIDE DEF plain
<1>7. /\ Payloads(sh) \o plain \in Seq(Bodies)
      /\ Len(Payloads(sh) \o plain) = Len(sh) + Len(q)
      /\ \A k \in 1..(Len(sh) + Len(q)) :
           (Payloads(sh) \o plain)[k] = IF k <= Len(sh) THEN Payloads(sh)[k] ELSE plain[k - Len(sh)]
  <2> HIDE DEF Payloads
  <2> DEFINE first == Payloads(sh)
  <2>1. first \in Seq(Bodies) /\ Len(first) = Len(sh)
    BY <1>4
  <2> HIDE DEF first
  <2>2. /\ first \o plain \in Seq(Bodies)
        /\ Len(first \o plain) = Len(first) + Len(plain)
        /\ \A k \in 1..(Len(first) + Len(plain)) :
             (first \o plain)[k] = IF k <= Len(first) THEN first[k] ELSE plain[k - Len(first)]
    <3>1. first \in Seq(Bodies) /\ plain \in Seq(Bodies)
      BY <1>5, <2>1
    <3> QED
      BY <3>1, ConcatProperties, Zenon
  <2> QED
    BY <1>5, <2>1, <2>2 DEF first
<1>8. \A k \in 1..Len(sh) : (Payloads(sh) \o plain)[k] = sh[k].body
  BY <1>1, <1>4, <1>7
<1>9. \A k \in 1..Len(q) : (Payloads(sh) \o plain)[Len(sh) + k] = Xcrypt(q[k].body)
  <2> SUFFICES ASSUME NEW k \in 1..Len(q)
               PROVE  (Payloads(sh) \o plain)[Len(sh) + k] = Xcrypt(q[k].body)
    OBVIOUS
  <2>1. /\ Len(sh) + k \in 1..(Len(sh) + Len(q)) /\ ~(Len(sh) + k <= Len(sh))
        /\ (Len(sh) + k) - Len(sh) = k
    BY <1>1
  <2> QED
    BY <1>5, <1>7, <2>1
<1> QED
  BY <1>6, <1>7, <1>8, <1>9

\* A frame written to q is one more line to come.
LEMMA ReceivedAppend ==
  ASSUME NEW sh \in Seq(Frames), NEW q \in Seq(Frames), NEW n \in Nat, NEW b \in Bodies
  PROVE  /\ Append(q, [id |-> n, body |-> Xcrypt(b)]) \in Seq(Frames)
         /\ ReceivedAs(sh, Append(q, [id |-> n, body |-> Xcrypt(b)])) = Append(ReceivedAs(sh, q), b)
<1> DEFINE f == [id |-> n, body |-> Xcrypt(b)]
           t == Append(q, f)
           old == ReceivedAs(sh, q)
           new == ReceivedAs(sh, t)
<1>1. f \in Frames /\ Xcrypt(f.body) = b
  BY XcryptTwice DEF Frames
<1> HIDE DEF f
<1>2. /\ t \in Seq(Frames) /\ Len(t) = Len(q) + 1 /\ t[Len(q) + 1] = f
      /\ \A k \in 1..Len(q) : t[k] = q[k]
  BY <1>1, AppendProperties
<1>3. Len(sh) \in Nat /\ Len(q) \in Nat
  OBVIOUS
<1> HIDE DEF t
<1>4. /\ old \in Seq(Bodies) /\ Len(old) = Len(sh) + Len(q)
      /\ \A k \in 1..Len(sh) : old[k] = sh[k].body
      /\ \A k \in 1..Len(q) : old[Len(sh) + k] = Xcrypt(q[k].body)
  BY ReceivedIs
<1>5. /\ new \in Seq(Bodies) /\ Len(new) = Len(sh) + (Len(q) + 1)
      /\ \A k \in 1..Len(sh) : new[k] = sh[k].body
      /\ \A k \in 1..(Len(q) + 1) : new[Len(sh) + k] = Xcrypt(t[k].body)
  BY <1>2, ReceivedIs
<1> HIDE DEF old, new
<1>6. /\ Append(old, b) \in Seq(Bodies) /\ Len(Append(old, b)) = Len(old) + 1
      /\ \A k \in 1..Len(old) : Append(old, b)[k] = old[k]
      /\ Append(old, b)[Len(old) + 1] = b
  <2>1. old \in Seq(Bodies) /\ b \in Bodies
    BY <1>4
  <2> QED
    BY <2>1
<1>7. ASSUME NEW k \in 1..Len(new) PROVE new[k] = Append(old, b)[k]
  <2>0. k \in 1..(Len(sh) + (Len(q) + 1))
    BY <1>5
  <2>1. CASE k \in 1..Len(sh)
    <3>1. k \in 1..Len(old)
      BY <1>3, <1>4, <2>1
    <3> QED
      BY <1>4, <1>5, <1>6, <2>1, <3>1
  <2>2. CASE k \in (Len(sh) + 1) .. (Len(sh) + Len(q))
    <3>1. /\ k - Len(sh) \in 1..Len(q) /\ k - Len(sh) \in 1..(Len(q) + 1)
          /\ Len(sh) + (k - Len(sh)) = k /\ k \in 1..Len(old)
      BY <1>3, <1>4, <2>2
    <3>2. new[k] = Xcrypt(t[k - Len(sh)].body) /\ old[k] = Xcrypt(q[k - Len(sh)].body)
      BY <1>4, <1>5, <3>1
    <3> QED
      BY <1>2, <1>6, <3>1, <3>2
  <2>3. CASE k = Len(sh) + (Len(q) + 1)
    <3>1. new[k] = Xcrypt(t[Len(q) + 1].body)
      BY <1>3, <1>5, <2>3
    <3>2. k = Len(old) + 1
      BY <1>3, <1>4, <2>3
    <3> QED
      BY <1>1, <1>2, <1>6, <3>1, <3>2
  <2> QED
    <3>1. \/ k \in 1..Len(sh) \/ k \in (Len(sh) + 1) .. (Len(sh) + Len(q))
          \/ k = Len(sh) + (Len(q) + 1)
      BY <1>3, <2>0
    <3> QED
      BY <2>1, <2>2, <2>3, <3>1
<1>8. Len(new) = Len(Append(old, b))
  BY <1>3, <1>4, <1>5, <1>6
<1>9. new = Append(old, b)
  BY <1>5, <1>6, <1>7, <1>8, SeqEqual
<1> QED
  BY <1>2, <1>9 DEF f, t, old, new

\* A frame read from q and shown is the same line.
LEMMA ReceivedMove ==
  ASSUME NEW sh \in Seq(Frames), NEW q \in Seq(Frames), q # <<>>
  PROVE  /\ Append(sh, [id |-> Head(q).id, body |-> Xcrypt(Head(q).body)]) \in Seq(Frames)
         /\ Tail(q) \in Seq(Frames)
         /\ ReceivedAs(Append(sh, [id |-> Head(q).id, body |-> Xcrypt(Head(q).body)]), Tail(q))
              = ReceivedAs(sh, q)
         /\ ReceivedAs(sh, q)[Len(sh) + 1] = Xcrypt(Head(q).body)
<1> DEFINE f == [id |-> Head(q).id, body |-> Xcrypt(Head(q).body)]
           t == Append(sh, f)
           old == ReceivedAs(sh, q)
           new == ReceivedAs(t, Tail(q))
<1>1. Len(sh) \in Nat /\ Len(q) \in Nat \ {0} /\ Head(q) = q[1] /\ q[1] \in Frames
  BY EmptySeq, ElementOfSeq
<1>2. f \in Frames /\ f.body = Xcrypt(q[1].body)
  BY <1>1, XcryptTwice DEF Frames
<1> HIDE DEF f
<1>3. /\ t \in Seq(Frames) /\ Len(t) = Len(sh) + 1 /\ t[Len(sh) + 1] = f
      /\ \A k \in 1..Len(sh) : t[k] = sh[k]
  BY <1>2, AppendProperties
<1>4. /\ Tail(q) \in Seq(Frames) /\ Len(Tail(q)) = Len(q) - 1
      /\ \A k \in 1..(Len(q) - 1) : Tail(q)[k] = q[k + 1]
  BY HeadTailProperties
<1> HIDE DEF t
<1>5. /\ old \in Seq(Bodies) /\ Len(old) = Len(sh) + Len(q)
      /\ \A k \in 1..Len(sh) : old[k] = sh[k].body
      /\ \A k \in 1..Len(q) : old[Len(sh) + k] = Xcrypt(q[k].body)
  BY ReceivedIs
<1>6. /\ new \in Seq(Bodies) /\ Len(new) = (Len(sh) + 1) + (Len(q) - 1)
      /\ \A k \in 1..(Len(sh) + 1) : new[k] = t[k].body
      /\ \A k \in 1..(Len(q) - 1) : new[(Len(sh) + 1) + k] = Xcrypt(Tail(q)[k].body)
  <2> DEFINE r == Tail(q)
  <2>1. r \in Seq(Frames) /\ Len(r) = Len(q) - 1
    BY <1>4
  <2> HIDE DEF r
  <2>2. /\ ReceivedAs(t, r) \in Seq(Bodies) /\ Len(ReceivedAs(t, r)) = Len(t) + Len(r)
        /\ \A k \in 1..Len(t) : ReceivedAs(t, r)[k] = t[k].body
        /\ \A k \in 1..Len(r) : ReceivedAs(t, r)[Len(t) + k] = Xcrypt(r[k].body)
    BY <1>3, <2>1, ReceivedIs
  <2> QED
    BY <1>3, <2>1, <2>2 DEF r, new
<1> HIDE DEF old, new
<1>7. ASSUME NEW k \in 1..Len(old) PROVE new[k] = old[k]
  <2>1. CASE k \in 1..Len(sh)
    <3>1. k \in 1..(Len(sh) + 1)
      BY <1>1, <2>1
    <3> QED
      BY <1>3, <1>5, <1>6, <2>1, <3>1
  <2>2. CASE k = Len(sh) + 1
    <3>1. 1 \in 1..Len(q) /\ k \in 1..(Len(sh) + 1)
      BY <1>1, <2>2
    <3> QED
      BY <1>2, <1>3, <1>5, <1>6, <2>2, <3>1
  <2>3. CASE k \in (Len(sh) + 2) .. (Len(sh) + Len(q))
    <3> DEFINE m == k - (Len(sh) + 1)
    <3>1. /\ m \in 1..(Len(q) - 1) /\ m + 1 \in 1..Len(q)
          /\ (Len(sh) + 1) + m = k /\ Len(sh) + (m + 1) = k
      BY <1>1, <2>3
    <3> HIDE DEF m
    <3>2. new[k] = Xcrypt(Tail(q)[m].body) /\ old[k] = Xcrypt(q[m + 1].body)
      BY <1>5, <1>6, <3>1
    <3> QED
      BY <1>4, <3>1, <3>2
  <2> QED
    BY <1>1, <1>5, <2>1, <2>2, <2>3
<1>8. Len(new) = Len(old)
  BY <1>1, <1>5, <1>6
<1>9. new = old
  BY <1>5, <1>6, <1>7, <1>8, SeqEqual
<1>10. old[Len(sh) + 1] = Xcrypt(Head(q).body)
  <2>1. 1 \in 1..Len(q)
    BY <1>1
  <2> QED
    BY <1>1, <1>5, <2>1
<1> QED
  BY <1>3, <1>4, <1>9, <1>10 DEF f, t, old, new

-----------------------------------------------------------------------------
\* A line more in the log is one more that everybody else is owed.
LEMMA OwedGrows ==
  ASSUME NEW l \in Seq(Bodies), NEW b \in Bodies, NEW a \in 0..Len(l), NEW c,
         RanksFilled(Room!OthersFrom(l, a, c))
  PROVE  /\ RanksFilled(Room!OthersFrom(Append(l, b), a, c))
         /\ OwedOf(Append(l, b), a, c)
              = IF b.from = c THEN OwedOf(l, a, c) ELSE Append(OwedOf(l, a, c), b)
<1> DEFINE t == Append(l, b)
           P == Room!OthersFrom(l, a, c)
           Q == Room!OthersFrom(t, a, c)
<1>1. /\ Len(l) \in Nat /\ Len(t) = Len(l) + 1 /\ t[Len(l) + 1] = b
      /\ \A k \in 1..Len(l) : t[k] = l[k]
  OBVIOUS
<1>2. /\ P = {k \in a + 1 .. Len(l) : l[k].from # c}
      /\ Q = {k \in a + 1 .. Len(t) : t[k].from # c}
  BY DEF Room!OthersFrom
<1> HIDE DEF t, P, Q
<1>3. P \subseteq 1..Len(l)
  BY <1>1, <1>2
<1>4. Q = IF b.from = c THEN P ELSE P \cup {Len(l) + 1}
  <2>1. \A k \in a + 1 .. Len(t) : (k \in a + 1 .. Len(l) /\ k \in 1..Len(l)) \/ k = Len(l) + 1
    BY <1>1
  <2>2. \A k \in a + 1 .. Len(l) : k \in a + 1 .. Len(t) /\ k \in 1..Len(l)
    BY <1>1
  <2>3. Len(l) + 1 \in a + 1 .. Len(t)
    BY <1>1
  <2>4. \A k \in Q : k \in P \/ (b.from # c /\ k = Len(l) + 1)
    BY <1>1, <1>2, <2>1
  <2>5. \A k \in P : k \in Q
    BY <1>1, <1>2, <2>2
  <2>6. b.from # c => Len(l) + 1 \in Q
    BY <1>1, <1>2, <2>3
  <2> QED
    BY <2>4, <2>5, <2>6
<1>5. RanksFilled(P)
  BY DEF P
<1>6. RanksFilled(Q)
  BY <1>1, <1>3, <1>4, <1>5, RanksFilledNext
<1>7. /\ Room!InOrder(t, P) = Room!InOrder(l, P)
      /\ Room!InOrder(t, P \cup {Len(l) + 1}) = Append(Room!InOrder(l, P), b)
  <2>1. l \in Seq(Bodies) /\ b \in Bodies
    OBVIOUS
  <2>2. Room!InOrder(Append(l, b), P) = Room!InOrder(l, P)
    BY <1>3, <1>5, <2>1, InOrderGrows
  <2>3. Room!InOrder(Append(l, b), P \cup {Len(l) + 1}) = Append(Room!InOrder(l, P), b)
    BY <1>3, <1>5, <2>1, InOrderGrows
  <2> QED
    BY <2>2, <2>3 DEF t
<1> QED
  BY <1>4, <1>6, <1>7 DEF OwedOf, t, P, Q

\* What is owed is a sequence of payloads.
LEMMA OwedIs ==
  ASSUME NEW l \in Seq(Bodies), NEW a \in 0..Len(l), NEW c,
         RanksFilled(Room!OthersFrom(l, a, c))
  PROVE  OwedOf(l, a, c) \in Seq(Bodies)
<1>1. Room!OthersFrom(l, a, c) \subseteq 1..Len(l)
  BY DEF Room!OthersFrom
<1> QED
  BY <1>1, InOrderIs DEF OwedOf

\* Somebody who joins now is owed nothing yet.
LEMMA OwedAtFirst ==
  ASSUME NEW l \in Seq(Bodies), NEW c
  PROVE  RanksFilled(Room!OthersFrom(l, Len(l), c)) /\ OwedOf(l, Len(l), c) = <<>>
<1> DEFINE P == Room!OthersFrom(l, Len(l), c)
<1>1. P = {}
  BY DEF Room!OthersFrom
<1>2. Cardinality(P) = 0
  BY <1>1, FS_EmptySet
<1>3. RanksFilled(P)
  BY <1>2 DEF RanksFilled
<1>4. P \subseteq 1..Len(l)
  BY <1>1
<1> HIDE DEF P
<1>5. Room!InOrder(l, P) \in Seq(Bodies) /\ Len(Room!InOrder(l, P)) = 0
  <2>1. l \in Seq(Bodies)
    OBVIOUS
  <2>2. Room!InOrder(l, P) \in Seq(Bodies) /\ Len(Room!InOrder(l, P)) = Cardinality(P)
    BY <1>3, <1>4, <2>1, InOrderIs, Zenon
  <2> QED
    BY <1>2, <2>2
<1>6. Room!InOrder(l, P) = <<>>
  BY <1>5, EmptySeq
<1> QED
  BY <1>3, <1>6 DEF OwedOf, P

-----------------------------------------------------------------------------
\* r is the beginning of o.
Begins(r, o) == Len(r) <= Len(o) /\ \A k \in 1..Len(r) : r[k] = o[k]

\* What somebody with the number n (0: not accepted) has got of what it is owed
\* of the log l from place a on: nothing is missing in between, and nothing at
\* the end when it is still there, except b when its turn for that has not come.
Delivers(c, l, a, n, sh, q, there, pending, b) ==
    /\ a \in 0..Len(l)
    /\ RanksFilled(Room!OthersFrom(l, a, c))
    /\ n = 0 => sh = <<>> /\ q = <<>>
    /\ n # 0 => Begins(ReceivedAs(sh, q), OwedOf(l, a, c))
    /\ there => /\ pending => OwedOf(l, a, c) = Append(ReceivedAs(sh, q), b)
                /\ ~pending => OwedOf(l, a, c) = ReceivedAs(sh, q)

\* It goes away, and what was on its way to it is lost.
LEMMA DeliversNoMore ==
  ASSUME NEW c, NEW l, NEW a, NEW n, NEW sh \in Seq(Frames), NEW q \in Seq(Frames),
         NEW there, NEW pending, NEW b, NEW later, NEW other,
         Delivers(c, l, a, n, sh, q, there, pending, b)
  PROVE  Delivers(c, l, a, n, sh, <<>>, FALSE, later, other)
<1>1. <<>> \in Seq(Frames) /\ Len(<<>>) = 0
  BY EmptySeq
<1>2. /\ Len(ReceivedAs(sh, q)) = Len(sh) + Len(q) /\ Len(sh) \in Nat /\ Len(q) \in Nat
      /\ \A k \in 1..Len(sh) : ReceivedAs(sh, q)[k] = sh[k].body
  BY ReceivedIs, SMTT(60)
<1>3. /\ Len(ReceivedAs(sh, <<>>)) = Len(sh)
      /\ \A k \in 1..Len(sh) : ReceivedAs(sh, <<>>)[k] = sh[k].body
  <2> DEFINE e == <<>>
  <2>1. e \in Seq(Frames) /\ Len(e) = 0
    BY <1>1
  <2> HIDE DEF e
  <2>2. /\ Len(ReceivedAs(sh, e)) = Len(sh) + Len(e)
        /\ \A k \in 1..Len(sh) : ReceivedAs(sh, e)[k] = sh[k].body
    BY <2>1, ReceivedIs
  <2> QED
    BY <1>2, <2>1, <2>2 DEF e
<1>4. ASSUME Begins(ReceivedAs(sh, q), OwedOf(l, a, c))
      PROVE  Begins(ReceivedAs(sh, <<>>), OwedOf(l, a, c))
  <2>1. Len(sh) + Len(q) <= Len(OwedOf(l, a, c))
    BY <1>2, <1>4 DEF Begins
  <2> QED
    BY <1>2, <1>3, <1>4, <2>1 DEF Begins
<1> QED
  BY <1>4 DEF Delivers

\* The frame at the head of what is on its way is the next line it is owed.
LEMMA DeliversNext ==
  ASSUME NEW c, NEW l \in Seq(Bodies), NEW a, NEW n,
         NEW sh \in Seq(Frames), NEW q \in Seq(Frames), q # <<>>,
         NEW there, NEW pending, NEW b,
         Delivers(c, l, a, n, sh, q, there, pending, b)
  PROVE  /\ n # 0 /\ Len(sh) < Len(OwedOf(l, a, c))
         /\ OwedOf(l, a, c)[Len(sh) + 1] = Xcrypt(Head(q).body)
<1>1. ReceivedAs(sh, q)[Len(sh) + 1] = Xcrypt(Head(q).body)
  BY ReceivedMove
<1>2. n # 0
  BY DEF Delivers
<1>3. Begins(ReceivedAs(sh, q), OwedOf(l, a, c))
  BY <1>2 DEF Delivers
<1>4. Len(ReceivedAs(sh, q)) = Len(sh) + Len(q) /\ Len(sh) \in Nat /\ Len(q) \in Nat \ {0}
  BY ReceivedIs, EmptySeq
<1>5. OwedOf(l, a, c) \in Seq(Bodies)
  BY OwedIs DEF Delivers
<1>6. Len(sh) + Len(q) <= Len(OwedOf(l, a, c)) /\ Len(OwedOf(l, a, c)) \in Nat
  BY <1>3, <1>4, <1>5 DEF Begins
<1>7. ReceivedAs(sh, q)[Len(sh) + 1] = OwedOf(l, a, c)[Len(sh) + 1]
  <2>1. Len(sh) + 1 \in 1..Len(ReceivedAs(sh, q))
    BY <1>4
  <2> QED
    BY <1>3, <2>1 DEF Begins
<1>8. Len(sh) < Len(OwedOf(l, a, c))
  BY <1>4, <1>6
<1> QED
  BY <1>1, <1>2, <1>7, <1>8

\* It reads this frame and shows it.
LEMMA DeliversShown ==
  ASSUME NEW c, NEW l \in Seq(Bodies), NEW a, NEW n,
         NEW sh \in Seq(Frames), NEW q \in Seq(Frames), q # <<>>,
         NEW there, NEW pending, NEW b,
         NEW f, f = [id |-> Head(q).id, body |-> Xcrypt(Head(q).body)],
         Delivers(c, l, a, n, sh, q, there, pending, b)
  PROVE  /\ Append(sh, f) \in Seq(Frames) /\ Tail(q) \in Seq(Frames)
         /\ Delivers(c, l, a, n, Append(sh, f), Tail(q), there, pending, b)
<1>1. /\ Append(sh, f) \in Seq(Frames) /\ Tail(q) \in Seq(Frames)
      /\ ReceivedAs(Append(sh, f), Tail(q)) = ReceivedAs(sh, q)
  BY ReceivedMove
<1>2. n # 0
  BY DEF Delivers
<1> QED
  BY <1>1, <1>2 DEF Delivers

\* The pending line is written to it.
LEMMA DeliversWritten ==
  ASSUME NEW c, NEW l \in Seq(Bodies), NEW a, NEW n, NEW m \in Nat,
         NEW sh \in Seq(Frames), NEW q \in Seq(Frames), NEW b \in Bodies, NEW other,
         Delivers(c, l, a, n, sh, q, TRUE, TRUE, b), n # 0
  PROVE  LET t == Append(q, [id |-> m, body |-> Xcrypt(b)])
         IN  t \in Seq(Frames) /\ Delivers(c, l, a, n, sh, t, TRUE, FALSE, other)
<1> DEFINE t == Append(q, [id |-> m, body |-> Xcrypt(b)])
<1>1. t \in Seq(Frames) /\ ReceivedAs(sh, t) = Append(ReceivedAs(sh, q), b)
  BY ReceivedAppend
<1> HIDE DEF t
<1>2. OwedOf(l, a, c) = ReceivedAs(sh, t)
  BY <1>1 DEF Delivers
<1>3. ReceivedAs(sh, t) \in Seq(Bodies)
  BY <1>1, ReceivedIs
<1>4. Len(ReceivedAs(sh, t)) \in Nat
  BY <1>3, LenProperties
<1>5. Begins(ReceivedAs(sh, t), OwedOf(l, a, c))
  BY <1>2, <1>4 DEF Begins
<1>6. Delivers(c, l, a, n, sh, t, TRUE, FALSE, other)
  BY <1>2, <1>5 DEF Delivers
<1> QED
  BY <1>1, <1>6 DEF t

\* A line is taken into the log; it is pending for all but its sender.
LEMMA DeliversPosted ==
  ASSUME NEW c, NEW l \in Seq(Bodies), NEW a, NEW n,
         NEW sh \in Seq(Frames), NEW q \in Seq(Frames), NEW b \in Bodies,
         NEW there, NEW other,
         Delivers(c, l, a, n, sh, q, there, FALSE, other)
  PROVE  Delivers(c, Append(l, b), a, n, sh, q, there, b.from # c, b)
<1> DEFINE t == Append(l, b)
           o == OwedOf(l, a, c)
           r == ReceivedAs(sh, q)
           oo == OwedOf(t, a, c)
<1>1. a \in 0..Len(l) /\ RanksFilled(Room!OthersFrom(l, a, c))
  BY DEF Delivers
<1>2. /\ RanksFilled(Room!OthersFrom(t, a, c))
      /\ oo = IF b.from = c THEN o ELSE Append(o, b)
  BY <1>1, OwedGrows
<1>3. o \in Seq(Bodies)
  BY <1>1, OwedIs
<1>4. Len(l) \in Nat /\ Len(t) = Len(l) + 1
  OBVIOUS
<1>5. a \in 0..Len(t)
  BY <1>1, <1>4
<1>6. r \in Seq(Bodies)
  BY ReceivedIs
<1> HIDE DEF t, o, r, oo
<1>7. Begins(r, o) => Begins(r, oo)
  <2>1. CASE b.from = c
    BY <1>2, <2>1
  <2>2. CASE b.from # c
    <3>1. oo = Append(o, b)
      BY <1>2, <2>2
    <3>2. Len(oo) = Len(o) + 1 /\ \A k \in 1..Len(o) : oo[k] = o[k]
      BY <1>3, <3>1
    <3>3. Len(o) \in Nat /\ Len(r) \in Nat
      BY <1>3, <1>6
    <3> QED
      BY <3>2, <3>3 DEF Begins
  <2> QED
    BY <2>1, <2>2
<1>8. there => o = r
  BY DEF Delivers, o, r
<1>9. /\ n = 0 => sh = <<>> /\ q = <<>>
      /\ n # 0 => Begins(r, oo)
  BY <1>7 DEF Delivers, o, r
<1>10. there => /\ b.from # c => oo = Append(r, b)
                /\ ~(b.from # c) => oo = r
  BY <1>2, <1>8
<1> QED
  BY <1>2, <1>5, <1>9, <1>10 DEF Delivers, t, r, oo

\* It joins.
LEMMA DeliversFromNowOn ==
  ASSUME NEW c, NEW l \in Seq(Bodies), NEW n, NEW there, NEW b
  PROVE  Delivers(c, l, Len(l), n, <<>>, <<>>, there, FALSE, b)
<1>1. RanksFilled(Room!OthersFrom(l, Len(l), c)) /\ OwedOf(l, Len(l), c) = <<>>
  BY OwedAtFirst
<1>2. ReceivedAs(<<>>, <<>>) = <<>>
  <2> DEFINE e == <<>>
  <2>1. e \in Seq(Frames) /\ Len(e) = 0
    BY EmptySeq
  <2> HIDE DEF e
  <2>2. ReceivedAs(e, e) \in Seq(Bodies) /\ Len(ReceivedAs(e, e)) = Len(e) + Len(e)
    BY <2>1, ReceivedIs
  <2>3. ReceivedAs(e, e) = <<>>
    BY <2>1, <2>2, EmptySeq
  <2> QED
    BY <2>3 DEF e
<1>3. Begins(<<>>, <<>>)
  BY DEF Begins
<1>4. Len(l) \in 0..Len(l)
  BY LenProperties
<1> QED
  BY <1>1, <1>2, <1>3, <1>4 DEF Delivers

-----------------------------------------------------------------------------
(***************************************************************************)
(* What is posted.  A client numbers its lines as they are typed, and what *)
(* it has typed but not yet written, written but not yet read, and read    *)
(* into the log have numbers in this order.                                *)
(***************************************************************************)
\* The last number a client at pc with x lines typed has given to a line whose
\* payload it has written.
Numbered(pc, x) == IF pc \in {"line", "header", "payload"} THEN x - 1 ELSE x

\* The stream s of c and the log l, c having numbered its lines up to n.
PostsInOrder(c, s, l, n) ==
    /\ \A k \in 1..Len(s) : s[k].part = "data" =>
         s[k].body.from = c /\ s[k].body.enc /\ s[k].body.no <= n
    /\ \A k, m \in 1..Len(s) :
         s[k].part = "data" /\ s[m].part = "data" /\ k < m => s[k].body.no < s[m].body.no
    /\ \A k \in 1..Len(l) : l[k].from = c => l[k].no <= n
    /\ \A k \in 1..Len(l), m \in 1..Len(s) :
         l[k].from = c /\ s[m].part = "data" => l[k].no < s[m].body.no

Posts ==
    /\ c2s \in [Clients -> Seq(Units)]
    /\ lines \in [Clients -> 0..MaxLines]
    /\ cpc \in [Clients -> ClientPcs]
    /\ log \in Seq(Bodies)
    /\ \A k \in 1..Len(log) : ~log[k].enc
    /\ \A c \in Clients : cpc[c] \in {"line", "header", "payload"} => lines[c] >= 1
    /\ \A c \in Clients : PostsInOrder(c, c2s[c], log, Numbered(cpc[c], lines[c]))

\* The bound on the lines typed together bounds the lines of each client.
LEMMA TypedInBound ==
  ASSUME lines \in [Clients -> 0..MaxLines], NEW c \in Clients,
         Cardinality({l \in Clients \X (1..MaxLines) : l[2] <= lines[l[1]]}) < MaxLines
  PROVE  lines[c] + 1 \in 0..MaxLines
<1> DEFINE all == Clients \X (1..MaxLines)
           made == {l \in all : l[2] <= lines[l[1]]}
           own == {c} \X (1..MaxLines)
<1>1. MaxLines \in Nat /\ lines[c] \in 0..MaxLines
  BY MaxLinesAssumption
<1>2. IsFiniteSet(1..MaxLines) /\ Cardinality(1..MaxLines) = MaxLines
  BY <1>1, FS_Interval
<1>3. IsFiniteSet({c}) /\ Cardinality({c}) = 1
  BY FS_Singleton
<1>4. Cardinality(own) = MaxLines
  <2>1. Cardinality(own) = Cardinality({c}) * Cardinality(1..MaxLines)
    BY <1>2, <1>3, FS_Product
  <2> QED
    BY <1>1, <1>2, <1>3, <2>1
<1>5. IsFiniteSet(made)
  <2>1. IsFiniteSet(all)
    BY <1>2, ClientsFinite, FS_Product
  <2>2. made \subseteq all
    OBVIOUS
  <2> HIDE DEF all, made
  <2> QED
    BY <2>1, <2>2, FS_Subset
<1>6. ASSUME lines[c] = MaxLines PROVE FALSE
  <2>1. own \subseteq made
    BY <1>1, <1>6
  <2>2. Cardinality(own) <= Cardinality(made) /\ Cardinality(made) < MaxLines
    <3>1. Cardinality(made) < MaxLines
      OBVIOUS
    <3> HIDE DEF own, made
    <3> QED
      BY <1>5, <2>1, <3>1, FS_Subset
  <2>3. Cardinality(made) \in Nat
    <3> HIDE DEF made
    <3> QED
      BY <1>5, FS_CardinalityType
  <2> HIDE DEF own, made
  <2> QED
    BY <1>1, <1>4, <2>2, <2>3
<1> QED
  BY <1>1, <1>6

\* What the units of a stream are.
LEMMA UnitsAre ==
  ASSUME NEW s \in Seq(Units)
  PROVE  /\ Len(s) \in Nat
         /\ \A k \in 1..Len(s) : s[k] \in Units
         /\ \A k \in 1..Len(s) : s[k].part = "data" =>
              s[k].body \in Bodies /\ s[k].body.no \in Nat
<1>1. \A u \in Units : u.part = "data" => u.body \in Bodies
  BY DEF Units
<1>2. \A b \in Bodies : b.no \in Nat
  BY MaxLinesAssumption DEF Bodies
<1> QED
  BY <1>1, <1>2, ElementOfSeq, LenProperties

\* More lines typed.
LEMMA PostsLater ==
  ASSUME NEW c, NEW s \in Seq(Units), NEW l \in Seq(Bodies),
         NEW n \in Int, NEW m \in Int, n <= m, PostsInOrder(c, s, l, n)
  PROVE  PostsInOrder(c, s, l, m)
<1>1. \A b \in Bodies : b.no \in Nat
  BY MaxLinesAssumption DEF Bodies
<1>2. \A k \in 1..Len(l) : l[k].no \in Nat
  BY <1>1, ElementOfSeq
<1>3. \A k \in 1..Len(s) : s[k].part = "data" => s[k].body.no \in Nat
  BY UnitsAre
<1> QED
  BY <1>2, <1>3, SMTT(60) DEF PostsInOrder

\* A length written.
LEMMA PostsLength ==
  ASSUME NEW c, NEW s \in Seq(Units), NEW l \in Seq(Bodies), NEW n \in Int,
         NEW u \in Units, u.part # "data", PostsInOrder(c, s, l, n)
  PROVE  PostsInOrder(c, Append(s, u), l, n)
<1> DEFINE t == Append(s, u)
<1>1. /\ Len(s) \in Nat /\ Len(t) = Len(s) + 1 /\ t[Len(s) + 1] = u
      /\ \A k \in 1..Len(s) : t[k] = s[k]
  OBVIOUS
<1> HIDE DEF t
<1>2. \A k \in 1..Len(t) : t[k].part = "data" => k \in 1..Len(s) /\ t[k] = s[k]
  BY <1>1
<1>3. PostsInOrder(c, t, l, n)
  BY <1>2 DEF PostsInOrder
<1> QED
  BY <1>3 DEF t

\* A payload written: the next number.
LEMMA PostsPayload ==
  ASSUME NEW c, NEW s \in Seq(Units), NEW l \in Seq(Bodies), NEW n \in Nat, NEW m \in Nat,
         n < m, NEW u \in Units, u.part = "data",
         u.body.from = c, u.body.enc, u.body.no = m, PostsInOrder(c, s, l, n)
  PROVE  PostsInOrder(c, Append(s, u), l, m)
<1> DEFINE t == Append(s, u)
<1>1. /\ Len(s) \in Nat /\ Len(t) = Len(s) + 1 /\ t[Len(s) + 1] = u
      /\ \A k \in 1..Len(s) : t[k] = s[k]
  OBVIOUS
<1> HIDE DEF t
<1>2. \A b \in Bodies : b.no \in Nat
  BY MaxLinesAssumption DEF Bodies
<1>3. \A k \in 1..Len(l) : l[k].no \in Nat
  BY <1>2, ElementOfSeq
<1>4. \A k \in 1..Len(s) : s[k].part = "data" => s[k].body.no \in Nat /\ s[k].body.no < m
  <2>1. \A k \in 1..Len(s) : s[k].part = "data" => s[k].body.no \in Nat
    BY UnitsAre
  <2> QED
    BY <2>1 DEF PostsInOrder
<1>5. \A k \in 1..Len(t) : k \in 1..Len(s) \/ k = Len(s) + 1
  BY <1>1
<1>6. ASSUME NEW k \in 1..Len(t), t[k].part = "data"
      PROVE  t[k].body.from = c /\ t[k].body.enc /\ t[k].body.no <= m
  <2>1. CASE k \in 1..Len(s)
    BY <1>1, <1>4, <1>6, <2>1, SMTT(60) DEF PostsInOrder
  <2>2. CASE k = Len(s) + 1
    BY <1>1, <2>2
  <2> QED
    BY <1>5, <2>1, <2>2
<1>7. ASSUME NEW k \in 1..Len(t), NEW x \in 1..Len(t),
             t[k].part = "data", t[x].part = "data", k < x
      PROVE  t[k].body.no < t[x].body.no
  <2>1. k \in 1..Len(s) /\ t[k] = s[k]
    BY <1>1, <1>7
  <2>2. CASE x \in 1..Len(s)
    BY <1>1, <1>7, <2>1, <2>2 DEF PostsInOrder
  <2>3. CASE x = Len(s) + 1
    BY <1>1, <1>4, <1>7, <2>1, <2>3
  <2> QED
    BY <1>5, <2>2, <2>3
<1>8. \A k \in 1..Len(l) : l[k].from = c => l[k].no <= m /\ l[k].no < m
  BY <1>3 DEF PostsInOrder
<1>9. ASSUME NEW k \in 1..Len(l), NEW x \in 1..Len(t), l[k].from = c, t[x].part = "data"
      PROVE  l[k].no < t[x].body.no
  <2>1. CASE x \in 1..Len(s)
    BY <1>1, <1>9, <2>1 DEF PostsInOrder
  <2>2. CASE x = Len(s) + 1
    BY <1>1, <1>8, <1>9, <2>2
  <2> QED
    BY <1>5, <2>1, <2>2
<1>10. PostsInOrder(c, t, l, m)
  BY <1>6, <1>7, <1>8, <1>9 DEF PostsInOrder
<1> QED
  BY <1>10 DEF t

\* Unread units dropped.
LEMMA PostsDropped ==
  ASSUME NEW c, NEW s, NEW l, NEW n, PostsInOrder(c, s, l, n)
  PROVE  PostsInOrder(c, <<>>, l, n)
BY DEF PostsInOrder

\* A unit read.
LEMMA PostsRead ==
  ASSUME NEW c, NEW s \in Seq(Units), NEW l, NEW n, s # <<>>, PostsInOrder(c, s, l, n)
  PROVE  /\ Tail(s) \in Seq(Units) /\ Head(s) = s[1] /\ s[1] \in Units
         /\ Len(s) \in Nat \ {0} /\ Len(Tail(s)) = Len(s) - 1
         /\ \A k \in 1..Len(Tail(s)) : k + 1 \in 1..Len(s) /\ Tail(s)[k] = s[k + 1]
         /\ PostsInOrder(c, Tail(s), l, n)
<1> DEFINE t == Tail(s)
<1>1. /\ t \in Seq(Units) /\ Len(t) = Len(s) - 1
      /\ \A k \in 1..Len(t) : t[k] = s[k + 1]
  BY HeadTailProperties
<1>2. Len(s) \in Nat \ {0} /\ Head(s) = s[1] /\ s[1] \in Units
  BY EmptySeq, ElementOfSeq
<1> HIDE DEF t
<1>3. \A k \in 1..Len(t) : k + 1 \in 1..Len(s) /\ t[k] = s[k + 1]
  BY <1>1, <1>2
<1>4. \A k, m \in 1..Len(t) : k < m => k + 1 < m + 1
  BY <1>1, <1>2
<1>5. PostsInOrder(c, t, l, n)
  BY <1>3, <1>4 DEF PostsInOrder
<1> QED
  BY <1>1, <1>2, <1>3, <1>5 DEF t

\* A payload read into the log.
LEMMA PostsTaken ==
  ASSUME NEW c, NEW s \in Seq(Units), NEW l \in Seq(Bodies), NEW n \in Int, s # <<>>,
         Head(s).part = "data", PostsInOrder(c, s, l, n)
  PROVE  LET b == Xcrypt(Head(s).body)
         IN  /\ b = [from |-> c, no |-> b.no, enc |-> FALSE]
             /\ b \in Bodies
             /\ \A k \in 1..Len(l) : l[k].from = c => l[k].no < b.no
             /\ PostsInOrder(c, Tail(s), Append(l, b), n)
<1> DEFINE b == Xcrypt(Head(s).body)
           t == Tail(s)
           ll == Append(l, b)
<1>1. /\ t \in Seq(Units) /\ Head(s) = s[1] /\ s[1] \in Units
      /\ Len(s) \in Nat \ {0} /\ Len(t) = Len(s) - 1
      /\ \A k \in 1..Len(t) : k + 1 \in 1..Len(s) /\ t[k] = s[k + 1]
      /\ PostsInOrder(c, t, l, n)
  BY PostsRead
<1>2. /\ Head(s).body \in Bodies /\ 1 \in 1..Len(s)
      /\ Head(s).body.from = c /\ Head(s).body.enc /\ Head(s).body.no <= n
  BY <1>1, UnitsAre DEF PostsInOrder
<1>3. /\ b \in Bodies /\ b.from = c /\ b.no = Head(s).body.no /\ b.enc = ~Head(s).body.enc
  BY <1>2, XcryptTwice
<1>4. b = [from |-> c, no |-> b.no, enc |-> FALSE]
  BY <1>2, <1>3 DEF Bodies
<1> HIDE DEF b, t
<1>5. /\ Len(l) \in Nat /\ Len(ll) = Len(l) + 1 /\ ll[Len(l) + 1] = b
      /\ \A k \in 1..Len(l) : ll[k] = l[k]
  BY <1>3
<1> HIDE DEF ll
<1>6. \A k \in 1..Len(ll) : k \in 1..Len(l) \/ k = Len(l) + 1
  BY <1>5
<1>7. \A k \in 1..Len(l) : l[k].from = c => l[k].no < b.no
  BY <1>1, <1>2, <1>3 DEF PostsInOrder
<1>8. ASSUME NEW k \in 1..Len(ll), ll[k].from = c PROVE ll[k].no <= n
  <2>1. CASE k \in 1..Len(l)
    BY <1>5, <1>8, <2>1 DEF PostsInOrder
  <2>2. CASE k = Len(l) + 1
    BY <1>2, <1>3, <1>5, <2>2
  <2> QED
    BY <1>6, <2>1, <2>2
<1>9. ASSUME NEW k \in 1..Len(ll), NEW m \in 1..Len(t), ll[k].from = c, t[m].part = "data"
      PROVE  ll[k].no < t[m].body.no
  <2>1. CASE k \in 1..Len(l)
    BY <1>1, <1>5, <1>9, <2>1 DEF PostsInOrder
  <2>2. CASE k = Len(l) + 1
    <3>1. m + 1 \in 1..Len(s) /\ 1 < m + 1 /\ t[m] = s[m + 1]
      BY <1>1
    <3>2. s[1].body.no < s[m + 1].body.no
      BY <1>1, <1>2, <1>9, <3>1 DEF PostsInOrder
    <3> QED
      BY <1>1, <1>3, <1>5, <2>2, <3>1, <3>2
  <2> QED
    BY <1>6, <2>1, <2>2
<1>10. PostsInOrder(c, t, ll, n)
  BY <1>1, <1>8, <1>9 DEF PostsInOrder
<1> QED
  BY <1>3, <1>4, <1>7, <1>10 DEF b, t, ll

\* Somebody else's line.
LEMMA PostsOther ==
  ASSUME NEW c, NEW s, NEW l \in Seq(Bodies), NEW n, NEW b \in Bodies, b.from # c,
         PostsInOrder(c, s, l, n)
  PROVE  PostsInOrder(c, s, Append(l, b), n)
<1> DEFINE ll == Append(l, b)
<1>1. /\ Len(l) \in Nat /\ Len(ll) = Len(l) + 1 /\ ll[Len(l) + 1] = b
      /\ \A k \in 1..Len(l) : ll[k] = l[k]
  OBVIOUS
<1> HIDE DEF ll
<1>2. \A k \in 1..Len(ll) : ll[k].from = c => k \in 1..Len(l) /\ ll[k] = l[k]
  BY <1>1
<1>3. PostsInOrder(c, s, ll, n)
  BY <1>2 DEF PostsInOrder
<1> QED
  BY <1>3 DEF ll

-----------------------------------------------------------------------------
\* What PostsInOrder needs of one client.
LEMMA PostsOf ==
  ASSUME Posts, NEW c \in Clients
  PROVE  /\ c2s[c] \in Seq(Units) /\ lines[c] \in Nat /\ lines[c] <= MaxLines
         /\ log \in Seq(Bodies) /\ Numbered(cpc[c], lines[c]) \in Nat
         /\ Numbered(cpc[c], lines[c]) <= MaxLines
         /\ PostsInOrder(c, c2s[c], log, Numbered(cpc[c], lines[c]))
BY MaxLinesAssumption DEF Posts, Numbered

\* A step of the server that reads nothing, or closes connections.
LEMMA ServerPosts ==
  ASSUME Posts, UNCHANGED <<clientVars, log>>,
         c2s' \in [Clients -> Seq(Units)],
         \A c \in Clients : c2s'[c] = c2s[c] \/ c2s'[c] = <<>>
  PROVE  Posts'
<1>1. ASSUME NEW c \in Clients
      PROVE  PostsInOrder(c, c2s'[c], log, Numbered(cpc[c], lines[c]))
  BY PostsOf, PostsDropped
<1> QED
  BY <1>1 DEF Posts, clientVars

\* The server takes a unit: a length, or the payload that was promised.
LEMMA ReadPosts ==
  ASSUME IInv, Framing, Posts, i \in Connected, ReadHeader \/ ReadBody, UNCHANGED clientVars
  PROVE  /\ Posts'
         /\ ReadBody =>
              LET c == pollfds[i].fd
                  b == Xcrypt(Head(c2s[c]).body)
              IN  /\ b \in Bodies /\ b = [from |-> c, no |-> b.no, enc |-> FALSE]
                  /\ \A k \in 1..Len(log) : log[k].from = c => log[k].no < b.no
<1> DEFINE c == pollfds[i].fd
           s == c2s[c]
           n == Numbered(cpc[c], lines[c])
           b == Xcrypt(Head(s).body)
<1>1. c \in Clients
  BY DEF IInv, TableInv
<1>2. /\ s \in Seq(Units) /\ n \in Nat /\ log \in Seq(Bodies) /\ PostsInOrder(c, s, log, n)
  BY <1>1, PostsOf
<1>3. s # <<>> /\ c2s' = [c2s EXCEPT ![c] = Tail(s)]
  BY DEF ReadHeader, ReadBody
<1>4. UNCHANGED <<cpc, lines>>
  BY DEF clientVars
<1>5. /\ Tail(s) \in Seq(Units) /\ PostsInOrder(c, Tail(s), log, n)
  BY <1>2, <1>3, PostsRead
<1>6. /\ c2s \in [Clients -> Seq(Units)] /\ c2s' \in [Clients -> Seq(Units)]
      /\ \A d \in Clients : c2s'[d] = IF d = c THEN Tail(s) ELSE c2s[d]
  <2>1. c2s \in [Clients -> Seq(Units)]
    BY DEF Posts
  <2> HIDE DEF c, s
  <2> QED
    BY <1>1, <1>3, <1>5, <2>1
<1>7. CASE ReadHeader
  <2>1. log' = log /\ ~ReadBody
    BY <1>7 DEF ReadHeader, ReadBody
  <2>2. ASSUME NEW d \in Clients
        PROVE  PostsInOrder(d, c2s'[d], log, Numbered(cpc[d], lines[d]))
    <3>1. CASE d = c
      BY <1>5, <1>6, <3>1
    <3>2. CASE d # c
      BY <1>6, <3>2, PostsOf
    <3> QED
      BY <3>1, <3>2
  <2> QED
    BY <1>4, <1>6, <2>1, <2>2 DEF Posts
<1>8. CASE ReadBody
  <2>1. log' = Append(log, b)
    BY <1>8 DEF ReadBody
  <2>2. Head(s).part = "data"
    <3>1. Framed(s, Awaited(c)) /\ s \in Seq(StreamUnits) /\ Awaited(c)
      BY <1>1, <1>8 DEF Framing, InStepWith, Awaited, ReadBody
    <3>2. Awaited(c) = TRUE
      BY <3>1 DEF Awaited
    <3> QED
      BY <1>3, <3>1, <3>2, TailFramed
  <2>3. /\ b = [from |-> c, no |-> b.no, enc |-> FALSE] /\ b \in Bodies
        /\ \A k \in 1..Len(log) : log[k].from = c => log[k].no < b.no
        /\ PostsInOrder(c, Tail(s), Append(log, b), n)
    <3>1. n \in Int
      BY <1>2
    <3>2. b = Xcrypt(Head(s).body)
      OBVIOUS
    <3> HIDE DEF n, s, c, b
    <3> QED
      BY <1>2, <1>3, <2>2, <3>1, <3>2, PostsTaken
  <2>4. ~b.enc /\ b.from = c
    BY <2>3
  <2> HIDE DEF b
  <2>5. /\ log' \in Seq(Bodies) /\ Len(log') = Len(log) + 1 /\ log'[Len(log) + 1] = b
        /\ Len(log) \in Nat /\ \A k \in 1..Len(log) : log'[k] = log[k]
    BY <1>2, <2>1, <2>3
  <2>6. \A k \in 1..Len(log') : ~log'[k].enc
    <3> SUFFICES ASSUME NEW k \in 1..Len(log') PROVE ~log'[k].enc
      OBVIOUS
    <3>1. CASE k \in 1..Len(log)
      BY <2>5, <3>1 DEF Posts
    <3>2. CASE k = Len(log) + 1
      BY <2>4, <2>5, <3>2
    <3> QED
      BY <2>5, <3>1, <3>2
  <2>7. ASSUME NEW d \in Clients
        PROVE  PostsInOrder(d, c2s'[d], log', Numbered(cpc[d], lines[d]))
    <3>1. CASE d = c
      BY <1>6, <2>1, <2>3, <3>1
    <3>2. CASE d # c
      <4>1. PostsInOrder(d, c2s[d], log, Numbered(cpc[d], lines[d]))
        BY PostsOf
      <4>2. PostsInOrder(d, c2s[d], Append(log, b), Numbered(cpc[d], lines[d]))
        BY <1>2, <2>3, <2>4, <3>2, <4>1, PostsOther
      <4> QED
        BY <1>6, <2>1, <3>2, <4>2
    <3> QED
      BY <3>1, <3>2
  <2>8. Posts'
    BY <1>4, <1>6, <2>5, <2>6, <2>7 DEF Posts
  <2> QED
    BY <2>3, <2>8 DEF b
<1> QED
  BY <1>7, <1>8

\* A client leaves its stream s, itself at to and has typed x lines.
LEMMA ClientPosts ==
  ASSUME Posts, NEW c \in Clients, UNCHANGED serverVars,
         NEW s \in Seq(Units), NEW to \in ClientPcs, NEW x \in 0..MaxLines,
         c2s' = [c2s EXCEPT ![c] = s], cpc' = [cpc EXCEPT ![c] = to],
         lines' = [lines EXCEPT ![c] = x],
         to \in {"line", "header", "payload"} => x >= 1,
         PostsInOrder(c, s, log, Numbered(to, x))
  PROVE  Posts'
<1>1. /\ c2s \in [Clients -> Seq(Units)] /\ lines \in [Clients -> 0..MaxLines]
      /\ cpc \in [Clients -> ClientPcs]
  BY DEF Posts
<1>2. /\ c2s' \in [Clients -> Seq(Units)] /\ lines' \in [Clients -> 0..MaxLines]
      /\ cpc' \in [Clients -> ClientPcs]
      /\ c2s'[c] = s /\ cpc'[c] = to /\ lines'[c] = x
      /\ \A d \in Clients : d # c => c2s'[d] = c2s[d] /\ cpc'[d] = cpc[d] /\ lines'[d] = lines[d]
  BY <1>1
<1>3. log' = log
  BY DEF serverVars
<1>4. ASSUME NEW d \in Clients
      PROVE  PostsInOrder(d, c2s'[d], log, Numbered(cpc'[d], lines'[d]))
  <2>1. CASE d = c
    BY <1>2, <2>1
  <2>2. CASE d # c
    BY <1>2, <2>2, PostsOf
  <2> QED
    BY <2>1, <2>2
<1>5. \A d \in Clients : cpc'[d] \in {"line", "header", "payload"} => lines'[d] >= 1
  BY <1>2 DEF Posts
<1> QED
  BY <1>2, <1>3, <1>4, <1>5 DEF Posts

\* Every step of a client.
LEMMA ClientStepPosts ==
  ASSUME Posts, NEW c \in Clients, ClientStep(c) \/ UserStep(c), UNCHANGED serverVars
  PROVE  Posts'
<1> DEFINE s == c2s[c]
           n == Numbered(cpc[c], lines[c])
<1>1. /\ s \in Seq(Units) /\ lines[c] \in Nat /\ lines[c] <= MaxLines /\ lines[c] \in 0..MaxLines
      /\ log \in Seq(Bodies) /\ n \in Nat /\ PostsInOrder(c, s, log, n)
      /\ c2s = [c2s EXCEPT ![c] = s] /\ lines = [lines EXCEPT ![c] = lines[c]]
      /\ cpc[c] \in {"line", "header", "payload"} => lines[c] >= 1
  BY PostsOf DEF Posts
\* The ones that leave stream and lines alone.
<1>2. CASE \/ Connect(c) \/ ConnectRefused(c) \/ PollEof(c) \/ Kill(c) \/ WriteFails(c)
           \/ ReceiveEof(c) \/ Receive(c) \/ Printed(c) \/ WriteLost(c) \/ EndLine(c)
  <2>1. PICK to \in ClientPcs :
          /\ cpc' = [cpc EXCEPT ![c] = to] /\ UNCHANGED <<c2s, lines>>
          /\ \/ to \in {"poll", "exit", "recv", "print"}
             \/ to = "payload" /\ cpc[c] = "header"
             \/ to = "header" /\ cpc[c] = "line"
    <3>1. CASE Connect(c) \/ ConnectRefused(c)
      BY <3>1 DEF Connect, ConnectRefused, ClientPcs, socketVars
    <3>2. CASE PollEof(c) \/ Kill(c) \/ WriteFails(c) \/ ReceiveEof(c)
      BY <3>2 DEF PollEof, Kill, WriteFails, ReceiveEof, Leave, ClientPcs
    <3>3. CASE Receive(c) \/ Printed(c) \/ EndLine(c)
      BY <3>3 DEF Receive, Printed, EndLine, ClientPcs, socketVars
    <3>4. CASE WriteLost(c)
      BY <3>4 DEF WriteLost, LineSent, ClientPcs, socketVars
    <3> QED
      BY <1>2, <3>1, <3>2, <3>3, <3>4
  <2>2. Numbered(to, lines[c]) \in Int /\ n <= Numbered(to, lines[c])
    BY <1>1, <2>1 DEF Numbered
  <2>3. PostsInOrder(c, s, log, Numbered(to, lines[c]))
    BY <1>1, <2>2, PostsLater
  <2> QED
    BY <1>1, <2>1, <2>3, ClientPosts
<1>3. CASE \E kind \in {"line", "empty"} : PollLine(c, kind)
  <2>1. PICK to \in {"line", "header"} :
          /\ cpc[c] = "poll" /\ cpc' = [cpc EXCEPT ![c] = to]
          /\ lines' = [lines EXCEPT ![c] = lines[c] + 1] /\ UNCHANGED c2s
          /\ Cardinality({l \in Clients \X (1..MaxLines) : l[2] <= lines[l[1]]}) < MaxLines
    BY <1>3 DEF PollLine, socketVars
  <2>2. lines[c] + 1 \in 0..MaxLines
    BY <2>1, TypedInBound DEF Posts
  <2>3. Numbered(to, lines[c] + 1) = n /\ to \in ClientPcs
    BY <1>1, <2>1 DEF Numbered, ClientPcs
  <2>4. lines[c] + 1 >= 1
    BY <1>1
  <2> QED
    BY <1>1, <2>1, <2>2, <2>3, <2>4, ClientPosts
<1>4. CASE WriteHeader(c)
  <2> DEFINE u == [part |-> "len", empty |-> typed[c] = "empty"]
  <2>1. u \in Units /\ u.part # "data"
    BY DEF Units
  <2>2. cpc[c] = "header" /\ c2s' = [c2s EXCEPT ![c] = Append(s, u)] /\ UNCHANGED lines
    BY <1>4 DEF WriteHeader, LineSent
  <2>3. PICK to \in {"recv", "poll", "payload"} : cpc' = [cpc EXCEPT ![c] = to]
    BY <1>4 DEF WriteHeader, LineSent
  <2> HIDE DEF u
  <2>4. Append(s, u) \in Seq(Units) /\ PostsInOrder(c, Append(s, u), log, n)
    BY <1>1, <2>1, PostsLength
  <2>5. /\ Numbered(to, lines[c]) \in Int /\ n <= Numbered(to, lines[c])
        /\ to \in ClientPcs /\ lines[c] >= 1
    BY <1>1, <2>2, <2>3 DEF Numbered, ClientPcs
  <2>6. PostsInOrder(c, Append(s, u), log, Numbered(to, lines[c]))
    <3> DEFINE t == Append(s, u)
               m == Numbered(to, lines[c])
    <3>1. t \in Seq(Units) /\ PostsInOrder(c, t, log, n)
      BY <2>4
    <3>2. n \in Int /\ m \in Int /\ n <= m /\ log \in Seq(Bodies)
      BY <1>1, <2>5
    <3> HIDE DEF t, n, m
    <3>3. PostsInOrder(c, t, log, m)
      BY <3>1, <3>2, PostsLater
    <3> QED
      BY <3>3 DEF t, m
  <2> QED
    BY <1>1, <2>2, <2>3, <2>4, <2>5, <2>6, ClientPosts
<1>5. CASE WritePayload(c)
  <2> DEFINE plain == [from |-> c, no |-> lines[c], enc |-> FALSE]
             u == [part |-> "data", body |-> Xcrypt(plain)]
  <2>1. cpc[c] = "payload" /\ c2s' = [c2s EXCEPT ![c] = Append(s, u)] /\ UNCHANGED lines
    BY <1>5 DEF WritePayload, LineSent
  <2>2. lines[c] \in 1..MaxLines /\ n = lines[c] - 1 /\ n < lines[c]
    BY <1>1, <2>1 DEF Numbered
  <2>3. plain \in Bodies
    BY <2>2 DEF Bodies
  <2>4. /\ Xcrypt(plain) \in Bodies /\ Xcrypt(plain).from = c /\ Xcrypt(plain).no = lines[c]
        /\ Xcrypt(plain).enc
    BY <2>3, XcryptTwice
  <2>5. /\ u \in Units /\ u.part = "data" /\ u.body.from = c /\ u.body.no = lines[c]
        /\ u.body.enc
    BY <2>4 DEF Units
  <2>6. PICK to \in {"recv", "poll"} : cpc' = [cpc EXCEPT ![c] = to]
    BY <1>5 DEF WritePayload, LineSent
  <2> HIDE DEF u
  <2>7. Append(s, u) \in Seq(Units) /\ PostsInOrder(c, Append(s, u), log, lines[c])
    BY <1>1, <2>2, <2>5, PostsPayload
  <2>8. /\ Numbered(to, lines[c]) = lines[c] /\ to \in ClientPcs
        /\ ~(to \in {"line", "header", "payload"})
    BY <1>1, <2>6 DEF Numbered, ClientPcs
  <2> QED
    BY <1>1, <2>1, <2>6, <2>7, <2>8, ClientPosts
<1> QED
  BY <1>2, <1>3, <1>4, <1>5 DEF ClientStep, UserStep

\* At first nothing has been typed.
LEMMA InitPosts == Init => Posts
<1> SUFFICES ASSUME Init PROVE Posts
  OBVIOUS
<1>1. <<>> \in Seq(Units) /\ <<>> \in Seq(Bodies) /\ Len(<<>>) = 0 /\ 0 \in 0..MaxLines
  BY MaxLinesAssumption
<1>2. /\ c2s = [c \in Clients |-> <<>>] /\ lines = [c \in Clients |-> 0]
      /\ cpc = [c \in Clients |-> "start"] /\ log = <<>>
  BY DEF Init, SocketsInit, ServerInit, ClientInit
<1>3. \A c \in Clients : PostsInOrder(c, c2s[c], log, Numbered(cpc[c], lines[c]))
  <2> SUFFICES ASSUME NEW c \in Clients
               PROVE  PostsInOrder(c, c2s[c], log, Numbered(cpc[c], lines[c]))
    OBVIOUS
  <2>1. c2s[c] = <<>> /\ log = <<>>
    BY <1>2
  <2>2. PostsInOrder(c, <<>>, <<>>, Numbered(cpc[c], lines[c]))
    BY <1>1 DEF PostsInOrder
  <2> QED
    BY <2>1, <2>2
<1> QED
  BY <1>1, <1>2, <1>3 DEF Posts, ClientPcs

\* Every step keeps the posts in order.
LEMMA PostsStep == IInv /\ Framing /\ Posts /\ [Next]_vars => Posts'
<1> SUFFICES ASSUME IInv, Framing, Posts, [Next]_vars PROVE Posts'
  OBVIOUS
<1>0. c2s \in [Clients -> Seq(Units)] /\ <<>> \in Seq(Units)
  BY DEF Posts
<1>1. CASE Server
  <2>0. ServerNext /\ UNCHANGED clientVars
    BY <1>1 DEF Server
  <2>1. CASE Poll \/ AcceptNewConnection \/ Writev \/ WritevGone \/ BroadcastDone
    <3>1. UNCHANGED <<c2s, log>>
      BY <2>1 DEF Poll, AcceptNewConnection, Writev, WritevGone, BroadcastDone, socketVars
    <3> QED
      BY <1>0, <2>0, <3>1, ServerPosts
  <2>2. CASE AcceptOverflow \/ WritevSigpipe
    <3>1. c2s' = [c \in Clients |-> <<>>] /\ UNCHANGED log
      BY <2>2 DEF AcceptOverflow, WritevSigpipe, Die, CloseAllServerEnds
    <3> QED
      BY <1>0, <2>0, <3>1, ServerPosts
  <2>3. CASE ReadEmptyLine \/ ReadEof
    <3>1. c2s' = [c2s EXCEPT ![pollfds[i].fd] = <<>>] /\ UNCHANGED log
      BY <2>3 DEF ReadEmptyLine, ReadEof, Disconnect, CloseServerEnd
    <3> QED
      BY <1>0, <2>0, <3>1, ServerPosts
  <2>4. CASE ReadHeader \/ ReadBody
    <3>1. i \in Connected
      BY <2>4, NumListenersAssumption DEF ReadHeader, ReadBody, IInv, VecTypes, Connected
    <3> QED
      BY <2>0, <2>4, <3>1, ReadPosts
  <2> QED
    BY <2>0, <2>1, <2>2, <2>3, <2>4 DEF ServerNext
<1>2. CASE \E c \in Clients : Client(c) \/ User(c)
  BY <1>2, ClientStepPosts DEF Client, User
<1>3. CASE UNCHANGED vars
  BY <1>3 DEF Posts, vars, socketVars, serverVars, clientVars
<1> QED
  BY <1>1, <1>2, <1>3 DEF Next

-----------------------------------------------------------------------------
(***************************************************************************)
(* What is delivered, to everybody the server has accepted.                *)
(***************************************************************************)
Live(c) == c \in InTable /\ conn[c] = "open" /\ listening

Deliveries ==
    /\ s2c \in [Clients -> Seq(Frames)]
    /\ shown \in [Clients -> Seq(Frames)]
    /\ conn \in [Clients -> EndStates]
    /\ joinAt \in [Clients -> Nat]
    /\ j \in Nat
    /\ spc = "bcast" => msg \in Frames /\ j > NumListeners /\ j # i
    /\ \A c \in Clients :
         Delivers(c, log, joinAt[c], number[c], shown[c], s2c[c],
                  Live(c), Pending(c), msg.body)

\* No two entries of the table are the same client.
LEMMA OnePlace ==
  ASSUME IInv, NEW p \in Connected, NEW q \in Connected, pollfds[p].fd = pollfds[q].fd
  PROVE  p = q
<1>1. /\ p \in Int /\ q \in Int
      /\ number[pollfds[p].fd] \in Nat /\ number[pollfds[q].fd] \in Nat
  BY DEF IInv, TableInv, VecTypes, Connected
<1>2. /\ p < q => number[pollfds[p].fd] < number[pollfds[q].fd]
      /\ q < p => number[pollfds[q].fd] < number[pollfds[p].fd]
  BY DEF IInv, TableInv
<1> QED
  BY <1>1, <1>2

\* Where the server is when it reads a payload or broadcasts, and who is there.
LEMMA Serving ==
  ASSUME IInv
  PROVE  /\ spc \in {"body", "bcast"} \/ (spc = "scan" /\ i > NumListeners) => i \in Connected
         /\ Len(pollfds) \in Nat /\ Len(pollfds) >= NumListeners /\ i \in Nat
         /\ NumListeners \in Nat \ {0}
         /\ Connected = NumListeners + 1 .. Len(pollfds)
         /\ Connected \subseteq 1..Len(pollfds)
         /\ \A p \in Connected : /\ pollfds[p].fd \in Clients
                                 /\ number[pollfds[p].fd] \in Nat \ {0}
         /\ \A c \in InTable : c \in Clients /\ number[c] \in Nat \ {0}
         /\ spc \in {"poll", "scan", "body", "bcast"} => listening
<1> USE NumListenersAssumption
<1>1. /\ Len(pollfds) \in Nat /\ Len(pollfds) >= NumListeners /\ i \in Nat
      /\ NumListeners \in Nat \ {0}
      /\ Connected = NumListeners + 1 .. Len(pollfds)
  BY DEF IInv, TableInv, VecTypes, Connected
<1>2. /\ spc \in {"body", "bcast"} \/ (spc = "scan" /\ i > NumListeners) => i \in Connected
      /\ Connected \subseteq 1..Len(pollfds)
  BY <1>1 DEF IInv, VecTypes
<1>3. \A p \in Connected : /\ pollfds[p].fd \in Clients
                           /\ number[pollfds[p].fd] \in Nat \ {0}
  BY DEF IInv, TableInv, VecTypes
<1>4. \A c \in InTable : c \in Clients /\ number[c] \in Nat \ {0}
  BY <1>3 DEF InTable
<1>5. spc \in {"poll", "scan", "body", "bcast"} => listening
  BY DEF IInv, VecTypes, ServerUp
<1> QED
  BY <1>1, <1>2, <1>3, <1>4, <1>5

\* The broadcast goes on to the next recipient.
LEMMA NextRecipient ==
  ASSUME IInv, Deliveries, spc = "bcast", spc' = "bcast", j <= Len(pollfds),
         j' = Recipient(j + 1), UNCHANGED <<pollfds, i>>
  PROVE  /\ j \in Connected
         /\ j' \in Nat /\ j' > NumListeners /\ j' # i'
         /\ Pending(pollfds[j].fd)
         /\ \A d \in Clients : Pending(d)' <=> Pending(d) /\ d # pollfds[j].fd
<1> DEFINE c == pollfds[j].fd
<1>1. /\ j \in Nat /\ i \in Nat /\ j > NumListeners /\ j # i
      /\ NumListeners \in Nat /\ Len(pollfds) \in Nat
      /\ Connected = NumListeners + 1 .. Len(pollfds)
  BY Serving DEF Deliveries
<1>2. j \in Connected
  BY <1>1
<1>3. /\ j' \in Nat /\ j' > j /\ j' # i
      /\ \A p \in Nat : p > j /\ p # i => p >= j'
  BY <1>1 DEF Recipient
<1>4. /\ \A d : Pending(d) <=> \E p \in j..Len(pollfds) : pollfds[p].fd = d /\ p # i
      /\ \A d : Pending(d)' <=> \E p \in j'..Len(pollfds) : pollfds[p].fd = d /\ p # i
  BY DEF Pending
<1>5. Pending(c)
  BY <1>1, <1>4
<1>6. \A p \in j'..Len(pollfds) : p \in Connected /\ p \in j..Len(pollfds) /\ p # j
  BY <1>1, <1>3
<1>7. ASSUME NEW d \in Clients, Pending(d)' PROVE Pending(d) /\ d # c
  <2>1. PICK p \in j'..Len(pollfds) : pollfds[p].fd = d /\ p # i
    BY <1>4, <1>7
  <2>2. p \in Connected /\ p \in j..Len(pollfds) /\ p # j
    BY <1>6
  <2>3. pollfds[p].fd # pollfds[j].fd
    BY <1>2, <2>2, OnePlace
  <2> QED
    BY <1>4, <2>1, <2>2, <2>3
<1>8. ASSUME NEW d \in Clients, Pending(d), d # c PROVE Pending(d)'
  <2>1. ASSUME NEW p \in j..Len(pollfds), pollfds[p].fd = d, p # i
        PROVE  p \in j'..Len(pollfds)
    <3>1. p # j
      BY <1>8, <2>1
    <3>2. p \in Nat /\ p > j
      BY <1>1, <3>1
    <3> QED
      BY <1>1, <1>3, <2>1, <3>2
  <2> QED
    BY <1>4, <1>8, <2>1
<1> QED
  BY <1>1, <1>2, <1>3, <1>5, <1>7, <1>8

\* Steps that deliver nothing and after which nobody more is there.
LEMMA DeliveriesFrame ==
  ASSUME Deliveries, UNCHANGED <<log, joinAt, number, shown, s2c>>,
         conn' \in [Clients -> EndStates], j' \in Nat,
         spc' = "bcast" => msg' \in Frames /\ j' > NumListeners /\ j' # i',
         \A c \in Clients : Live(c)' =>
           Live(c) /\ (Pending(c)' <=> Pending(c)) /\ (Pending(c) => msg' = msg)
  PROVE  Deliveries'
<1>1. ASSUME NEW c \in Clients
      PROVE  Delivers(c, log', joinAt'[c], number'[c], shown'[c], s2c'[c],
                      Live(c)', Pending(c)', msg'.body)
  <2>1. Delivers(c, log, joinAt[c], number[c], shown[c], s2c[c], Live(c), Pending(c), msg.body)
    BY DEF Deliveries
  <2> QED
    BY <2>1 DEF Delivers
<1> QED
  BY <1>1 DEF Deliveries

\* Removing an entry of the table makes nobody come back.
LEMMA TableShrinks ==
  ASSUME IInv, i \in Connected, Disconnect(pollfds[i].fd)
  PROVE  InTable' \subseteq InTable
<1>1. /\ pollfds \in Seq([fd : Fds, revents : BOOLEAN]) /\ i \in 1..Len(pollfds)
      /\ NumListeners \in Nat /\ Len(pollfds) \in Nat
  BY Serving DEF IInv, VecTypes
<1>2. pollfds' = RemoveAt(pollfds, i)
  BY <1>1 DEF Disconnect, VecDelete, TableIndex
<1>3. /\ Len(pollfds') = Len(pollfds) - 1
      /\ \A q \in 1..(Len(pollfds) - 1) :
           pollfds'[q] = IF q < i THEN pollfds[q] ELSE pollfds[q + 1]
  BY <1>1, <1>2, RemoveAtShifts
<1>4. ASSUME NEW p \in Connected' PROVE pollfds'[p].fd \in InTable
  <2>1. /\ p \in NumListeners + 1 .. Len(pollfds) - 1 /\ p \in 1..(Len(pollfds) - 1)
        /\ p \in Connected /\ p + 1 \in Connected
    BY <1>1, <1>3 DEF Connected
  <2> QED
    BY <1>3, <2>1 DEF InTable
<1> QED
  BY <1>4 DEF InTable

\* The table keeps its clients while its descriptors stay.
LEMMA SameTable ==
  ASSUME IInv, Len(pollfds') = Len(pollfds),
         \A p \in 1..Len(pollfds) : pollfds'[p].fd = pollfds[p].fd
  PROVE  InTable' = InTable
<1>1. Connected' = Connected /\ Connected \subseteq 1..Len(pollfds)
  BY Serving DEF Connected
<1> QED
  BY <1>1 DEF InTable

\* poll() only sets the revents.
LEMMA PollKeepsTable ==
  ASSUME IInv, Poll
  PROVE  InTable' = InTable
<1>1. Len(pollfds) \in Nat /\ DOMAIN pollfds = 1..Len(pollfds)
  BY DEF IInv, VecTypes
<1> DEFINE new == [p \in 1..Len(pollfds) |->
                    [fd |-> pollfds[p].fd, revents |-> ServerReadable(pollfds[p].fd)]]
<1>2. pollfds' = new
  BY <1>1 DEF Poll
<1>3. /\ new \in Seq([fd : {pollfds[p].fd : p \in 1..Len(pollfds)}, revents : BOOLEAN])
      /\ Len(new) = Len(pollfds)
  <2>1. \A d : ServerReadable(d) \in BOOLEAN
    BY DEF ServerReadable
  <2> QED
    BY <1>1, <2>1
<1>4. \A p \in 1..Len(pollfds) : new[p].fd = pollfds[p].fd
  OBVIOUS
<1> HIDE DEF new
<1> QED
  BY <1>2, <1>3, <1>4, SameTable

\* Accepting a connection takes nobody's place.
LEMMA AcceptKeepsTable ==
  ASSUME IInv, AcceptNewConnection
  PROVE  InTable \subseteq InTable'
<1> DEFINE e == [fd |-> Head(backlog[i]), revents |-> FALSE]
<1>1. /\ pollfds' = Append(pollfds, e) /\ Len(pollfds) \in Nat
      /\ NumListeners \in Nat /\ pollfds \in Seq([fd : Fds, revents : BOOLEAN])
  BY Serving DEF AcceptNewConnection, IInv, VecTypes
<1> HIDE DEF e
<1>2. Len(pollfds') = Len(pollfds) + 1 /\ \A p \in 1..Len(pollfds) : pollfds'[p] = pollfds[p]
  BY <1>1
<1>3. \A p \in Connected : p \in Connected' /\ p \in 1..Len(pollfds)
  BY <1>1, <1>2 DEF Connected
<1> QED
  BY <1>2, <1>3 DEF InTable

\* Whoever goes when an entry is removed is the client of that entry.
LEMMA OthersStay ==
  ASSUME IInv, i \in Connected, Disconnect(pollfds[i].fd),
         NEW c, c \in InTable, c \notin InTable'
  PROVE  c = pollfds[i].fd
<1>1. /\ pollfds \in Seq([fd : Fds, revents : BOOLEAN]) /\ i \in 1..Len(pollfds)
      /\ NumListeners \in Nat /\ Len(pollfds) \in Nat /\ i > NumListeners
  BY Serving DEF IInv, VecTypes, Connected
<1>2. pollfds' = RemoveAt(pollfds, i)
  BY <1>1 DEF Disconnect, VecDelete, TableIndex
<1>3. /\ Len(pollfds') = Len(pollfds) - 1
      /\ \A q \in 1..(Len(pollfds) - 1) :
           pollfds'[q] = IF q < i THEN pollfds[q] ELSE pollfds[q + 1]
  BY <1>1, <1>2, RemoveAtShifts
<1>4. PICK p \in Connected : pollfds[p].fd = c
  BY DEF InTable
<1>5. p \in Nat /\ p > NumListeners /\ p <= Len(pollfds)
  BY <1>1 DEF Connected
<1>6. CASE p < i
  <2>1. p \in Connected' /\ pollfds'[p] = pollfds[p]
    BY <1>1, <1>3, <1>5, <1>6 DEF Connected
  <2> QED
    BY <1>4, <2>1 DEF InTable
<1>7. CASE p > i
  <2>1. p - 1 \in 1..(Len(pollfds) - 1) /\ ~(p - 1 < i) /\ (p - 1) + 1 = p
        /\ p - 1 \in NumListeners + 1 .. Len(pollfds) - 1
    BY <1>1, <1>5, <1>7
  <2>2. p - 1 \in Connected' /\ pollfds'[p - 1] = pollfds[p]
    BY <1>3, <2>1 DEF Connected
  <2> QED
    BY <1>4, <2>2 DEF InTable
<1> QED
  BY <1>1, <1>4, <1>5, <1>6, <1>7

-----------------------------------------------------------------------------
\* What Delivers says of one client.
LEMMA DeliveriesOf ==
  ASSUME Deliveries, NEW c \in Clients
  PROVE  /\ s2c[c] \in Seq(Frames) /\ shown[c] \in Seq(Frames)
         /\ Delivers(c, log, joinAt[c], number[c], shown[c], s2c[c],
                     Live(c), Pending(c), msg.body)
BY DEF Deliveries

\* The server takes a payload into the log.
LEMMA ReadBodyDelivers ==
  ASSUME IInv, Framing, Posts, Deliveries, ReadBody, UNCHANGED clientVars
  PROVE  Deliveries'
<1> DEFINE c == pollfds[i].fd
           b == Xcrypt(Head(c2s[c]).body)
<1>1. spc = "body" /\ i \in Connected /\ c \in Clients
  BY Serving DEF ReadBody
<1>2. b \in Bodies /\ b.from = c
  <2>1. b \in Bodies /\ b = [from |-> c, no |-> b.no, enc |-> FALSE]
    BY <1>1, ReadPosts
  <2> HIDE DEF b
  <2> QED
    BY <2>1
<1>3. /\ log' = Append(log, b) /\ msg' = [id |-> Label, body |-> b] /\ spc' = "bcast"
      /\ j' = Recipient(NumListeners + 1)
      /\ UNCHANGED <<pollfds, i, joinAt, number, s2c, shown, conn, listening>>
  BY DEF ReadBody, FirstRecipient, clientVars
<1> HIDE DEF b
<1>4. log \in Seq(Bodies)
  BY DEF Posts
<1>5. /\ j' \in Nat /\ j' > NumListeners /\ j' # i'
      /\ \A p \in Connected : p # i => p \in j'..Len(pollfds)
  <2>1. i \in Nat /\ NumListeners \in Nat /\ i > NumListeners
        /\ Connected = NumListeners + 1 .. Len(pollfds) /\ Len(pollfds) \in Nat
    BY <1>1, Serving
  <2> QED
    BY <1>3, <2>1 DEF Recipient
<1>6. msg'.body = b /\ msg' \in Frames
  <2>1. i - NumListeners \in 1..Len(client_ids) /\ client_ids \in Seq(Nat)
    BY <1>1, Serving DEF IInv, IdsInv, VecTypes
  <2>2. Label \in Nat
    BY <2>1, ElementOfSeq DEF Label
  <2> QED
    BY <1>2, <1>3, <2>2 DEF Frames
<1>7. Connected' = Connected /\ InTable' = InTable
  BY <1>3 DEF Connected, InTable
<1>8. ASSUME NEW d \in Clients
      PROVE  /\ ~Pending(d) /\ (Live(d)' <=> Live(d))
             /\ Live(d) => (Pending(d)' <=> d # c)
  <2>1. ~Pending(d) /\ (Live(d)' <=> Live(d))
    BY <1>1, <1>3, <1>7 DEF Pending, Live
  <2>2. Pending(d)' <=> \E p \in j'..Len(pollfds) : pollfds[p].fd = d /\ p # i
    BY <1>3 DEF Pending
  <2>3. ASSUME d = c PROVE ~Pending(d)'
    <3>1. \A p \in j'..Len(pollfds) : p \in Connected
      BY <1>5, Serving
    <3> QED
      BY <1>1, <2>2, <2>3, <3>1, OnePlace
  <2>4. ASSUME Live(d), d # c PROVE Pending(d)'
    <3>1. PICK p \in Connected : pollfds[p].fd = d
      BY <2>4 DEF Live, InTable
    <3>2. p # i
      BY <2>4, <3>1
    <3> QED
      BY <1>5, <2>2, <3>1, <3>2
  <2> QED
    BY <2>1, <2>3, <2>4
<1>9. ASSUME NEW d \in Clients
      PROVE  Delivers(d, log', joinAt'[d], number'[d], shown'[d], s2c'[d],
                      Live(d)', Pending(d)', msg'.body)
  <2>1. /\ s2c[d] \in Seq(Frames) /\ shown[d] \in Seq(Frames)
        /\ Delivers(d, log, joinAt[d], number[d], shown[d], s2c[d],
                    Live(d), Pending(d), msg.body)
    BY DeliveriesOf
  <2>2. Delivers(d, log, joinAt[d], number[d], shown[d], s2c[d], Live(d), FALSE, msg.body)
    BY <1>8, <2>1 DEF Delivers
  <2>3. Delivers(d, Append(log, b), joinAt[d], number[d], shown[d], s2c[d],
                 Live(d), b.from # d, b)
    BY <1>2, <1>4, <2>1, <2>2, DeliversPosted
  <2>4. Live(d)' => Live(d) /\ (Pending(d)' <=> b.from # d)
    BY <1>2, <1>8
  <2> QED
    BY <1>3, <1>6, <2>3, <2>4 DEF Delivers
<1> QED
  BY <1>3, <1>5, <1>6, <1>9 DEF Deliveries

\* The server writes the line to a client that is there.
LEMMA WritevDelivers ==
  ASSUME IInv, Posts, Deliveries, Writev, UNCHANGED clientVars
  PROVE  Deliveries'
<1> DEFINE c == pollfds[j].fd
           f == [id |-> msg.id, body |-> Xcrypt(msg.body)]
<1>1. /\ spc = "bcast" /\ spc' = "bcast" /\ j <= Len(pollfds) /\ j' = Recipient(j + 1)
      /\ conn[c] = "open" /\ s2c' = [s2c EXCEPT ![c] = Append(@, f)]
      /\ UNCHANGED <<pollfds, i, log, msg, joinAt, number, shown, conn, listening>>
  BY DEF Writev, clientVars
<1>2. /\ j \in Connected
      /\ j' \in Nat /\ j' > NumListeners /\ j' # i'
      /\ Pending(c)
      /\ \A d \in Clients : Pending(d)' <=> Pending(d) /\ d # c
  BY <1>1, NextRecipient
<1>3. c \in Clients /\ number[c] # 0 /\ listening
  BY <1>1, <1>2, Serving
<1>4. InTable' = InTable /\ c \in InTable
  BY <1>1, <1>2 DEF InTable, Connected
<1>5. Live(c) /\ \A d \in Clients : Live(d)' <=> Live(d)
  BY <1>1, <1>3, <1>4 DEF Live
<1>6. /\ s2c \in [Clients -> Seq(Frames)] /\ msg \in Frames
      /\ msg.id \in Nat /\ msg.body \in Bodies /\ log \in Seq(Bodies)
  BY <1>1 DEF Deliveries, Posts, Frames
<1>7. /\ s2c[c] \in Seq(Frames) /\ shown[c] \in Seq(Frames)
      /\ Delivers(c, log, joinAt[c], number[c], shown[c], s2c[c], TRUE, TRUE, msg.body)
  <2>1. /\ s2c[c] \in Seq(Frames) /\ shown[c] \in Seq(Frames)
        /\ Delivers(c, log, joinAt[c], number[c], shown[c], s2c[c], Live(c), Pending(c), msg.body)
    BY <1>3, DeliveriesOf
  <2> QED
    BY <1>2, <1>5, <2>1 DEF Delivers
<1>8. /\ Append(s2c[c], f) \in Seq(Frames)
      /\ Delivers(c, log, joinAt[c], number[c], shown[c], Append(s2c[c], f), TRUE, FALSE, msg.body)
  BY <1>3, <1>6, <1>7, DeliversWritten
<1>9. /\ s2c' \in [Clients -> Seq(Frames)]
      /\ \A d \in Clients : s2c'[d] = IF d = c THEN Append(s2c[c], f) ELSE s2c[d]
  <2> HIDE DEF c, f
  <2> QED
    BY <1>1, <1>3, <1>6, <1>8
<1>10. ASSUME NEW d \in Clients
       PROVE  Delivers(d, log', joinAt'[d], number'[d], shown'[d], s2c'[d],
                       Live(d)', Pending(d)', msg'.body)
  <2>1. CASE d = c
    <3>1. s2c'[d] = Append(s2c[c], f) /\ ~Pending(d)'
      BY <1>2, <1>9, <2>1
    <3> HIDE DEF f
    <3> QED
      BY <1>1, <1>8, <2>1, <3>1 DEF Delivers
  <2>2. CASE d # c
    <3>1. s2c'[d] = s2c[d] /\ (Pending(d)' <=> Pending(d)) /\ (Live(d)' <=> Live(d))
      BY <1>2, <1>5, <1>9, <2>2
    <3>2. Delivers(d, log, joinAt[d], number[d], shown[d], s2c[d], Live(d), Pending(d), msg.body)
      BY DeliveriesOf
    <3> QED
      BY <1>1, <3>1, <3>2 DEF Delivers
  <2> QED
    BY <2>1, <2>2
<1> QED
  BY <1>1, <1>2, <1>6, <1>9, <1>10 DEF Deliveries

\* A connection is accepted: its client is there from this place of the log on.
LEMMA AcceptDelivers ==
  ASSUME IInv, Posts, Deliveries, AcceptNewConnection, UNCHANGED clientVars
  PROVE  Deliveries'
<1> DEFINE c == backlog[i][1]
           n == Len(pollfds)
<1>1. /\ i \in Listeners /\ backlog[i] \in Seq(Clients) /\ backlog[i] # <<>>
      /\ Len(backlog[i]) > 0 /\ c \in Clients
      /\ Head(backlog[i]) = c
  BY SMTT(60) DEF AcceptNewConnection, IInv, VecTypes, Listeners
<1>2. number[c] = 0
  BY <1>1 DEF IInv, BacklogInv
<1>3. /\ spc = "scan" /\ pollfds' = Append(pollfds, [fd |-> c, revents |-> FALSE])
      /\ number' = [number EXCEPT ![c] = client_count + 1]
      /\ joinAt' = [joinAt EXCEPT ![c] = Len(log)]
      /\ UNCHANGED <<listening, log, s2c, shown, conn, j>>
  BY <1>1 DEF AcceptNewConnection, clientVars
<1>4. spc' # "bcast"
  <2>1. Resume(pollfds', i + 1)
    BY DEF AcceptNewConnection
  <2> QED
    BY <2>1 DEF Resume
<1>5. /\ number \in [Clients -> Nat] /\ joinAt \in [Clients -> Nat]
      /\ pollfds \in Seq([fd : Fds, revents : BOOLEAN]) /\ log \in Seq(Bodies)
      /\ Len(log) \in Nat /\ client_count \in Nat
  BY LenProperties DEF IInv, VecTypes, Deliveries, Posts
<1>6. /\ joinAt' \in [Clients -> Nat] /\ joinAt'[c] = Len(log)
      /\ \A d \in Clients : d # c => joinAt'[d] = joinAt[d] /\ number'[d] = number[d]
  BY <1>1, <1>3, <1>5
<1>7. /\ Len(pollfds') = n + 1 /\ pollfds'[n + 1].fd = c
      /\ \A q \in 1..n : pollfds'[q] = pollfds[q]
  BY <1>1, <1>3, <1>5, SMTT(60) DEF Fds
<1>8. ASSUME NEW d \in Clients, d # c, d \in InTable' PROVE d \in InTable
  <2>1. PICK p \in Connected' : pollfds'[p].fd = d
    BY <1>8 DEF InTable
  <2>2. p \in NumListeners + 1 .. n + 1 /\ n \in Nat /\ NumListeners \in Nat
    BY <1>7, Serving DEF Connected
  <2>3. p # n + 1
    BY <1>7, <1>8, <2>1
  <2>4. p \in Connected /\ p \in 1..n
    BY <2>2, <2>3 DEF Connected
  <2> QED
    BY <1>7, <2>1, <2>4 DEF InTable
<1>9. \A d \in Clients : ~Pending(d) /\ ~Pending(d)'
  BY <1>3, <1>4 DEF Pending
<1>10. ASSUME NEW d \in Clients
       PROVE  Delivers(d, log', joinAt'[d], number'[d], shown'[d], s2c'[d],
                       Live(d)', Pending(d)', msg'.body)
  <2>1. /\ s2c[d] \in Seq(Frames) /\ shown[d] \in Seq(Frames)
        /\ Delivers(d, log, joinAt[d], number[d], shown[d], s2c[d],
                    Live(d), Pending(d), msg.body)
    BY DeliveriesOf
  <2>2. CASE d = c
    <3>1. shown[d] = <<>> /\ s2c[d] = <<>>
      BY <1>2, <2>1, <2>2 DEF Delivers
    <3>2. Delivers(d, log, Len(log), number'[d], <<>>, <<>>, Live(d)', FALSE, msg'.body)
      BY <1>5, DeliversFromNowOn
    <3>3. Pending(d)' = FALSE
      BY <1>9 DEF Pending
    <3> QED
      BY <1>3, <1>6, <2>2, <3>1, <3>2, <3>3
  <2>3. CASE d # c
    <3>1. Live(d)' => Live(d)
      BY <1>3, <1>8, <2>3 DEF Live
    <3> QED
      BY <1>3, <1>6, <1>9, <2>1, <2>3, <3>1 DEF Delivers
  <2> QED
    BY <2>2, <2>3
<1> QED
  BY <1>3, <1>4, <1>6, <1>10 DEF Deliveries

\* Every step of the server.
LEMMA ServerDelivers ==
  ASSUME IInv, Framing, Posts, Deliveries, ServerNext, UNCHANGED clientVars
  PROVE  Deliveries'
<1>0. /\ shown' = shown /\ j \in Nat /\ conn \in [Clients -> EndStates] /\ 0 \in Nat
  BY DEF Deliveries, clientVars
<1>1. CASE Poll
  <2>1. /\ UNCHANGED <<log, joinAt, number, s2c, conn, listening, j>>
        /\ spc = "poll" /\ spc' # "bcast"
    BY <1>1 DEF Poll, Resume, socketVars
  <2>3. InTable' = InTable
    BY <1>1, PollKeepsTable
  <2>4. \A c \in Clients : (Live(c)' <=> Live(c)) /\ ~Pending(c) /\ ~Pending(c)'
    BY <2>1, <2>3 DEF Live, Pending
  <2> QED
    BY <1>0, <2>1, <2>4, DeliveriesFrame
<1>2. CASE AcceptNewConnection
  BY <1>2, AcceptDelivers
<1>3. CASE AcceptOverflow \/ WritevSigpipe
  <2>1. /\ UNCHANGED <<log, joinAt, number, s2c, conn>>
        /\ spc' # "bcast" /\ listening' = FALSE /\ j' = 0
    BY <1>3 DEF AcceptOverflow, WritevSigpipe, Die, CloseAllServerEnds
  <2>2. \A c \in Clients : ~Live(c)'
    BY <2>1 DEF Live
  <2> QED
    BY <1>0, <2>1, <2>2, DeliveriesFrame
<1>4. CASE ReadHeader
  <2>1. /\ UNCHANGED <<log, joinAt, number, s2c, conn, listening, j, pollfds>>
        /\ spc = "scan" /\ spc' = "body"
    BY <1>4 DEF ReadHeader
  <2>2. InTable' = InTable
    BY <2>1 DEF InTable, Connected
  <2>3. \A c \in Clients : (Live(c)' <=> Live(c)) /\ ~Pending(c) /\ ~Pending(c)'
    BY <2>1, <2>2 DEF Live, Pending
  <2> QED
    BY <1>0, <2>1, <2>3, DeliveriesFrame
<1>5. CASE ReadEmptyLine \/ ReadEof
  <2>1. /\ spc \in {"scan", "body"} /\ i \in Connected
        /\ Disconnect(pollfds[i].fd)
    BY <1>5, Serving DEF ReadEmptyLine, ReadEof
  <2>2. /\ UNCHANGED <<log, joinAt, number, s2c, conn, listening, j>>
        /\ spc' # "bcast"
    BY <2>1 DEF Disconnect, Resume
  <2>3. InTable' \subseteq InTable
    BY <2>1, TableShrinks
  <2>4. \A c \in Clients : (Live(c)' => Live(c)) /\ ~Pending(c) /\ ~Pending(c)'
    BY <2>1, <2>2, <2>3 DEF Live, Pending
  <2> QED
    BY <1>0, <2>2, <2>4, DeliveriesFrame
<1>6. CASE ReadBody
  BY <1>6, ReadBodyDelivers
<1>7. CASE Writev
  BY <1>7, WritevDelivers
<1>8. CASE WritevGone
  <2>1. /\ spc = "bcast" /\ spc' = "bcast" /\ j <= Len(pollfds) /\ j' = Recipient(j + 1)
        /\ conn[pollfds[j].fd] = "closed"
        /\ UNCHANGED <<pollfds, i, log, msg, joinAt, number, conn, listening, s2c>>
    BY <1>8 DEF WritevGone
  <2>2. /\ j' \in Nat /\ j' > NumListeners /\ j' # i'
        /\ \A d \in Clients : Pending(d)' <=> Pending(d) /\ d # pollfds[j].fd
    BY <2>1, NextRecipient
  <2>3. InTable' = InTable /\ msg \in Frames
    BY <2>1 DEF InTable, Connected, Deliveries
  <2>4. \A d \in Clients : Live(d)' => Live(d) /\ (Pending(d)' <=> Pending(d))
    BY <2>1, <2>2, <2>3 DEF Live
  <2> QED
    BY <1>0, <2>1, <2>2, <2>3, <2>4, DeliveriesFrame
<1>9. CASE BroadcastDone
  <2>1. /\ UNCHANGED <<log, joinAt, number, s2c, conn, listening, pollfds>>
        /\ spc' # "bcast" /\ j > Len(pollfds) /\ j' = 0
    BY <1>9 DEF BroadcastDone, BroadcastOver, Resume, socketVars
  <2>2. \A c \in Clients : ~Pending(c) /\ ~Pending(c)'
    <3>1. j..Len(pollfds) = {}
      BY <1>0, <2>1, Serving
    <3> QED
      BY <2>1, <3>1 DEF Pending
  <2>3. InTable' = InTable
    BY <2>1 DEF InTable, Connected
  <2>4. \A c \in Clients : Live(c)' <=> Live(c)
    BY <2>1, <2>3 DEF Live
  <2> QED
    BY <1>0, <2>1, <2>2, <2>4, DeliveriesFrame
<1> QED
  BY <1>1, <1>2, <1>3, <1>4, <1>5, <1>6, <1>7, <1>8, <1>9 DEF ServerNext

\* A client shows the next line it is owed.
LEMMA ReceiveDelivers ==
  ASSUME IInv, Posts, Deliveries, NEW c \in Clients, Receive(c), UNCHANGED serverVars
  PROVE  /\ Deliveries'
         /\ number[c] # 0 /\ Len(shown[c]) < Len(Owed(c))
         /\ \E f \in Frames :
              shown' = [shown EXCEPT ![c] = Append(@, f)] /\ f.body = Owed(c)[Len(shown[c]) + 1]
<1> DEFINE q == s2c[c]
           f == [id |-> Head(q).id, body |-> Xcrypt(Head(q).body)]
           sh == Append(shown[c], f)
<1>1. /\ q # <<>> /\ s2c' = [s2c EXCEPT ![c] = Tail(q)] /\ shown' = [shown EXCEPT ![c] = sh]
      /\ UNCHANGED <<listening, conn, spc, pollfds, i, j, msg, log, joinAt, number>>
  BY DEF Receive, serverVars
<1>2. /\ q \in Seq(Frames) /\ shown[c] \in Seq(Frames) /\ log \in Seq(Bodies)
      /\ Delivers(c, log, joinAt[c], number[c], shown[c], q, Live(c), Pending(c), msg.body)
  BY DeliveriesOf DEF Posts
<1>3. /\ sh \in Seq(Frames) /\ Tail(q) \in Seq(Frames)
      /\ Delivers(c, log, joinAt[c], number[c], sh, Tail(q), Live(c), Pending(c), msg.body)
      /\ number[c] # 0 /\ Len(shown[c]) < Len(OwedOf(log, joinAt[c], c))
      /\ OwedOf(log, joinAt[c], c)[Len(shown[c]) + 1] = f.body
  <2> DEFINE old == shown[c]
             there == Live(c)
             waits == Pending(c)
             b == msg.body
             a == joinAt[c]
             n == number[c]
  <2>1. /\ q \in Seq(Frames) /\ q # <<>> /\ old \in Seq(Frames) /\ log \in Seq(Bodies)
        /\ Delivers(c, log, a, n, old, q, there, waits, b)
    BY <1>1, <1>2
  <2>0. f = [id |-> Head(q).id, body |-> Xcrypt(Head(q).body)]
    OBVIOUS
  <2> HIDE DEF f, q, old, there, waits, b, a, n
  <2>2. /\ Append(old, f) \in Seq(Frames) /\ Tail(q) \in Seq(Frames)
        /\ Delivers(c, log, a, n, Append(old, f), Tail(q), there, waits, b)
    BY <2>0, <2>1, DeliversShown
  <2>3. /\ n # 0 /\ Len(old) < Len(OwedOf(log, a, c))
        /\ OwedOf(log, a, c)[Len(old) + 1] = Xcrypt(Head(q).body)
    BY <2>1, DeliversNext
  <2>4. f.body = Xcrypt(Head(q).body)
    BY <2>0
  <2> QED
    BY <2>2, <2>3, <2>4 DEF old, there, waits, b, a, n
<1>4. Owed(c) = OwedOf(log, joinAt[c], c)
  BY DEF Owed, Room!Owed, OwedOf
<1>5. f \in Frames
  <2>1. Len(sh) = Len(shown[c]) + 1 /\ sh[Len(shown[c]) + 1] = f /\ Len(shown[c]) \in Nat
    <3> HIDE DEF f
    <3> QED
      BY <1>2
  <2>2. Len(shown[c]) + 1 \in 1..Len(sh)
    BY <2>1
  <2> HIDE DEF sh
  <2> QED
    BY <1>3, <2>1, <2>2, ElementOfSeq
<1>6. s2c \in [Clients -> Seq(Frames)] /\ shown \in [Clients -> Seq(Frames)]
  BY DEF Deliveries
<1> HIDE DEF f, sh, q
<1>7. /\ s2c' \in [Clients -> Seq(Frames)] /\ shown' \in [Clients -> Seq(Frames)]
      /\ s2c'[c] = Tail(q) /\ shown'[c] = sh
      /\ \A d \in Clients : d # c => s2c'[d] = s2c[d] /\ shown'[d] = shown[d]
  BY <1>1, <1>3, <1>6
<1>8. \A d \in Clients : (Live(d)' <=> Live(d)) /\ (Pending(d)' <=> Pending(d))
  BY <1>1 DEF Live, Pending, InTable, Connected
<1>9. ASSUME NEW d \in Clients
      PROVE  Delivers(d, log', joinAt'[d], number'[d], shown'[d], s2c'[d],
                      Live(d)', Pending(d)', msg'.body)
  <2>1. CASE d = c
    BY <1>1, <1>3, <1>7, <1>8, <2>1 DEF Delivers
  <2>2. CASE d # c
    <3>1. Delivers(d, log, joinAt[d], number[d], shown[d], s2c[d], Live(d), Pending(d), msg.body)
      BY DeliveriesOf
    <3> QED
      BY <1>1, <1>7, <1>8, <2>2, <3>1 DEF Delivers
  <2> QED
    BY <2>1, <2>2
<1>10. Deliveries'
  BY <1>1, <1>7, <1>9 DEF Deliveries
<1>11. shown' = [shown EXCEPT ![c] = Append(@, f)]
  BY <1>1 DEF sh
<1> QED
  BY <1>3, <1>4, <1>5, <1>10, <1>11

\* A client goes: what was on its way to it is lost.
LEMMA LeaveDelivers ==
  ASSUME IInv, Deliveries, NEW c \in Clients, Leave(c), UNCHANGED <<serverVars, listening, shown>>
  PROVE  Deliveries'
<1>1. /\ conn' = [conn EXCEPT ![c] = "closed"] /\ s2c' = [s2c EXCEPT ![c] = <<>>]
      /\ UNCHANGED <<spc, pollfds, i, j, msg, log, joinAt, number>>
  BY DEF Leave, CloseClientEnd, serverVars
<1>2. /\ s2c \in [Clients -> Seq(Frames)] /\ conn \in [Clients -> EndStates]
      /\ <<>> \in Seq(Frames) /\ "closed" \in EndStates
  BY DEF Deliveries, EndStates
<1>3. /\ s2c' \in [Clients -> Seq(Frames)] /\ conn' \in [Clients -> EndStates]
      /\ s2c'[c] = <<>> /\ conn'[c] = "closed"
      /\ \A d \in Clients : d # c => s2c'[d] = s2c[d] /\ conn'[d] = conn[d]
  BY <1>1, <1>2
<1>4. \A d \in Clients : (Pending(d)' <=> Pending(d)) /\ (d # c => (Live(d)' <=> Live(d)))
  BY <1>1, <1>3 DEF Live, Pending, InTable, Connected
<1>5. ~Live(c)'
  BY <1>3 DEF Live
<1>6. ASSUME NEW d \in Clients
      PROVE  Delivers(d, log', joinAt'[d], number'[d], shown'[d], s2c'[d],
                      Live(d)', Pending(d)', msg'.body)
  <2>1. /\ s2c[d] \in Seq(Frames) /\ shown[d] \in Seq(Frames)
        /\ Delivers(d, log, joinAt[d], number[d], shown[d], s2c[d], Live(d), Pending(d), msg.body)
    BY DeliveriesOf
  <2>2. CASE d = c
    <3>1. Delivers(d, log, joinAt[d], number[d], shown[d], <<>>, FALSE, Pending(d), msg.body)
      BY <2>1, DeliversNoMore
    <3> QED
      BY <1>1, <1>3, <1>5, <2>2, <3>1 DEF Delivers
  <2>3. CASE d # c
    BY <1>1, <1>3, <1>4, <2>1, <2>3 DEF Delivers
  <2> QED
    BY <2>2, <2>3
<1> QED
  BY <1>1, <1>3, <1>6 DEF Deliveries

\* Every step of a client.
LEMMA ClientDelivers ==
  ASSUME IInv, Posts, Deliveries, NEW c \in Clients,
         ClientStep(c) \/ UserStep(c), UNCHANGED serverVars
  PROVE  Deliveries'
<1>1. CASE Receive(c)
  BY <1>1, ReceiveDelivers
<1>2. CASE WriteFails(c) \/ ReceiveEof(c) \/ PollEof(c) \/ Kill(c)
  BY <1>2, LeaveDelivers DEF WriteFails, ReceiveEof, PollEof, Kill
<1>3. CASE \/ WriteHeader(c) \/ WritePayload(c) \/ WriteLost(c) \/ ConnectRefused(c)
           \/ (\E kind \in {"line", "empty"} : PollLine(c, kind)) \/ EndLine(c) \/ Printed(c)
  <2>1. UNCHANGED <<listening, conn, s2c, shown>>
    BY <1>3 DEF WriteHeader, WritePayload, WriteLost, LineSent, ConnectRefused, PollLine, EndLine,
                Printed, socketVars
  <2>2. UNCHANGED <<spc, pollfds, i, j, msg, log, joinAt, number>>
    BY DEF serverVars
  <2>3. \A d \in Clients : (Live(d)' <=> Live(d)) /\ (Pending(d)' <=> Pending(d))
    BY <2>1, <2>2 DEF Live, Pending, InTable, Connected
  <2>4. conn' \in [Clients -> EndStates] /\ j' \in Nat
        /\ (spc' = "bcast" => msg' \in Frames /\ j' > NumListeners /\ j' # i')
    BY <2>1, <2>2 DEF Deliveries
  <2> QED
    BY <2>1, <2>2, <2>3, <2>4, DeliveriesFrame
<1>4. CASE Connect(c)
  <2>1. /\ cpc[c] = "start" /\ conn' = [conn EXCEPT ![c] = "open"]
        /\ UNCHANGED <<listening, s2c, shown>>
    BY <1>4 DEF Connect
  <2>2. UNCHANGED <<spc, pollfds, i, j, msg, log, joinAt, number>>
    BY DEF serverVars
  <2>3. c \notin InTable
    <3>1. number[c] = 0
      BY <2>1 DEF IInv, BacklogInv
    <3> QED
      BY <3>1, Serving
  <2>4. conn \in [Clients -> EndStates]
    BY DEF Deliveries
  <2>5. conn' \in [Clients -> EndStates] /\ \A d \in Clients : d # c => conn'[d] = conn[d]
    BY <2>1, <2>4 DEF EndStates
  <2>6. InTable' = InTable /\ \A d \in Clients : Pending(d)' <=> Pending(d)
    BY <2>2 DEF Pending, InTable, Connected
  <2>7. \A d \in Clients : Live(d)' => Live(d)
    BY <2>1, <2>3, <2>5, <2>6 DEF Live
  <2>8. j' \in Nat /\ (spc' = "bcast" => msg' \in Frames /\ j' > NumListeners /\ j' # i')
    BY <2>2 DEF Deliveries
  <2> QED
    BY <2>1, <2>2, <2>5, <2>6, <2>7, <2>8, DeliveriesFrame
<1> QED
  BY <1>1, <1>2, <1>3, <1>4 DEF ClientStep, UserStep

\* At first nobody is owed anything.
LEMMA InitDeliveries == Init => Deliveries
<1> SUFFICES ASSUME Init PROVE Deliveries
  OBVIOUS
<1>1. <<>> \in Seq(Frames) /\ <<>> \in Seq(Bodies) /\ Len(<<>>) = 0
  OBVIOUS
<1>2. /\ s2c = [c \in Clients |-> <<>>] /\ shown = [c \in Clients |-> <<>>]
      /\ conn = [c \in Clients |-> "none"] /\ joinAt = [c \in Clients |-> 0]
      /\ number = [c \in Clients |-> 0] /\ log = <<>> /\ spc = "poll" /\ j = 0
  BY DEF Init, SocketsInit, ServerInit, ClientInit
<1>3. ASSUME NEW c \in Clients
      PROVE  Delivers(c, log, joinAt[c], number[c], shown[c], s2c[c], Live(c), Pending(c), msg.body)
  <2> DEFINE e == <<>>
  <2>1. e \in Seq(Bodies) /\ Len(e) = 0
    BY <1>1
  <2>2. ~Pending(c)
    BY <1>2 DEF Pending
  <2> HIDE DEF e
  <2>3. Delivers(c, e, Len(e), 0, <<>>, <<>>, Live(c), FALSE, msg.body)
    BY <2>1, DeliversFromNowOn
  <2>4. /\ log = e /\ joinAt[c] = Len(e) /\ number[c] = 0
        /\ shown[c] = <<>> /\ s2c[c] = <<>>
    BY <1>1, <1>2 DEF e
  <2> QED
    BY <2>2, <2>3, <2>4 DEF Delivers
<1> QED
  BY <1>1, <1>2, <1>3 DEF Deliveries, EndStates

\* Every step keeps the deliveries complete.
LEMMA DeliveriesStep == IInv /\ Framing /\ Posts /\ Deliveries /\ [Next]_vars => Deliveries'
<1> SUFFICES ASSUME IInv, Framing, Posts, Deliveries, [Next]_vars PROVE Deliveries'
  OBVIOUS
<1>1. CASE Server
  BY <1>1, ServerDelivers DEF Server
<1>2. CASE \E c \in Clients : Client(c) \/ User(c)
  BY <1>2, ClientDelivers DEF Client, User
<1>3. CASE UNCHANGED vars
  <2>1. UNCHANGED <<log, joinAt, number, shown, s2c, conn, listening, j, i, spc, pollfds, msg>>
    BY <1>3 DEF vars, socketVars, serverVars, clientVars
  <2>2. \A d \in Clients : (Live(d)' <=> Live(d)) /\ (Pending(d)' <=> Pending(d))
    BY <2>1 DEF Live, Pending, InTable, Connected
  <2>3. conn' \in [Clients -> EndStates] /\ j' \in Nat
        /\ (spc' = "bcast" => msg' \in Frames /\ j' > NumListeners /\ j' # i')
    BY <2>1 DEF Deliveries
  <2> QED
    BY <2>1, <2>2, <2>3, DeliveriesFrame
<1> QED
  BY <1>1, <1>2, <1>3 DEF Next

-----------------------------------------------------------------------------
(***************************************************************************)
(* The invariant of the whole chat: the table, the streams, what is posted *)
(* and what is delivered.                                                  *)
(***************************************************************************)
RoomInv == IInv /\ Framing /\ Posts /\ Deliveries

\* RoomInv is an invariant of the chat: whatever is typed, closed or killed.
THEOREM RoomInductive == Spec => []RoomInv
<1>1. Init => RoomInv
  BY InitIInv, InitFraming, InitPosts, InitDeliveries DEF RoomInv
<1>2. RoomInv /\ [Next]_vars => RoomInv'
  BY InductiveStep, FramingStep, PostsStep, DeliveriesStep DEF RoomInv
<1> QED
  BY <1>1, <1>2, PTL DEF Spec

-----------------------------------------------------------------------------
\* What a connected client has been shown and what is on its way to it are all it
\* is owed, but for the line being broadcast while its turn has not come: for any
\* number of clients and lines and any buffer size.
THEOREM NothingLost == Spec => []NoGapNoEcho
<1>1. RoomInv => NoGapNoEcho
  <2> SUFFICES ASSUME RoomInv, NEW c \in InTable, conn[c] = "open", listening
               PROVE  Received(c) = IF Pending(c) THEN Front(Owed(c)) ELSE Owed(c)
    BY DEF NoGapNoEcho
  <2>1. c \in Clients /\ Live(c)
    BY Serving DEF RoomInv, Live
  <2>2. /\ Received(c) = ReceivedAs(shown[c], s2c[c])
        /\ Owed(c) = OwedOf(log, joinAt[c], c)
    BY DEF Received, ReceivedAs, Owed, Room!Owed, OwedOf
  <2>3. /\ s2c[c] \in Seq(Frames) /\ shown[c] \in Seq(Frames)
        /\ Pending(c) => Owed(c) = Append(Received(c), msg.body) /\ msg.body \in Bodies
        /\ ~Pending(c) => Owed(c) = Received(c)
    <3>1. /\ s2c[c] \in Seq(Frames) /\ shown[c] \in Seq(Frames)
          /\ Delivers(c, log, joinAt[c], number[c], shown[c], s2c[c],
                      Live(c), Pending(c), msg.body)
      BY <2>1, DeliveriesOf DEF RoomInv
    <3>2. Pending(c) => msg.body \in Bodies
      BY DEF RoomInv, Deliveries, Pending, Frames
    <3> QED
      BY <2>1, <2>2, <3>1, <3>2 DEF Delivers
  <2>4. Received(c) \in Seq(Bodies)
    BY <2>2, <2>3, ReceivedIs
  <2>5. ASSUME NEW r \in Seq(Bodies), NEW b \in Bodies PROVE Front(Append(r, b)) = r
    BY DEF Front
  <2> QED
    BY <2>3, <2>4, <2>5
<1> QED
  BY <1>1, RoomInductive, PTL

\* The server's and the connections' variables have the types the code gives them.
THEOREM TypesHold == Spec => []TypeOK
<1> DEFINE Rest == /\ rst \in [Clients -> BOOLEAN]
                   /\ typed \in [Clients -> {"none", "line", "empty"}]
                   /\ sock \in [Clients -> BOOLEAN]
<1>1. Init => Rest
  BY DEF Init, SocketsInit, ClientInit
<1>2. RoomInv /\ Rest /\ [Next]_vars => Rest'
  <2> SUFFICES ASSUME RoomInv, Rest, [Next]_vars PROVE Rest'
    OBVIOUS
  <2>1. CASE Server
    <3>1. UNCHANGED <<typed, sock>>
      BY <2>1 DEF Server, clientVars
    <3>2. rst' = rst \/ rst' = [rst EXCEPT ![pollfds[j].fd] = TRUE]
      BY <2>1 DEF Server, ServerNext, Poll, AcceptNewConnection, AcceptOverflow, ReadHeader,
                  ReadEmptyLine, ReadEof, Disconnect, ReadBody, Writev, WritevGone,
                  WritevSigpipe, BroadcastDone, socketVars
    <3> QED
      BY <3>1, <3>2
  <2>2. CASE \E c \in Clients : Client(c) \/ User(c)
    <3>1. PICK c \in Clients : ClientStep(c) \/ UserStep(c)
      BY <2>2 DEF Client, User
    <3>2. rst' = rst
      BY <3>1 DEF ClientStep, UserStep, WriteHeader, WritePayload, WriteLost, WriteFails, Receive,
                  ReceiveEof, Connect, ConnectRefused, PollLine, EndLine, Printed, PollEof, Kill,
                  socketVars
    <3>3. PICK t \in {typed[c], "none", "line", "empty"}, b \in BOOLEAN :
            /\ typed' = [typed EXCEPT ![c] = t]
            /\ sock' = [sock EXCEPT ![c] = b]
      <4>0. typed = [typed EXCEPT ![c] = typed[c]] /\ sock = [sock EXCEPT ![c] = sock[c]]
            /\ sock[c] \in BOOLEAN
        OBVIOUS
      <4>1. CASE WriteHeader(c) \/ WritePayload(c) \/ WriteLost(c)
        BY <4>0, <4>1 DEF WriteHeader, WritePayload, WriteLost, LineSent
      <4>2. CASE Receive(c) \/ Connect(c) \/ ConnectRefused(c) \/ EndLine(c) \/ Printed(c)
        BY <4>0, <4>2 DEF Receive, Connect, ConnectRefused, EndLine, Printed
      <4>3. CASE WriteFails(c) \/ ReceiveEof(c) \/ PollEof(c) \/ Kill(c)
        BY <4>3 DEF WriteFails, ReceiveEof, PollEof, Kill, Leave
      <4>4. CASE \E kind \in {"line", "empty"} : PollLine(c, kind)
        <5>1. ClientReadable(c) \in BOOLEAN
          BY DEF ClientReadable
        <5> QED
          BY <4>4, <5>1 DEF PollLine
      <4> QED
        BY <3>1, <4>1, <4>2, <4>3, <4>4 DEF ClientStep, UserStep
    <3>4. t \in {"none", "line", "empty"}
      BY <3>3
    <3> QED
      BY <3>2, <3>3, <3>4
  <2>3. CASE UNCHANGED vars
    BY <2>3 DEF vars, socketVars, clientVars
  <2> QED
    BY <2>1, <2>2, <2>3 DEF Next
<1>3. RoomInv /\ Rest => TypeOK
  <2> SUFFICES ASSUME RoomInv, Rest PROVE TypeOK
    OBVIOUS
  <2>1. i \in 0..Len(pollfds)
    BY DEF RoomInv, IInv, VecTypes
  <2> QED
    BY <2>1 DEF RoomInv, IInv, VecTypes, Posts, Deliveries, Frames, TypeOK
<1> QED
  BY <1>1, <1>2, <1>3, RoomInductive, PTL DEF Spec

\* A client that is there loses its place only for an empty line.
THEOREM OnlyEmptyLinesDrop == Spec => DropsOnlyEmptyLines
<1>1. ASSUME RoomInv, [Next]_vars, NEW c \in Clients,
             c \in InTable, c \notin InTable', conn[c] = "open"
      PROVE  c2s[c] # <<>> /\ Head(c2s[c]) = [part |-> "len", empty |-> TRUE]
  <2>1. ServerNext
    <3>1. CASE UNCHANGED pollfds
      BY <1>1, <3>1 DEF InTable, Connected
    <3> QED
      BY <1>1, <3>1 DEF Next, Server, Client, User, serverVars, vars
  <2>2. ReadEmptyLine \/ ReadEof
    <3>1. CASE Poll
      <4>1. pollfds \in Seq([fd : Fds, revents : BOOLEAN])
        BY <1>1 DEF RoomInv, IInv, VecTypes
      <4>2. InTable' = InTable
        BY <1>1, <3>1, PollKeepsTable DEF RoomInv
      <4> QED
        BY <1>1, <4>2
    <3>2. CASE AcceptNewConnection
      BY <1>1, <3>2, AcceptKeepsTable DEF RoomInv
    <3>3. CASE UNCHANGED pollfds
      BY <1>1, <3>3 DEF InTable, Connected
    <3> QED
      BY <2>1, <3>1, <3>2, <3>3 DEF ServerNext, AcceptOverflow, ReadHeader, ReadBody, Writev,
                  WritevGone, WritevSigpipe, BroadcastDone
  <2>3. /\ spc \in {"scan", "body"} /\ i \in Connected /\ Disconnect(pollfds[i].fd)
        /\ pollfds[i].fd \in Clients
    <3>1. IInv
      BY <1>1 DEF RoomInv
    <3> QED
      BY <2>2, <3>1, Serving DEF ReadEmptyLine, ReadEof
  \* The entry that goes is the one being served.
  <2>4. c = pollfds[i].fd
    BY <1>1, <2>3, OthersStay DEF RoomInv
  <2>5. ReadEmptyLine
    BY <1>1, <2>2, <2>4 DEF ReadEof
  <2>6. /\ spc = "scan" /\ c2s[c] # <<>> /\ Head(c2s[c]).empty
    BY <2>4, <2>5 DEF ReadEmptyLine, PromisesPayload
  <2>7. Framed(c2s[c], Awaited(c)) /\ c2s[c] \in Seq(StreamUnits) /\ c2s[c] \in Seq(Units)
    BY <1>1 DEF RoomInv, Framing, InStepWith, Posts
  <2>8. Awaited(c) = FALSE
    BY <2>6 DEF Awaited
  <2>9. Head(c2s[c]).part # "data" /\ Head(c2s[c]) \in Units
    BY <2>6, <2>7, <2>8, TailFramed, HeadTailProperties
  <2>10. Head(c2s[c]) \in [part : {"len"}, empty : BOOLEAN]
    BY <2>9 DEF Units
  <2> QED
    BY <2>6, <2>10
<1>2. RoomInv /\ [Next]_vars =>
        [\A c \in Clients :
            c \in InTable /\ c \notin InTable' /\ conn[c] = "open" =>
                /\ c2s[c] # <<>>
                /\ Head(c2s[c]) = [part |-> "len", empty |-> TRUE]]_vars
  BY <1>1
<1> QED
  BY <1>2, RoomInductive, PTL DEF DropsOnlyEmptyLines, Spec

-----------------------------------------------------------------------------
(***************************************************************************)
(* The room.  Accepting a connection is joining, reading a payload is      *)
(* posting, and showing a frame is showing; nothing else is seen there.    *)
(***************************************************************************)
Joined == {c \in Clients : number[c] > 0}

ShownTo == [c \in Clients |-> Payloads(shown[c])]

\* A frame more on a client's terminal.
LEMMA OneMoreShown ==
  ASSUME shown \in [Clients -> Seq(Frames)], NEW c \in Clients, NEW f \in Frames,
         shown' = [shown EXCEPT ![c] = Append(@, f)]
  PROVE  /\ ShownTo' = [ShownTo EXCEPT ![c] = Append(@, f.body)]
         /\ Len(ShownTo[c]) = Len(shown[c])
<1> DEFINE old == shown[c]
           new == Append(old, f)
<1>1. /\ Len(old) \in Nat /\ DOMAIN old = 1..Len(old)
      /\ new \in Seq(Frames) /\ Len(new) = Len(old) + 1 /\ DOMAIN new = 1..(Len(old) + 1)
      /\ new[Len(old) + 1] = f /\ \A k \in 1..Len(old) : new[k] = old[k]
  OBVIOUS
<1>2. /\ shown'[c] = new /\ \A d \in Clients : d # c => shown'[d] = shown[d]
  OBVIOUS
<1>3. ASSUME NEW k \in 1..Len(old) PROVE old[k].body \in Bodies
  <2>1. old \in Seq(Frames)
    OBVIOUS
  <2> HIDE DEF old
  <2>2. old[k] \in Frames
    BY <2>1, ElementOfSeq
  <2> QED
    BY <2>2 DEF Frames
<1>4. f.body \in Bodies
  BY DEF Frames
<1> HIDE DEF new
<1>5. Payloads(old) = [k \in 1..Len(old) |-> old[k].body]
  BY <1>1 DEF Payloads
<1>6. Payloads(new) = [k \in 1..(Len(old) + 1) |-> new[k].body]
  BY <1>1 DEF Payloads
<1>7. Payloads(old) \in Seq(Bodies) /\ Len(Payloads(old)) = Len(old)
  <2> DEFINE p == Payloads(old)
             n == Len(old)
  <2>1. n \in Nat /\ p \in [1..n -> Bodies]
    BY <1>1, <1>3, <1>5
  <2> HIDE DEF p, n
  <2>2. p \in Seq(Bodies) /\ Len(p) = n
    BY <2>1, FunctionIsSeq
  <2> QED
    BY <2>2 DEF p, n
<1>8. Payloads(new) = Append(Payloads(old), f.body)
  <2> DEFINE p == Payloads(old)
             a == Append(p, f.body)
             r == Payloads(new)
  <2>1. /\ a \in Seq(Bodies) /\ Len(a) = Len(old) + 1
        /\ \A k \in 1..Len(old) : a[k] = p[k]
        /\ a[Len(old) + 1] = f.body
    BY <1>4, <1>7, AppendProperties
  <2>2. \A k \in 1..Len(old) : p[k] = old[k].body
    BY <1>5
  <2> HIDE DEF p, a
  <2>3. ASSUME NEW k \in 1..(Len(old) + 1) PROVE new[k].body = a[k] /\ new[k].body \in Bodies
    <3>1. CASE k \in 1..Len(old)
      BY <1>1, <1>3, <2>1, <2>2, <3>1
    <3>2. CASE k = Len(old) + 1
      BY <1>1, <1>4, <2>1, <3>2
    <3> QED
      BY <1>1, <3>1, <3>2
  <2>4. r \in [1..(Len(old) + 1) -> Bodies] /\ \A k \in 1..(Len(old) + 1) : r[k] = a[k]
    BY <1>6, <2>3
  <2> HIDE DEF r
  <2>5. Len(old) + 1 \in Nat
    BY <1>1
  <2>6. r \in Seq(Bodies) /\ Len(r) = Len(old) + 1
    BY <2>4, <2>5, FunctionIsSeq
  <2>7. r = a
    BY <2>1, <2>4, <2>6, SeqEqual
  <2> QED
    BY <2>7 DEF r, a, p
<1>9. ShownTo' = [d \in Clients |-> IF d = c THEN Append(Payloads(old), f.body)
                                              ELSE Payloads(shown[d])]
  BY <1>2, <1>8 DEF ShownTo
<1> QED
  BY <1>7, <1>9 DEF ShownTo

\* Accepting a connection is joining.
LEMMA JoinsRoom ==
  ASSUME RoomInv, AcceptNewConnection, UNCHANGED clientVars
  PROVE  \E c \in Clients : Room!Join(c)
<1> DEFINE c == backlog[i][1]
<1>1. /\ i \in Listeners /\ backlog[i] \in Seq(Clients) /\ backlog[i] # <<>>
      /\ Len(backlog[i]) > 0 /\ c \in Clients
      /\ Head(backlog[i]) = c
  BY SMTT(60) DEF AcceptNewConnection, RoomInv, IInv, VecTypes, Listeners
<1>2. number[c] = 0
  BY <1>1 DEF RoomInv, IInv, BacklogInv
<1>3. /\ number' = [number EXCEPT ![c] = client_count + 1]
      /\ joinAt' = [joinAt EXCEPT ![c] = Len(log)]
      /\ UNCHANGED <<log, shown>>
  BY <1>1 DEF AcceptNewConnection, clientVars
<1>4. number \in [Clients -> Nat] /\ client_count \in Nat
  BY DEF RoomInv, IInv, VecTypes
<1> HIDE DEF c
<1>5. c \notin Joined
  BY <1>2 DEF Joined
<1>6. Joined' = Joined \cup {c}
  <2>1. number'[c] > 0 /\ \A d \in Clients : d # c => number'[d] = number[d]
    BY <1>1, <1>3, <1>4
  <2> QED
    BY <1>1, <2>1 DEF Joined
<1>7. UNCHANGED <<log, ShownTo>>
  BY <1>3 DEF ShownTo
<1> QED
  BY <1>1, <1>3, <1>5, <1>6, <1>7 DEF Room!Join, Joined, ShownTo

\* Reading a payload is posting the next line of its sender.
LEMMA PostsToRoom ==
  ASSUME RoomInv, ReadBody, UNCHANGED clientVars
  PROVE  \E c \in Clients : Room!Post(c)
<1> DEFINE c == pollfds[i].fd
           b == Xcrypt(Head(c2s[c]).body)
<1>1. i \in Connected /\ c \in Clients /\ number[c] > 0
  BY Serving DEF ReadBody, RoomInv
<1>2. /\ b \in Bodies /\ b = [from |-> c, no |-> b.no, enc |-> FALSE]
      /\ \A k \in 1..Len(log) : log[k].from = c => log[k].no < b.no
  BY <1>1, ReadPosts DEF RoomInv
<1>3. /\ log' = Append(log, b) /\ UNCHANGED <<number, joinAt, shown>>
  BY DEF ReadBody, clientVars
<1> HIDE DEF b, c
<1>4. b.no \in 1..MaxLines
  BY <1>2 DEF Bodies
<1>5. DOMAIN log = 1..Len(log)
  BY DEF RoomInv, Posts
<1>6. c \in Joined /\ Joined' = Joined /\ ShownTo' = ShownTo
  BY <1>1, <1>3 DEF Joined, ShownTo
<1>7. log' = Append(log, [from |-> c, no |-> b.no, enc |-> FALSE])
  BY <1>2, <1>3
<1>8. Room!Post(c)
  BY <1>2, <1>3, <1>4, <1>5, <1>6, <1>7 DEF Room!Post, Joined, ShownTo
<1> QED
  BY <1>1, <1>8

\* Reading a frame is showing the next line owed.
LEMMA ShowsInRoom ==
  ASSUME RoomInv, NEW c \in Clients, Receive(c), UNCHANGED serverVars
  PROVE  Room!Show(c)
<1>1. /\ number[c] # 0 /\ Len(shown[c]) < Len(Owed(c))
      /\ \E f \in Frames :
           shown' = [shown EXCEPT ![c] = Append(@, f)] /\ f.body = Owed(c)[Len(shown[c]) + 1]
  BY ReceiveDelivers DEF RoomInv
<1>2. PICK f \in Frames :
        shown' = [shown EXCEPT ![c] = Append(@, f)] /\ f.body = Owed(c)[Len(shown[c]) + 1]
  BY <1>1
<1>3. /\ ShownTo' = [ShownTo EXCEPT ![c] = Append(@, f.body)]
      /\ Len(ShownTo[c]) = Len(shown[c])
  BY <1>2, OneMoreShown DEF RoomInv, Deliveries
<1>4. c \in Joined /\ Joined' = Joined /\ UNCHANGED <<joinAt, log>>
  BY <1>1 DEF RoomInv, IInv, VecTypes, Joined, serverVars
<1>5. ShownTo' = [ShownTo EXCEPT ![c] = Append(@, Room!Owed(c)[Len(@) + 1])]
  BY <1>2, <1>3 DEF Owed
<1>6. Len(ShownTo[c]) < Len(Room!Owed(c))
  BY <1>1, <1>3 DEF Owed
<1> QED
  BY <1>4, <1>5, <1>6 DEF Room!Show, Joined, ShownTo

\* What the room does not see.
LEMMA SameRoom ==
  ASSUME UNCHANGED <<number, joinAt, log, shown>>
  PROVE  UNCHANGED Room!vars
BY DEF Room!vars

\* The chat of any number of clients implements the room: a client is shown the
\* lines of the others since it joined, in the server's order, once each, in
\* clear, and never its own.
THEOREM ChatIsRoom == Spec => RoomSpec
<1>1. Init => Room!Init
  BY DEF Init, ServerInit, ClientInit, Room!Init, Payloads
<1>2. RoomInv /\ [Next]_vars => [Room!Next]_(Room!vars)
  <2> SUFFICES ASSUME RoomInv, [Next]_vars
               PROVE  Room!Next \/ UNCHANGED Room!vars
    OBVIOUS
  <2>1. CASE Server
    <3>0. ServerNext /\ UNCHANGED clientVars
      BY <2>1 DEF Server
    <3>1. CASE AcceptNewConnection
      BY <3>0, <3>1, JoinsRoom DEF Room!Next
    <3>2. CASE ReadBody
      BY <3>0, <3>2, PostsToRoom DEF Room!Next
    <3>3. CASE UNCHANGED <<number, joinAt, log>>
      BY <3>0, <3>3, SameRoom DEF clientVars
    <3> QED
      BY <3>0, <3>1, <3>2, <3>3
         DEF ServerNext, Poll, AcceptOverflow, ReadHeader, ReadEmptyLine, ReadEof, Disconnect,
             Writev, WritevGone, WritevSigpipe, BroadcastDone
  <2>2. CASE \E c \in Clients : Client(c) \/ User(c)
    <3>1. PICK c \in Clients : ClientStep(c) \/ UserStep(c)
      BY <2>2 DEF Client, User
    <3>2. UNCHANGED serverVars
      BY <2>2 DEF Client, User
    <3>3. CASE Receive(c)
      BY <3>2, <3>3, ShowsInRoom DEF Room!Next
    <3>4. CASE shown' = shown
      BY <3>2, <3>4, SameRoom DEF serverVars
    <3> QED
      BY <3>1, <3>3, <3>4
         DEF ClientStep, UserStep, WriteHeader, WritePayload, WriteLost, LineSent, WriteFails,
             ReceiveEof, Connect, ConnectRefused, PollLine, EndLine, Printed, PollEof, Kill
  <2>3. CASE UNCHANGED vars
    BY <2>3, SameRoom DEF vars, serverVars, clientVars
  <2> QED
    BY <2>1, <2>2, <2>3 DEF Next
<1> QED
  BY <1>1, <1>2, RoomInductive, PTL DEF Spec, RoomSpec, Room!Spec
=============================================================================
