----------------------------- MODULE ChatServer -----------------------------
(***************************************************************************)
(* The chat server of src/lab7/q_server.c: one thread, one poll loop, a    *)
(* table of descriptors (listeners first) and a parallel vector of client  *)
(* numbers.  Positions are 1-based here, so the C index i of the table is  *)
(* position i + 1; client_index is i - NumListeners.                       *)
(*                                                                         *)
(* A step ends where the server may block (poll, read_exact, writev) or    *)
(* where another process can see what it did.                              *)
(***************************************************************************)
EXTENDS ChatSockets, SequencesExt

CONSTANT Capacity  \* AY_VEC_INITIAL_CAPACITY of the two vectors

ASSUME CapacityAssumption == Capacity \in Nat /\ Capacity >= NumListeners

VARIABLES
    spc,           \* where the server is
    pollfds,       \* vec: the descriptor table, with the last poll's revents
    client_ids,    \* client_ids_vec
    client_count,  \* client_count
    i,             \* position of the table entry being served; 0 at poll
    j,             \* position of the next broadcast recipient; 0 outside
    msg,           \* the message being broadcast: label and plain payload
    log,           \* history: payloads read, in the order they were read
    joinAt,        \* history: Len(log) when client c was accepted
    number         \* history: the number announced for c (0: not accepted)

serverVars == <<spc, pollfds, client_ids, client_count, i, j, msg,
                log, joinAt, number>>

ServerPcs == {"poll", "scan", "body", "bcast", "aborted", "sigpipe"}

NoMsg == [id |-> 0, body |-> <<>>]

ServerInit ==
    /\ spc = "poll"
    /\ pollfds = [l \in Listeners |-> [fd |-> l, revents |-> FALSE]]
    /\ client_ids = <<>>
    /\ client_count = 0
    /\ i = 0
    /\ j = 0
    /\ msg = NoMsg
    /\ log = <<>>
    /\ joinAt = [c \in Clients |-> 0]
    /\ number = [c \in Clients |-> 0]

ServerUp == spc \notin {"aborted", "sigpipe"}

-----------------------------------------------------------------------------
\* The vector of src/helper/vec.h.

\* ay_vec_push_back on a full vector calls ay_vecbase_expand, which passes
\* the address of the data field to realloc: the allocator aborts.
VecFullOneEarly(s) == Len(s) + 1 = Capacity  \* faulty variant
VecFull(s) == Len(s) = Capacity

\* ay_vec_delete: an index beyond the size is silently ignored.
VecDeleteSwap(s, p) ==                       \* faulty variant
    IF p <= Len(s) THEN Front([s EXCEPT ![p] = Last(s)]) ELSE s
VecDelete(s, p) == IF p <= Len(s) THEN RemoveAt(s, p) ELSE s

-----------------------------------------------------------------------------
\* The scan goes on at the first entry from position p whose revents are
\* set, or returns to poll.
Resume(table, p) ==
    LET ready == {q \in p..Len(table) : table[q].revents}
    IN  \/ ready = {} /\ spc' = "poll" /\ i' = 0
        \/ ready # {} /\ spc' = "scan"
           /\ \E q \in ready : i' = q /\ \A r \in ready : q <= r

\* The process ends: abort() or SIGPIPE.
Die(how) ==
    /\ spc' = how
    /\ CloseAllServerEnds
    /\ i' = 0 /\ j' = 0 /\ msg' = NoMsg

\* The position the scan starts from.
ScanStartPastListeners == NumListeners + 1   \* faulty variant
ScanStart == 1

\* poll() blocks until some descriptor is readable and sets every revents.
Poll ==
    /\ spc = "poll"
    /\ \E p \in DOMAIN pollfds : ServerReadable(pollfds[p].fd)
    /\ pollfds' = [p \in DOMAIN pollfds |->
                     [fd |-> pollfds[p].fd,
                      revents |-> ServerReadable(pollfds[p].fd)]]
    /\ Resume(pollfds', ScanStart)
    /\ UNCHANGED <<client_ids, client_count, j, msg, log, joinAt, number,
                   socketVars>>

\* ++(*client_count)
NewNumber == client_count + 1

\* accept_new_connection, both vectors having room.
AcceptNewConnection ==
    /\ spc = "scan" /\ i <= NumListeners
    /\ backlog[i] # <<>>
    /\ ~VecFull(pollfds) /\ ~VecFull(client_ids)
    /\ LET c == Head(backlog[i]) IN
       /\ pollfds' = Append(pollfds, [fd |-> c, revents |-> FALSE])
       /\ client_ids' = Append(client_ids, NewNumber)
       /\ number' = [number EXCEPT ![c] = client_count + 1]
       /\ joinAt' = [joinAt EXCEPT ![c] = Len(log)]
    /\ client_count' = client_count + 1
    /\ backlog' = [backlog EXCEPT ![i] = Tail(@)]
    /\ Resume(pollfds', i + 1)
    /\ UNCHANGED <<j, msg, log, listening, c2s, s2c, conn, link, rst>>

\* accept_new_connection when one of the two vectors has to grow.
AcceptOverflow ==
    /\ spc = "scan" /\ i <= NumListeners
    /\ backlog[i] # <<>>
    /\ VecFull(pollfds) \/ VecFull(client_ids)
    /\ Die("aborted")
    /\ UNCHANGED <<pollfds, client_ids, client_count, log, joinAt, number,
                   s2c, conn, rst>>

\* The positions the two ay_vec_delete calls of read_from_client pass: the
\* C index client_index + num_listeners for the table, and the same for the
\* vector of numbers, which has no listeners in it.
TableIndexTwice == i + NumListeners          \* faulty variants
TableIndexOfClient == i - NumListeners
TableIndex == i
IdsIndex == i

\* The shared tail of the two failure branches of read_from_client.
Disconnect(c) ==
    /\ CloseServerEnd(c)
    /\ pollfds' = VecDelete(pollfds, TableIndex)
    /\ client_ids' = VecDelete(client_ids, IdsIndex)
    /\ Resume(pollfds', i + 1)
    /\ UNCHANGED <<client_count, j, msg, log, joinAt, number,
                   listening, backlog, s2c, conn, rst>>

\* n > 0 for the length that was read.
PromisesPayloadAlways(unit) == TRUE          \* faulty variant
PromisesPayload(unit) == ~unit.empty

\* The length arrives and promises a payload; the server goes on to read it.
ReadHeader ==
    /\ spc = "scan" /\ i > NumListeners
    /\ LET c == pollfds[i].fd IN
       /\ c2s[c] # <<>>
       /\ PromisesPayload(Head(c2s[c]))
       /\ c2s' = [c2s EXCEPT ![c] = Tail(@)]
    /\ spc' = "body"
    /\ UNCHANGED <<pollfds, client_ids, client_count, i, j, msg, log, joinAt,
                   number, listening, backlog, s2c, conn, link, rst>>

\* A zero length: read_exact(fd, buf, 0) returns 0 and the server takes it
\* for an end of file.
ReadEmptyLine ==
    /\ spc = "scan" /\ i > NumListeners
    /\ LET c == pollfds[i].fd IN
       /\ c2s[c] # <<>>
       /\ ~PromisesPayload(Head(c2s[c]))
       /\ Disconnect(c)

\* End of file (or a reset) where a length or a payload was due.
ReadEof ==
    /\ \/ spc = "scan" /\ i > NumListeners
       \/ spc = "body"
    /\ LET c == pollfds[i].fd IN
       /\ c2s[c] = <<>>
       /\ conn[c] = "closed"
       /\ Disconnect(c)

\* The recipient at position p or, when that is the sender, the one after it.
RecipientEcho(p) == p                        \* faulty variant
Recipient(p) == IF p = i THEN p + 1 ELSE p

\* Where the broadcast loop starts and whether it is over.
FirstRecipientLate == NumListeners + 2       \* faulty variant
FirstRecipient == NumListeners + 1
BroadcastOverEarly == j >= Len(pollfds)      \* faulty variant
BroadcastOver == j > Len(pollfds)

\* The label: the number at the sender's index of client_ids_vec.
Label == client_ids[i - NumListeners]

\* The payload arrives, is decrypted and labelled.
ReadBody ==
    /\ spc = "body"
    /\ LET c == pollfds[i].fd IN
       /\ c2s[c] # <<>>
       /\ LET body == Xcrypt(Head(c2s[c]).body) IN
          /\ msg' = [id |-> Label, body |-> body]
          /\ log' = Append(log, body)
       /\ c2s' = [c2s EXCEPT ![c] = Tail(@)]
    /\ spc' = "bcast"
    /\ j' = Recipient(FirstRecipient)
    /\ UNCHANGED <<pollfds, client_ids, client_count, i, joinAt, number,
                   listening, backlog, s2c, conn, link, rst>>

\* writev to a live recipient: blocks while its socket buffer is full.
Writev ==
    /\ spc = "bcast" /\ j <= Len(pollfds)
    /\ LET c == pollfds[j].fd IN
       /\ conn[c] = "open"
       /\ Len(s2c[c]) < SockBuf
       /\ s2c' = [s2c EXCEPT ![c] =
                    Append(@, [id |-> msg.id, body |-> Xcrypt(msg.body)])]
    /\ j' = Recipient(j + 1)
    /\ UNCHANGED <<spc, pollfds, client_ids, client_count, i, msg, log,
                   joinAt, number, listening, backlog, c2s, conn, link, rst>>

\* writev to a client that is gone: accepted by the kernel or reported with
\* perror, and the loop goes on.  The peer answers with a reset.
WritevGone ==
    /\ spc = "bcast" /\ j <= Len(pollfds)
    /\ LET c == pollfds[j].fd IN
       /\ conn[c] = "closed"
       /\ rst' = [rst EXCEPT ![c] = TRUE]
    /\ j' = Recipient(j + 1)
    /\ UNCHANGED <<spc, pollfds, client_ids, client_count, i, msg, log,
                   joinAt, number, listening, backlog, c2s, s2c, conn, link>>

\* writev after the reset came back: SIGPIPE, whose default action is death.
WritevSigpipe ==
    /\ spc = "bcast" /\ j <= Len(pollfds)
    /\ rst[pollfds[j].fd]
    /\ Die("sigpipe")
    /\ UNCHANGED <<pollfds, client_ids, client_count, log, joinAt, number,
                   s2c, conn, rst>>

\* The broadcast loop ends and read_from_client returns to the scan.
BroadcastDone ==
    /\ spc = "bcast" /\ BroadcastOver
    /\ Resume(pollfds, i + 1)
    /\ j' = 0 /\ msg' = NoMsg
    /\ UNCHANGED <<pollfds, client_ids, client_count, log, joinAt, number,
                   socketVars>>

ServerNext ==
    \/ Poll
    \/ AcceptNewConnection
    \/ AcceptOverflow
    \/ ReadHeader
    \/ ReadEmptyLine
    \/ ReadEof
    \/ ReadBody
    \/ Writev
    \/ WritevGone
    \/ WritevSigpipe
    \/ BroadcastDone
=============================================================================
