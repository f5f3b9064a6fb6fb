-------------------------------- MODULE Chat --------------------------------
(***************************************************************************)
(* The chat of src/lab7: q_server.c and its clients (q_client.c) over the  *)
(* connections of ChatSockets.                                             *)
(***************************************************************************)
EXTENDS ChatServer, ChatClient

vars == <<socketVars, serverVars, clientVars>>

Init == SocketsInit /\ ServerInit /\ ClientInit

Server == ServerNext /\ UNCHANGED clientVars

Client(c) == ClientStep(c) /\ UNCHANGED serverVars

User(c) == UserStep(c) /\ UNCHANGED serverVars

Next == Server \/ \E c \in Clients : Client(c) \/ User(c)

Spec == Init /\ [][Next]_vars

\* The server and every client that has started keep running as long as
\* they are not blocked; nobody has to type, end a line, read a terminal,
\* connect or kill anything.
Fairness == WF_vars(Server) /\ \A c \in Clients : WF_vars(Client(c))

FairSpec == Spec /\ Fairness

-----------------------------------------------------------------------------
\* The clients in the table, by position after the listeners.
Connected == (NumListeners + 1)..Len(pollfds)

InTable == {pollfds[p].fd : p \in Connected}

Payloads(frames) == [k \in DOMAIN frames |-> frames[k].body]

\* The chat as the room of ChatRoom.
Room == INSTANCE ChatRoom WITH
    Numbers <- 1..MaxLines,
    joined <- {c \in Clients : number[c] > 0},
    shown <- [c \in Clients |-> Payloads(shown[c])]

\* What client c is owed: the payloads of the others read since c joined.
Owed(c) == Room!Owed(c)

\* What c has been shown, and then what is on its way to c.
Received(c) ==
    Payloads(shown[c]) \o [k \in DOMAIN s2c[c] |-> Xcrypt(s2c[c][k].body)]

\* c is still to be served by the broadcast in progress.
Pending(c) == spc = "bcast" /\ \E p \in j..Len(pollfds) : pollfds[p].fd = c /\ p # i

-----------------------------------------------------------------------------
Bodies == [from : Clients, no : 1..MaxLines, enc : BOOLEAN]

Units == [part : {"len"}, empty : BOOLEAN] \cup [part : {"data"}, body : Bodies]

Fds == Listeners \cup Clients

\* The type of the server's and the connections' variables.
TypeOK ==
    /\ listening = ServerUp
    /\ backlog \in [Listeners -> Seq(Clients)]
    /\ c2s \in [Clients -> Seq(Units)]
    /\ s2c \in [Clients -> Seq([id : Nat, body : Bodies])]
    /\ conn \in [Clients -> EndStates]
    /\ link \in [Clients -> EndStates]
    /\ rst \in [Clients -> BOOLEAN]
    /\ spc \in ServerPcs
    /\ pollfds \in Seq([fd : Fds, revents : BOOLEAN])
    /\ client_ids \in Seq(Nat)
    /\ client_count \in Nat
    /\ i \in 0..Len(pollfds)
    /\ j \in Nat
    /\ spc = "bcast" => msg \in [id : Nat, body : Bodies]
    /\ log \in Seq(Bodies)
    /\ joinAt \in [Clients -> Nat]
    /\ number \in [Clients -> Nat]
    /\ cpc \in [Clients -> ClientPcs]
    /\ typed \in [Clients -> {"none", "line", "empty"}]
    /\ sock \in [Clients -> BOOLEAN]
    /\ lines \in [Clients -> 0..MaxLines]
    /\ shown \in [Clients -> Seq([id : Nat, body : Bodies])]

\* The listeners keep the first positions of the table through every
\* deletion, and every other entry is an accepted, still open connection of a
\* client of its own: the index arithmetic of lines 80-104 never closes, reads
\* or deletes a listener or somebody else's connection.
TableOK ==
    /\ Len(pollfds) >= NumListeners
    /\ \A p \in DOMAIN pollfds :
         IF p <= NumListeners
         THEN pollfds[p].fd = p
         ELSE /\ pollfds[p].fd \in Clients
              /\ number[pollfds[p].fd] > 0
              /\ listening => link[pollfds[p].fd] = "open"
    /\ \A p, q \in DOMAIN pollfds : pollfds[p].fd = pollfds[q].fd => p = q

\* client_ids_vec never gets shorter than the clients in the table, although
\* the two delete different positions: line 123 reads a number that is there.
IdsCoverClients == Len(client_ids) >= Len(pollfds) - NumListeners

\* The label a message gets (line 123) is never the number of a client that
\* joined after its sender: deletions only shift labels towards older ones.
LabelNeverNewer ==
    \A p \in Connected :
        /\ client_ids[p - NumListeners] >= 1
        /\ client_ids[p - NumListeners] <= number[pollfds[p].fd]

\* A client none of whose predecessors has left (its number is its place in
\* the table) gets its own number as its label, whatever happened after it.
PrefixAttribution ==
    \A p \in Connected :
        number[pollfds[p].fd] = p - NumListeners =>
            client_ids[p - NumListeners] = p - NumListeners

\* The stream of each client is a sequence of length/payload pairs seen from
\* the server's position in it: a payload is never read as a length, through
\* empty lines, half-sent messages and closed ends.
InFraming(units, first) ==
    \A k \in DOMAIN units :
        LET prev == IF k = 1 THEN first ELSE units[k - 1]
        IN  (units[k].part = "data") <=> (prev.part = "len" /\ ~prev.empty)

WellFramed ==
    \A c \in Clients :
        InFraming(c2s[c],
                  [part |-> IF spc = "body" /\ pollfds[i].fd = c
                            THEN "len" ELSE "data",
                   empty |-> FALSE])

\* Nothing is lost between the server and a client that is there: what it was
\* shown and what is on its way to it are all it is owed, except the payload
\* being broadcast while its turn has not come.
NoGapNoEcho ==
    \A c \in InTable :
        conn[c] = "open" /\ listening =>
            Received(c) = IF Pending(c) THEN Front(Owed(c)) ELSE Owed(c)

\* The server, its table and the sockets implement the room of ChatRoom: a
\* client is shown the lines of the others since it joined, in the server's
\* order, once each, decrypted, and never its own.
RoomSpec == Room!Spec

\* The allocator's abort (vec.c:5) needs at least as many connections over
\* the server's whole life as the table has free places.
AbortNeedsCrowd ==
    spc = "aborted" => client_count >= Capacity - NumListeners

\* The server drops a live client only for an empty line: every other
\* removal follows the client's own end of file.
DropsOnlyEmptyLines ==
    [][\A c \in Clients :
          c \in InTable /\ c \notin InTable' /\ conn[c] = "open" =>
              /\ c2s[c] # <<>>
              /\ Head(c2s[c]) = [part |-> "len", empty |-> TRUE]]_vars

\* What q_server.c announces (line 71) and q_client.c prints (line 144) read
\* together say: the number shown before a line is its sender's.
LabelIsNumber ==
    \A c \in Clients : \A k \in DOMAIN shown[c] :
        shown[c][k].id = number[shown[c][k].body.from]

-----------------------------------------------------------------------------
\* The server waits in a writev for room in c's buffer.
BlockedOn(c) ==
    /\ spc = "bcast" /\ j <= Len(pollfds) /\ pollfds[j].fd = c
    /\ conn[c] = "open" /\ Len(s2c[c]) = SockBuf

\* Server and recipient wait for each other, each in a write to a full buffer.
\* Nothing in either program gets them out of it.
MutualStall ==
    \E c \in Clients :
        /\ BlockedOn(c)
        /\ cpc[c] \in {"header", "payload"} /\ Len(c2s[c]) = SockBuf

Stopped == ~listening \/ MutualStall

\* Client c waits for its user: in the middle of a line (helper.c:62), or for a
\* terminal that takes no output (q_client.c:150).  It does not read its socket.
AwaitsUser(c) == cpc[c] \in {"line", "print"}

\* The whole chat waits for one user.
HeldUp == \E c \in Clients : BlockedOn(c) /\ AwaitsUser(c)

\* Blocking in writev (line 139) ends, unless it is a mutual stall or the
\* recipient's own user never goes on: one that is slow, quits or dies does not
\* stop the chat.
StallIsMutual ==
    \A c \in Clients :
        []<>~AwaitsUser(c) => (BlockedOn(c) ~> (~BlockedOn(c) \/ MutualStall))

\* A client that stays in the table and whose user goes on catches up with what
\* it is owed, as long as the chat is not held up by somebody else's user for ever.
Behind(c) == c \in InTable /\ Len(shown[c]) < Len(Owed(c))

EveryoneSees ==
    \A c \in Clients :
        []<>~HeldUp /\ []<>~AwaitsUser(c) =>
            (Behind(c) ~> (~Behind(c) \/ conn[c] = "closed" \/ Stopped))

\* The one loop finds everything in the end, unless a user holds it up for ever:
\* a connection the kernel has established is accepted, and a client that has
\* left is removed.
InBacklog(c) == \E l \in Listeners : \E k \in DOMAIN backlog[l] : backlog[l][k] = c

ServerNotices ==
    []<>~HeldUp =>
        \A c \in Clients :
            /\ InBacklog(c) ~> (number[c] > 0 \/ Stopped)
            /\ conn[c] = "closed" ~> (c \notin InTable \/ Stopped)
=============================================================================
