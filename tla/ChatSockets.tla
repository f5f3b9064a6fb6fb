---------------------------- MODULE ChatSockets ----------------------------
(***************************************************************************)
(* The TCP connections between q_server.c and q_client.c (src/lab7), as    *)
(* the two programs use them.  Everything here is the kernel's part and so *)
(* external to the repository: what connect, accept, read_exact, writev    *)
(* and close do to the shared queues.                                      *)
(*                                                                         *)
(* Bytes are grouped into the units the programs write with one call: a    *)
(* client writes a 4-byte length and then a payload, the server writes a   *)
(* header and a payload with one writev.                                   *)
(***************************************************************************)
EXTENDS Naturals, Sequences

CONSTANTS
    Clients,       \* the client processes; each one connects at most once
    NumListeners,  \* addresses the server is bound to (num_listeners)
    SockBuf        \* bound: units a socket buffer holds before writers block

ASSUME NumListenersAssumption == NumListeners \in Nat \ {0}
ASSUME SockBufAssumption == SockBuf \in Nat \ {0}

Listeners == 1..NumListeners

ASSUME ClientsAssumption == Clients \cap Listeners = {}

VARIABLES
    listening,  \* the server process is alive, so its listeners are
    backlog,    \* backlog[l]: connections established but not yet accepted
    c2s,        \* c2s[c]: units written by client c, unread by the server
    s2c,        \* s2c[c]: frames written by the server, unread by c
    conn,       \* conn[c]: the client's end of the connection
    link,       \* link[c]: the server's end of the connection
    rst         \* rst[c]: the server has written to a closed client's end

socketVars == <<listening, backlog, c2s, s2c, conn, link, rst>>

EndStates == {"none", "open", "closed"}

SocketsInit ==
    /\ listening = TRUE
    /\ backlog = [l \in Listeners |-> <<>>]
    /\ c2s = [c \in Clients |-> <<>>]
    /\ s2c = [c \in Clients |-> <<>>]
    /\ conn = [c \in Clients |-> "none"]
    /\ link = [c \in Clients |-> "none"]
    /\ rst = [c \in Clients |-> FALSE]

\* POLLIN on a server descriptor: a listener with a queued connection, or a
\* client with unread units or an end of file.
ServerReadable(fd) ==
    IF fd \in Listeners THEN backlog[fd] # <<>>
                        ELSE c2s[fd] # <<>> \/ conn[fd] = "closed"

\* POLLIN on a client's descriptor.
ClientReadable(c) == s2c[c] # <<>> \/ link[c] = "closed"

\* A descriptor is closed, by close() or by the end of its process: what it
\* has not read is dropped, what it has written stays with the peer.
CloseClientEnd(c) ==
    /\ conn' = [conn EXCEPT ![c] = "closed"]
    /\ s2c' = [s2c EXCEPT ![c] = <<>>]

CloseServerEnd(c) ==
    /\ link' = [link EXCEPT ![c] = "closed"]
    /\ c2s' = [c2s EXCEPT ![c] = <<>>]

\* The end of the server process closes every connection, accepted or not,
\* and refuses new ones.
CloseAllServerEnds ==
    /\ listening' = FALSE
    /\ backlog' = [l \in Listeners |-> <<>>]
    /\ link' = [c \in Clients |-> IF link[c] = "open" THEN "closed" ELSE link[c]]
    /\ c2s' = [c \in Clients |-> <<>>]

\* A payload after aes_ctr_xcrypt with the one key and iv both programs hold:
\* applying it twice gives the payload back.
Xcrypt(body) == [body EXCEPT !.enc = ~body.enc]
=============================================================================
