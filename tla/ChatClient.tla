----------------------------- MODULE ChatClient -----------------------------
(***************************************************************************)
(* The chat clients of src/lab7/q_client.c.  Each polls its standard input *)
(* and its socket with one snapshot, serves the input first (reads until   *)
(* the line ends, two writes), then the socket (a frame, and its output).  *)
(* Every one of these calls may block.                                     *)
(***************************************************************************)
EXTENDS ChatSockets, FiniteSets

CONSTANT MaxLines  \* bound: lines typed in all sessions together

ASSUME MaxLinesAssumption == MaxLines \in Nat
ASSUME ClientsFinite == IsFiniteSet(Clients)

VARIABLES
    cpc,    \* cpc[c]: where client c is
    typed,  \* typed[c]: the line being read or sent, "none" outside
    sock,   \* sock[c]: the POLLIN bit of the socket in the last snapshot
    lines,  \* lines[c]: lines typed so far
    shown   \* shown[c]: what c has written to its terminal, in order; the
            \* last of it may not be through yet

clientVars == <<cpc, typed, sock, lines, shown>>

ClientPcs ==
    {"start", "poll", "line", "header", "payload", "recv", "print", "exit"}

ClientInit ==
    /\ cpc = [c \in Clients |-> "start"]
    /\ typed = [c \in Clients |-> "none"]
    /\ sock = [c \in Clients |-> FALSE]
    /\ lines = [c \in Clients |-> 0]
    /\ shown = [c \in Clients |-> <<>>]

-----------------------------------------------------------------------------
\* connect() succeeds as soon as the kernel has queued the connection.
Connect(c) ==
    /\ cpc[c] = "start"
    /\ listening
    /\ \E l \in Listeners : backlog' = [backlog EXCEPT ![l] = Append(@, c)]
    /\ conn' = [conn EXCEPT ![c] = "open"]
    /\ link' = [link EXCEPT ![c] = "open"]
    /\ cpc' = [cpc EXCEPT ![c] = "poll"]
    /\ UNCHANGED <<typed, sock, lines, shown, listening, c2s, s2c, rst>>

\* No address accepts: the client reports it and returns 1.
ConnectRefused(c) ==
    /\ cpc[c] = "start"
    /\ ~listening
    /\ cpc' = [cpc EXCEPT ![c] = "exit"]
    /\ UNCHANGED <<typed, sock, lines, shown, socketVars>>

\* close(sockfd) and the end of the process.
Leave(c) ==
    /\ cpc' = [cpc EXCEPT ![c] = "exit"]
    /\ typed' = [typed EXCEPT ![c] = "none"]
    /\ sock' = [sock EXCEPT ![c] = FALSE]
    /\ CloseClientEnd(c)

\* poll() returns with the first byte of a line on standard input; the
\* socket's bit is remembered.  A byte that is the newline is an empty line;
\* after any other getline_from_fd goes on reading.
PollLine(c, kind) ==
    /\ cpc[c] = "poll"
    /\ Cardinality({l \in Clients \X (1..MaxLines) : l[2] <= lines[l[1]]}) < MaxLines
    /\ lines' = [lines EXCEPT ![c] = @ + 1]
    /\ typed' = [typed EXCEPT ![c] = kind]
    /\ sock' = [sock EXCEPT ![c] = ClientReadable(c)]
    /\ cpc' = [cpc EXCEPT ![c] = IF kind = "empty" THEN "header" ELSE "line"]
    /\ UNCHANGED <<shown, socketVars>>

\* The rest of the line is there, with its newline or the end of file.  Until
\* then the client is in read(), and its socket fills.
EndLine(c) ==
    /\ cpc[c] = "line"
    /\ cpc' = [cpc EXCEPT ![c] = "header"]
    /\ UNCHANGED <<typed, sock, lines, shown, socketVars>>

\* The end of file taken for one more line.
PollEofUnchecked(c) ==                       \* faulty variant
    /\ cpc[c] = "poll"
    /\ typed' = [typed EXCEPT ![c] = "eof"]
    /\ cpc' = [cpc EXCEPT ![c] = "header"]
    /\ UNCHANGED <<sock, lines, shown, socketVars>>

\* End of file on standard input: getline_from_fd fails and the loop ends,
\* even if the socket has something to read.
PollEof(c) ==
    /\ cpc[c] = "poll"
    /\ Leave(c)
    /\ UNCHANGED <<lines, shown, listening, backlog, c2s, link, rst>>

\* Where the loop goes once the line is sent: the socket's part, when the
\* snapshot said so, else poll again.
LineSent(c) ==
    /\ cpc' = [cpc EXCEPT ![c] = IF sock[c] THEN "recv" ELSE "poll"]
    /\ typed' = [typed EXCEPT ![c] = "none"]
    /\ sock' = [sock EXCEPT ![c] = FALSE]
    /\ UNCHANGED <<lines, shown>>

\* write() of the length; the write of an empty payload after it does
\* nothing, so an empty line is sent with this step.
WriteHeader(c) ==
    /\ cpc[c] = "header"
    /\ link[c] = "open"
    /\ Len(c2s[c]) < SockBuf
    /\ c2s' = [c2s EXCEPT ![c] =
                 Append(@, [part |-> "len", empty |-> typed[c] = "empty"])]
    /\ IF typed[c] = "empty"
       THEN LineSent(c)
       ELSE cpc' = [cpc EXCEPT ![c] = "payload"]
            /\ UNCHANGED <<typed, sock, lines, shown>>
    /\ UNCHANGED <<listening, backlog, s2c, conn, link, rst>>

\* write() of the encrypted payload.
WritePayload(c) ==
    /\ cpc[c] = "payload"
    /\ link[c] = "open"
    /\ Len(c2s[c]) < SockBuf
    /\ LET body == [from |-> c, no |-> lines[c], enc |-> FALSE] IN
       c2s' = [c2s EXCEPT ![c] =
                 Append(@, [part |-> "data", body |-> Xcrypt(body)])]
    /\ LineSent(c)
    /\ UNCHANGED <<listening, backlog, s2c, conn, link, rst>>

\* A write whose bytes the kernel takes although the server's end is closed
\* (the reset is still on its way).
WriteLost(c) ==
    /\ cpc[c] \in {"header", "payload"}
    /\ link[c] = "closed"
    /\ IF cpc[c] = "header" /\ typed[c] = "line"
       THEN cpc' = [cpc EXCEPT ![c] = "payload"]
            /\ UNCHANGED <<typed, sock, lines, shown>>
       ELSE LineSent(c)
    /\ UNCHANGED socketVars

\* A write after the reset: an error or SIGPIPE; the process ends.
WriteFails(c) ==
    /\ cpc[c] \in {"header", "payload"}
    /\ link[c] = "closed"
    /\ Leave(c)
    /\ UNCHANGED <<lines, shown, listening, backlog, c2s, link, rst>>

\* The client is where it reads its socket.
AtSocketAfterLine(c) == cpc[c] = "recv"      \* faulty variant
AtSocket(c) == cpc[c] \in {"poll", "recv"}

\* A frame is read, decrypted and written to standard output as "#id> payload":
\* poll() returned with the socket alone, or the line that came with it has been
\* sent.
Receive(c) ==
    /\ AtSocket(c)
    /\ s2c[c] # <<>>
    /\ LET f == Head(s2c[c]) IN
       shown' = [shown EXCEPT ![c] =
                   Append(@, [id |-> f.id, body |-> Xcrypt(f.body)])]
    /\ s2c' = [s2c EXCEPT ![c] = Tail(@)]
    /\ cpc' = [cpc EXCEPT ![c] = "print"]
    /\ UNCHANGED <<typed, sock, lines, listening, backlog, c2s, conn, link,
                   rst>>

\* The write returns: a terminal that is stopped, or a pipe nobody reads, can
\* hold it up.
Printed(c) ==
    /\ cpc[c] = "print"
    /\ cpc' = [cpc EXCEPT ![c] = "poll"]
    /\ UNCHANGED <<typed, sock, lines, shown, socketVars>>

\* End of file from the server.
ReceiveEof(c) ==
    /\ AtSocket(c)
    /\ s2c[c] = <<>>
    /\ link[c] = "closed"
    /\ Leave(c)
    /\ UNCHANGED <<lines, shown, listening, backlog, c2s, link, rst>>

\* The process is killed (test_chat.sh ends its sessions this way).
Kill(c) ==
    /\ cpc[c] \notin {"start", "exit"}
    /\ Leave(c)
    /\ UNCHANGED <<lines, shown, listening, backlog, c2s, link, rst>>

\* What the program does without waiting for its user.
ClientStep(c) ==
    \/ WriteHeader(c)
    \/ WritePayload(c)
    \/ WriteLost(c)
    \/ WriteFails(c)
    \/ Receive(c)
    \/ ReceiveEof(c)

\* What its user and terminal, or whoever kills it, do.
UserStep(c) ==
    \/ Connect(c)
    \/ ConnectRefused(c)
    \/ \E kind \in {"line", "empty"} : PollLine(c, kind)
    \/ EndLine(c)
    \/ Printed(c)
    \/ PollEof(c)
    \/ Kill(c)
=============================================================================
