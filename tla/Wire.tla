-------------------------------- MODULE Wire --------------------------------
(***************************************************************************)
(* The chat of src/lab7 down to the byte, from a client's standard input   *)
(* to the server, with the functions of src/helper/helper.c that both use: *)
(* what ChatSockets calls a unit is put together and taken apart here.     *)
(***************************************************************************)
EXTENDS Integers, Sequences, FiniteSetsExt

CONSTANTS
    BYTE,              \* how many values a byte has, 256
    NewLine,           \* one of them
    INITIAL_BUF_SIZE   \* 128 in getline_from_fd

\* AES in counter mode: as long as what it is given, and its own inverse.
Xcrypt(bytes) == [k \in DOMAIN bytes |-> BYTE - 1 - bytes[k]]

\* Unsigned integers of four bytes, highest first.
U32ToBe32(x) ==
    << (x \div (BYTE * BYTE * BYTE)) % BYTE, (x \div (BYTE * BYTE)) % BYTE, (x \div BYTE) % BYTE,
       x % BYTE >>
Be32ToU32(b) == b[1] * (BYTE * BYTE * BYTE) + b[2] * (BYTE * BYTE) + b[3] * BYTE + b[4]

-----------------------------------------------------------------------------
\* getline_from_fd on the bytes that come before the end of the file.  A buffer
\* of n bytes holds line and has room for a zero behind it; inside says whether
\* every store fell into the buffer.
StoreChar(b, c) ==
    LET n == IF Len(b.line) >= b.n - 1 THEN b.n * 2 ELSE b.n
    IN  [n |-> n, line |-> Append(b.line, c), inside |-> b.inside /\ Len(b.line) < n]

\* A result without a line stands for -1: the file is at its end.
GetlineFromFd(text) ==
    LET taken == Min({p \in DOMAIN text : text[p] = NewLine} \cup {Len(text)})
        buffer[i \in 0..taken] ==
          IF i = 0 THEN [n |-> INITIAL_BUF_SIZE, line |-> <<>>, inside |-> TRUE]
          ELSE StoreChar(buffer[i - 1], text[i])
        b == buffer[taken]
    IN  [line |-> b.line,
         inside |-> b.inside /\ Len(b.line) < b.n,
         rest |-> SubSeq(text, taken + 1, Len(text))]

\* The client sends each line without its newline, length first.
SendLine(line) ==
    LET size == IF line[Len(line)] = NewLine THEN Len(line) - 1 ELSE Len(line)
    IN  U32ToBe32(size) \o Xcrypt(SubSeq(line, 1, size))

\* Its loop over the lines of the input, one a turn.
TypeLine(s) ==
    LET got == GetlineFromFd(s.text) IN
    IF got.line = <<>> THEN s
    ELSE [text |-> got.rest, sent |-> s.sent \o SendLine(got.line),
          inside |-> s.inside /\ got.inside]

Send(text) ==
    LET after[turn \in 0..Len(text)] ==
          IF turn = 0 THEN [text |-> text, sent |-> <<>>, inside |-> TRUE]
          ELSE TypeLine(after[turn - 1])
    IN  after[Len(text)]

-----------------------------------------------------------------------------
\* read_exact: the k-th read returns at most pace[k] bytes, and behind the last
\* byte of the stream there is the end of file or, after a reset, an error.
ReadExactOver(stream, count, pace, reset) ==  \* faulty variant: asks for count each time
    LET read(n, most) == IF n < count THEN n + Min({most, count, Len(stream) - n}) ELSE n
        total_read[k \in 0..Len(pace)] == IF k = 0 THEN 0 ELSE read(total_read[k - 1], pace[k])
        n == total_read[Len(pace)]
    IN  [n |-> IF n < count /\ reset THEN -1 ELSE n, bytes |-> SubSeq(stream, 1, n)]
ReadExact(stream, count, pace, reset) ==
    LET read(n, most) == n + Min({most, count - n, Len(stream) - n})
        total_read[k \in 0..Len(pace)] == IF k = 0 THEN 0 ELSE read(total_read[k - 1], pace[k])
        n == total_read[Len(pace)]
    IN  [n |-> IF n < count /\ reset THEN -1 ELSE n, bytes |-> SubSeq(stream, 1, n)]

\* One message as the server reads it; one without a byte disconnects its sender
\* like an end of file.
ReceiveFrame(s, pace, reset) ==
    LET header == ReadExact(s.stream, 4, pace, reset)
        after == SubSeq(s.stream, header.n + 1, Len(s.stream))
        msg_len == Be32ToU32(header.bytes)
        body == ReadExact(after, msg_len, pace, reset)
    IN  IF header.n < 4 \/ body.n <= 0 \/ body.n < msg_len
        THEN [s EXCEPT !.stream = <<>>]       \* disconnected
        ELSE [stream |-> SubSeq(after, msg_len + 1, Len(after)),
              messages |-> Append(s.messages, Xcrypt(body.bytes))]

\* A message takes more than four bytes.
Receive(stream, pace, reset) ==
    LET after[turn \in 0 .. Len(stream) \div 5 + 1] ==
          IF turn = 0 THEN [stream |-> stream, messages |-> <<>>]
          ELSE ReceiveFrame(after[turn - 1], pace, reset)
    IN  after[Len(stream) \div 5 + 1]

-----------------------------------------------------------------------------
\* Reference definition: the lines of a text by the places where they end.  The
\* k-th ends at the k-th of them.
Ends(text) == {p \in DOMAIN text : text[p] = NewLine \/ p = Len(text)}

Bodies(text) ==
    LET end(k) == CHOOSE p \in Ends(text) : Cardinality({e \in Ends(text) : e <= p}) = k
        from(k) == IF k = 1 THEN 1 ELSE end(k - 1) + 1
        to(k) == IF text[end(k)] = NewLine THEN end(k) - 1 ELSE end(k)
    IN  [k \in 1..Cardinality(Ends(text)) |-> SubSeq(text, from(k), to(k))]

\* The bytes that the first k of them are sent in.
Sizes(bodies) ==
    LET size[k \in 0..Len(bodies)] == IF k = 0 THEN 0 ELSE size[k - 1] + 4 + Len(bodies[k])
    IN  size
=============================================================================
