# Verification of the OS laboratory programs

This directory holds TLA+ models of the programs in `src/` (operating-system
laboratory exercises in C), the TLC configurations that check them on small
instances, and theorems about them checked by TLAPS.

The repository is a set of independent programs. Only two pieces of code are
shared: `helper/helper.c` (byte order, `read_exact`, `getline_from_fd`) and
`helper/vec.h`, `helper/vec.c` (a growing vector). The models therefore fall
into groups, one per program.

Run from this directory:

    tlc -workers 2 -config MCChatRoom.cfg MCChat
    tlapm ChatProofs.tla

## Inventory

| Program | State | Operations | Who interacts | What is hard |
|---|---|---|---|---|
| lab7 chat server `q_server.c` | descriptor table, vector of client numbers, client counter, position in the scan and in the broadcast | accept, read a length, read a payload, broadcast, drop a client | clients, through sockets; one thread, one poll loop | index arithmetic over two vectors that shrink during the scan, blocking calls in the only thread, half-sent messages, closed ends, resets, a table at its limit |
| lab7 chat client `q_client.c` | socket, snapshot of poll, line being sent | connect, send a line (two writes), show a frame, leave | the server and its user | the snapshot is old when used, reads of a line and writes that block, being killed between two writes |
| helper `getline_from_fd`, `read_exact`, byte order | a buffer that doubles; how much has been read | read a line; read so many bytes; convert | chat server and clients | growth at the limit, reads that return less, an end in the middle |
| helper `vec` | size, capacity, data | push back, delete, expand | the chat server | expansion at the limit |
| lab11 q2 threaded banker | available, allocation, need, mutex | request, isSafe, rollback, release | one thread per process | need is read outside the mutex, tentative state, rollback, safety kept by others' steps |
| lab11 q1 banker at the terminal | the same tables, copies of them | isSafe, request | one user | the same algorithm without threads |
| lab8 q1 bounded buffer | circular buffer, three semaphores | produce, consume | two threads | order of waits and posts, wrap-around |
| lab8 q2 readers and writers | two semaphores, `read_count`, `shared_data` | read, write | 5 readers, 2 writers | first in and last out, preference, overflow of the datum |
| lab8 q4 sleeping barber | three semaphores, `waiting_customers` | wait for work, call, sit, leave, close | barber, 15 customers, main | lost wake-ups, last chair, closing with the barber at work |
| lab8 q3 deadlock demonstration | two semaphores | lock both | two threads | deadlocks on purpose |
| lab6 q4 shelf | two named FIFOs, the count that goes round | add, take | two processes | opening order, ends, SIGPIPE, FIFOs removed under a newcomer |
| lab6 q1 pipes | two pipes, who has which end open | send, acknowledge | parent and child | ends inherited and not closed, a partner killed in the middle of a turn |
| lab6 q2 FIFO | a FIFO | write, read once | two threads | nothing the shelf does not have |
| lab10 q1 allocator | list of blocks | allocate, split, free, merge | none | long sequences of calls on a doubly linked list |
| lab10 q2 multilevel queue, q4 second chance, q3 segmentation | queues; page table and frames; segment table | schedule; access a page; translate | none | processes lost between queues; page table and frames that disagree |
| lab11 q3 disk scheduling, q4 block allocation | head, requests; blocks, files, spares | serve; allocate | none | the sentinel -1, a search that starts from INT_MAX; bad blocks, the spare pool, lengths of zero and less |
| lab9 q1-q4 | a result structure | compute in a child thread | main and one or two threads that write nothing in common | overflow and empty input |
| lab4, lab5, lab12, lab2, lab3 | none that outlives a call | copy, search, page, fork, list | the kernel | nothing a model checker reaches |
| `aes-c` (submodule), `lab7/dbg.h` | | | | third-party |

What makes each modelled program correct:

- *chat*: everybody is shown the lines of the others from their joining on, in
  one order, once each, in clear, never their own; the table of descriptors
  stays consistent; a message bears the number of its sender (it does not, see
  below); the chat goes on whoever leaves, is killed or is slow (it does not when
  somebody never goes on with a line, see below).
- *banker*: no instance of a resource is lost or made, every granted state is
  safe, a refusal leaves no trace, no safe request is called unsafe, everybody
  ends.
- *bounded buffer*: it is a first-in first-out queue of at most 10 items.
- *readers and writers*: exclusion, the preference of readers, no lost update,
  no deadlock.
- *barber*: no lost wake-up, nobody turned away from a free chair, everybody
  leaves. One customer in the chair at a time and an orderly end, which the
  program's comments speak of, do not hold.
- *shelf*: a producer and a consumer that meet pass counts for ever, the end of
  one ends the other, nothing is counted twice after a restart.
- *allocator*: the list covers the memory in order, linked both ways, without
  two free neighbours; a request fails only if it fits nowhere.
- *pipes*: the two stay in step, and neither waits for ever for a partner who
  is gone; *deadlock demonstration*: it ends or is in the circular wait.
- *helpers*: what arrives are the lines that were typed, whatever pieces the
  bytes come in, and no more than what arrived as a whole.
- *simulators*: second chance is a queue with a bit a page; every process
  finishes when the definition of the multilevel queue says; the nearest request
  is served next; files lie apart from each other and from bad blocks; no two
  logical addresses are one physical address.

## Modules

| Module | Models | Kind |
|---|---|---|
| `ChatSockets` | what connect, accept, read, writev, close and a reset do to a connection | external |
| `ChatServer` | `q_server.c` and the vector | component |
| `ChatClient` | `q_client.c` | component |
| `Chat` | server, clients and connections together; the properties | composition |
| `ChatRoom` | the promise of the chat | abstract specification |
| `MCChat` | symmetry for TLC | model checking |
| `ChatProofs` | theorems about the two vectors of the server and the framing of the streams; the chat implements the room | proofs |
| `Wire` | `getline_from_fd`, `read_exact`, the byte order, and the loops of client and server around them, to the byte | algorithm |
| `Bank`, `MCBank` | `lab11/q2.c`; claims of three processes | component, model checking |
| `TerminalBanker` | `lab11/q1.c` | algorithm |
| `BothBankers` | the second on the tables of the first | composition |
| `BankProofs` | theorems about the tables; the banker's promise; the terminal's verdicts | proofs |
| `BoundedQueue` | a bounded queue | abstract specification |
| `BoundedBuffer`, `BoundedBufferProofs` | `lab8/q1.c`; it implements the queue | component, proofs |
| `ReadersWriters`, `ReadersWritersProofs` | `lab8/q2.c`; its safety | component, proofs |
| `SleepingBarber`, `SleepingBarberProofs` | `lab8/q4.c`; its safety | component, proofs |
| `DeadlockDemo` | `lab8/q3.c` | component |
| `Pipes`, `PipesProofs` | `lab6/q1_producer-consumer.c`; it stays in step | component, proofs |
| `MCTwoProcesses` | `Pipes` and `DeadlockDemo` side by side | model checking |
| `Shelf`, `ShelfProofs` | `lab6/q4_shelf-producer.c`, `q4_shelf-consumer.c` and the FIFOs between them; the counts in flight | component, proofs |
| `Arena` | first fit in a memory | abstract specification |
| `Allocator` | `lab10/q1.c` | component |
| `SecondChance`, `MultilevelQueue`, `Segmentation` | `lab10/q4.c`, `q2.c`, `q3.c` | algorithms |
| `DiskScheduling`, `BlockAllocation` | `lab11/q3.c`, `q4.c` | algorithms |
| `ChildThreads` | the child threads of `lab9` | algorithms |
| `MCSimulators` | the allocator through all calls, the algorithms on all inputs up to a length; their properties | model checking |
| `SimulatorsProofs` | the allocator implements the arena; each algorithm meets its reference on every input | proofs |

A faulty twin before a definition (`VecDeleteSwap` before `VecDelete`, marked
*faulty variant*) is not part of a specification: it is a
plausible bug, put in place of its neighbour to see that a property notices.

### Chat

`Chat` composes three sets of variables. `ChatSockets` owns the connections;
`ChatServer` and `ChatClient` each own their program's variables, and their
actions change the sockets too. `Next` is a step of the server, of one client
program, or of one user (who begins a line and ends it, ends the input, takes what
is shown, or kills the client).

A step ends where the program may block or where another process can see what
it did, so every interleaving that matters is there: between the length and
the payload of a message, between two recipients of a broadcast, between
taking the poll snapshot and using it.

| Code | Model |
|---|---|
| `vec` of `struct pollfd` in `main` | `pollfds`: sequence of descriptor and revents, 1-based |
| `client_ids_vec`, `client_count` | `client_ids`, `client_count` |
| `i` in `main`, `j` in `read_from_client` | `i`, `j` |
| `accept_new_connection` | `AcceptNewConnection`, or `AcceptOverflow` when a vector must grow |
| `read_from_client` | `ReadHeader`, `ReadEmptyLine`, `ReadEof`, `ReadBody`, then `Writev`, `WritevGone` or `WritevSigpipe` for each recipient, `BroadcastDone` |
| the poll loop of `q_client.c` | `PollLine` and `EndLine`, `PollEof`, `WriteHeader`, `WritePayload`, `Receive` and `Printed`, `ReceiveEof`, `WriteLost`, `WriteFails` |
| `kill` in `test_chat.sh` | `Kill` |

Poll returns with the first byte of a line, and `getline_from_fd` then reads until
the line ends. In between the client is at `line` and does not read its socket;
`EndLine` is the user's step. So is `Printed`: the write to standard output, at
`print`, returns when the terminal or the pipe behind it takes the text.

Data is abstracted: a payload is its author, its number and whether it is
encrypted; a length says only whether it is zero. A unit of a stream is what
one write puts there. TCP is reliable and ordered, and a write to a closed end is
first swallowed, later answered with a reset.

`Wire` takes the units apart: `GetlineFromFd` reads a text byte by byte into a
buffer that doubles, `SendLine` writes length and payload, `ReadExact` collects
them from reads of any size, and `ReceiveFrame` is the server's part of
`read_from_client`. `LinesArrive` says what lets `Chat` treat a line, a length and
a payload as one thing each: the server gets whole messages or none, wherever the
stream is cut.

History variables (`log`, `joinAt`, `number`) record what was read, when each
client joined and the number announced for it. No action depends on them.

### Bank

One thread per process. `Pick` chooses a request within the thread's `need`
without the mutex, as `process_thread` does; `Deny` and `Try` are the two
outcomes of the checks in `request_resources`; `VisitFinish`, `VisitSkip` and
`NextPass` are the inner loop of `isSafe`, one process at a time, so that the
other threads' steps outside the mutex fall between them; `Grant` and
`Rollback` are its two answers; `Release` is `release_resources`. The updates
made with the mutex held are one step, as no other thread reads `available` or
`allocation` without it, and no thread writes the `need` of another.

### Semaphore programs

`BoundedBuffer`, `ReadersWriters` and `SleepingBarber` have one action per
`sem_wait` or `sem_post` and one per access under a semaphore. A semaphore is
its value; `sem_wait` waits for it to be positive and takes one; which of the
waiting threads gets it is left open. `main` appears where it matters: it joins
(`Joined`), and in the barber it cancels and destroys.

In `ReadersWriters` an int has `IntSize` values and wraps; `shared_data *= 2` is
a load and a store, so that a second writer inside would lose an update.

`DeadlockDemo` is the program that is meant to hang: `LockFirst`, `LockSecond`,
`UnlockSecond`, `UnlockFirst` for each thread, and `Join`.

### Pipes

`Pipes` starts after the fork, when both processes have all four ends. `open`
says who has which end; a read of an empty pipe waits while anybody, the reader
itself included, could write, and ends otherwise (`ReadEnd`, `ReadAckEnd`); a
write without a reader raises SIGPIPE (`WriteBroken`, `ReplyBroken`). `perrf` after
an end of file ends the process. `Kill` may come before any call.

### Shelf

Every system call of the two programs is a step, of whichever process is at it.
`fifo` is the directory: which FIFO has a name. A FIFO lives on without its
name while somebody holds it, and another one may get the name, so a FIFO is
identified by the producer that made it (a producer makes each name at most
once). `fd` says who holds which FIFO; readers and writers follow from it. An
open waits for the other end (`wait1`, `wait2`) and lets those go on who wait
for it, as fifo(7) describes; what is in a FIFO is lost when its last end is
closed. The check of the shelf and the write that follows are in `Add`, `Take`
and `Write`.

Any number of producers and consumers may be started and killed: the FIFOs have
fixed names in `/tmp`, so a restarted program meets what the earlier left.

### Allocator and simulators

`Allocator` has one action for each outcome of a call. The offset of a block
never changes and identifies it, so pointers are offsets; `MemChk` walks `next`
from the head, and `MemSplit` and `Swallow` make the assignments of the code in
its order. Size 0 is left out. `answer` is the offset the program prints.

The other sequential programs are functions of their input, as operators: a loop
is a recursive function of the number of turns, up to as many as it can take, with
turns that change nothing once it is over; a search loop is the least (or last)
element that it stops at.
Integers wrap where they can overflow. The reference definitions are of another
shape than the code:

| Module | Code | Reference |
|---|---|---|
| `TerminalBanker` | passes of `isSafe`, copies of the tables | in every group of processes one can finish first |
| `SecondChance` | frames, pointer, page table | a queue of pages with a bit each |
| `MultilevelQueue` | two round-robin queues and one of the rest | finishing times as a sum |
| `DiskScheduling` | `min_diff`, `req_copy` with its mark -1 | the order of service, each the nearest of those waiting |
| `BlockAllocation` | the map of the disk, the spare pool | the lowest place apart from bad blocks and files |
| `Wire` | bytes read one by one and in pieces | the lines by the places where they end, counted |
| `ChildThreads` | the loops of the children | divisors and the numbers of a range, each term one more than the sum of all but the one before it, closed forms |
| `Segmentation` | `translate_address` | no address twice |

`MCSimulators` types the inputs one element a step, so that a state is a program
and an input, and every prefix is an input too.

## Runs

| Run | Config | States | Shows |
|---|---|---|---|
| `chat_room` | `MCChatRoom.cfg` | 1.47 million | the chat implements the room; framing; bounds on wrong labels; the only way to drop a live client |
| `chat_full` | `MCChatFull.cfg` | 132 000 | table and numbers through every deletion; when the server aborts |
| `chat_live` | `MCChatLive.cfg` | 48 000 | showing lines, noticing connections and departures; the programs stall only mutually, and otherwise only a user can hold the chat up |
| `chat_label` | `MCChatLabel.cfg` | | a line under another client's number (violation) |
| `bank` | `MCBank.cfg` | 124 000 | accounts, conservation, safety, right verdicts, termination |
| `buffer` | `MCBoundedBuffer.cfg` | 3 000 | the buffer implements the queue, with fairness |
| `readers_writers` | `MCReadersWriters.cfg` | 12 000 | exclusion, preference, no lost update, progress |
| `barber` | `MCSleepingBarber.cfg` | 27 000 | no lost wake-up, fair use of chairs, everybody leaves |
| `shelf` | `MCShelf.cfg` | 80 000 | who meets keeps going, the end of one side ends the other, what is in flight |
| `shelf_orphan` | `MCShelfOrphan.cfg` | | a producer waits at a FIFO that has been removed (violation) |
| `two_processes` | `MCTwoProcesses.cfg` | 1 900 | producer and consumer stay in step through kills and both end; the demonstration ends or is in the circular wait |
| `simulators` | `MCSimulators.cfg` | 603 000 | the allocator implements the arena; the sequential programs against their reference definitions |

The run `bank` also checks the banker at the terminal: on the tables of each
state, tentative unsafe ones included, its functions answer by the definition of
safety (`TerminalRight`).

The type invariants of the bank, the buffer, the readers and writers and the
barber are proved for all instances and appear in no run.

### Bounds, and why they are enough

- `chat_room`: three clients, because a wrong label needs a sender, somebody
  older or younger whose number is taken, and a reader. Three lines let one
  client fall behind while two others talk. `SockBuf` 1 blocks every second
  write. `Capacity` 4 holds all three.
- `chat_full`: two listeners, since the wrong index is off by the number of
  listeners and with one listener a deletion is off by just one; four clients
  and room for three, so that the table is filled, emptied and filled again.
- `chat_live`: two clients and buffers of one unit, where every kind of
  blocking, the mutual one and the ones at a user included, is reached with three
  lines. One user who holds up what two others say to each other takes a third
  client: with two, the premise `[]<>~HeldUp` is needed for the departures in
  `ServerNotices` only.
- `MaxLines` bounds all lines typed together and each client connects once:
  the runs end, and so do the histories.
- `bank`: three processes whose claims overlap so that unsafe states are
  reachable, two resources so that no single order suits both, two rounds (a
  third adds states of the same kind).
- `buffer`: the program's own constants.
- `readers_writers`: the program's own threads; ints of 16
  values instead of 2^32, so that the datum overflows.
- `barber`: two chairs and five customers, so that the room is full, somebody
  is turned away and it fills again.
- `shelf`: two of each, so that a count has two ways to go, a producer can be
  started while another cleans up, and a consumer replaced before its end is
  noticed; two kills end both of a kind.
- `two_processes`: the four numbers of the program; the demonstration has no
  constants.
- `simulators`, allocator: nine cells hold four blocks with gaps between them,
  requests of every size, any order of calls; the state space is complete.
- `simulators`, paging and scheduling: three frames as in the program, five pages,
  eight accesses: three to fill the frames, three to set every bit, a fault that
  goes all the way round, and one after it. Five processes with bursts below, at
  and above 4 and 12, where the slices end.
- `simulators`, disk: an int of 16 values (`DiskMax` 7), so that a request can be
  the largest int away and totals overflow; five requests, among them the mark
  -1. Three blocks of which any may be bad and a block number there is not; four
  files, one more than `file_table` has entries, of any length from -1 to more than
  the disk.
- `simulators`, wire: seven bytes of two values, one of them the newline, and a
  first buffer of two: lines without a byte, without a newline, and as long as
  the buffer, twice and four times as long; the stream cut at every byte, read in
  pieces of one and three.
- `simulators`, threads: eight-bit integers, where the squares next to the
  largest can be listed; pairs of numbers of both signs for the two sums, which are
  also the two ends of a range, the largest integer among them.

### Fairness

Each thread or process is weakly fair: the scheduler runs what can run. Users
are not fair: nobody has to type, to end a line or to read a terminal. The
properties of the chat name what they need of users as a premise: that a client is
not in the middle of a line or of its output for ever (`[]<>~AwaitsUser(c)`), or that
the server is not held up by such a client for ever (`[]<>~HeldUp`). Without the
premise each of them fails. Semaphores and the mutex are not fair either,
as neither POSIX nor glibc promises it: properties say that *somebody* comes to read
or has written, infinitely many times (`SomebodyWorks`; that somebody *is* reading
would hold in a deadlock too), that a bounded number of threads all end
(`AllFinish`, the fairness in `QueueSpec`, `AllCustomersLeave`), and nothing about one
thread among infinitely busy ones. In the chat one process serves everybody,
and weak fairness of the server and of the running clients suffices. In the
shelf and over the pipes every process that can go on does; starting and killing
are the user's and not fair, and which of two readers gets a count is left open, so `KeepsGoing`
speaks of counts going round and not of one process. In the demonstration
both threads and `main` are weakly fair, and what stops them is the circular wait
alone (`EndsOrDeadlocks`).

### Findings

- `LabelIsNumber` fails: `client_ids_vec` is deleted from at an index that
  counts the listeners (`q_server.c:88`, `104`). What does hold is proved: a
  label is never the number of a client younger than the sender, and a client
  none of whose elders has left is labelled rightly.
- The vector's growth passes the address of the data field to `realloc`
  (`vec.c:5`) and the allocator aborts the server; because of the same wrong
  index this needs as many connections over the server's life as the table
  has places, not as many at once.
- An empty line has its sender disconnected (`q_server.c:98`).
- Server and client can wait for each other in writes for ever. A client in the
  middle of a line, or whose output is stopped, stalls the server and with it
  everybody once its buffer is full, until its user goes on. `StallIsMutual` says that
  nothing else does.
- A producer of the shelf removes the FIFOs on its way out whoever else has found
  them (`WaitsAtTheName` fails), and a consumer killed with the count in hand and
  replaced in time leaves both sides reading for ever: the two exceptions of
  `KeepsGoing`.
- The shelf is never full for the producer nor empty for the consumer, however
  slow the consumer is (`ShelfCounts`).
- No file is ever put on a bad block, so the remapping to spare blocks
  (`lab11/q4.c:82`) cannot happen, and a file that would fit with it is refused
  (`BlocksRight`).
- A series of no numbers makes `lab9/q1.c` read through a null pointer
  (`ThreadsRight`).
- Boundaries the properties name rather than exclude: `sstf` never serves a
  request at cylinder -1 or one INT_MAX away (`DiskRight`); `file_table` can
  overflow if lengths of zero or less are typed (`BlocksRight`); `is_prime` is
  right as long as the next square fits into an int, and the loops of
  `lab9/q3.c:39` and `lab9/q2.c:24` never end when they run up to the largest integer
  (`ThreadsRight`).
- Seen in the model of the barber and not checked as properties: he does not wait
  for his customer, so two can have begun their haircuts, and he is cancelled but
  not joined before the semaphores are destroyed (`q4.c:8`, `132`).

## Proofs

All theorems hold for every value of the constants under the assumptions named
in the modules (`NumListeners` positive, `Capacity` at least `NumListeners`,
finitely many clients, none of them a listener; finite non-negative claims; positive
sizes of buffer, shelf, memory and series; finite sets of threads and processes; an
int of more than one value; a positive number of frames; blocks and spares counted by
natural numbers; cylinders that are integers; slices and bursts that are not empty;
a first line buffer that is not empty, a newline that is a byte, and a text whose
length four bytes can count; a null pointer that is not a series). The sets are
finite because processes and threads are started one by one, and sums and counts
over them need it. The bounds on the number of references, processes, requests, files,
lines and calls are constants too, so a theorem about `MCSpec` is about input of any
length. A leaf that
cites `SMTT` or `ZenonT` is one that the prover takes a few seconds for.

### `ChatProofs`

`Inductive` proves `Spec => []IInv`. None of the properties is inductive by
itself: that the table holds each connection once needs to know that queued
connections are not in the table yet, that the index of a broadcast or of the
scan points into the table (and at a client) in every place of the server, and
how the vector of numbers relates to the table. `IInv` therefore has the types
of the vectors (`VecTypes`), the queues of the listeners (`BacklogInv`), the
table and the position of the scan (`TableInv`), the numbers (`IdsInv`: they
increase along their vector, the k-th is at least k, and the vector is at least
as long as the clients) and the count of connections (`AbortInv`). From it
follow `TableIsRight`, `IdsCover`, `LabelsNeverNewer`, `PrefixIsRight` and
`AbortIsLate`. The lemma `RemoveAtShifts` says what a deletion does to a vector.

`StreamsFramed` is about what server and client know of each other through a
stream. `WellFramed` alone is not inductive: that a unit written fits behind the
last needs to know where its writer is. `Framing` adds that a client still
connected is about to write a payload exactly when its last length promised one
(`Due`), that a closed stream is empty, and that the server awaits a payload
(`Awaited`) of a client in its table only. The lemmas `AppendFramed` and
`TailFramed` say what writing and reading a unit do to a framed stream.

`ChatIsRoom` proves that the composed programs implement `ChatRoom`: accepting a
connection is `Join`, reading a payload that is broadcast is `Post`, a client's
showing a frame is `Show`, and every other step stutters. A join and a post match
at once; that what a client shows next is what the room shows it next is the
hard part, and needs to know of every frame on its way. `RoomInv`, which
`RoomInductive` proves, adds two parts to `IInv` and `Framing`.

- `Posts`: every line is numbered by its author, and each author's lines are read
  in the order they were typed. A payload in a stream or in the log was typed by the
  client it comes from, later ones in a stream have larger numbers, and all in the
  stream are larger than those in the log (`PostsInOrder`). Hence no line is
  in the log twice.
- `Deliveries`: what a client was sent (`Received`: shown, and on its way) is a
  beginning of what it is owed (`Owed`), clear of its own lines; for a client that
  is connected it is all of it, but for the line being broadcast while the index
  `j` has not passed the client's place.

What a client is owed is the log filtered by author and by the time of joining.
The model defines it by ranks: a line's place in `Owed` is how many of the lines
kept come before it (`Place`, a cardinality). The lemmas about it say that a line of
somebody else appends itself to what everybody else is owed, that one's own line
changes nothing for oneself, and that a newcomer is owed nothing yet; everything
else in the proof only appends to a sequence or moves its head to another.

`NothingLost` follows from `RoomInv`, and so does `TypesHold` but for three variables
whose types each step keeps. `OnlyEmptyLinesDrop` follows step
by step: the server drops the client it reads from at an end, which a connected
client's stream does not have, or at a length of zero, and the one it writes to only
when the other end is closed.

### `BankProofs`

`TypeCorrect` and `AccountsRight`. That nothing becomes negative follows from
the accounts: what is subtracted is the request, and a request is below `need`
when it is chosen, below `available` when it is tried, and part of `allocation`
when it is returned. Nobody else writes a thread's `need` in between.

`ConservationHolds`, `BankerPromise` and `NoSafeRollback`. The argument for
safety: while a request is tried, the state before it was safe or nobody held
anything; `isSafe` finishes threads in an order that witnesses safety of what it
has scanned (`VisitSafe`), so a verdict *safe* is right (`GrantSafe`) and a verdict
*unsafe* comes with a group none of which can finish (`RollbackSafe`); what
others give back only helps (`GivenBackSafe`), and rolling back restores the tables
from before. `SafetyInv` has these parts. Sums over the threads are a recursive
function in the model; what is needed of them (`TotalPlus`, `TotalOne`,
`TotalZero`, `TotalNat`) is proved from the least number at which a statement
fails (`LeastNumber`), which follows from the inclusion of finite sets being
well-founded; induction theorems are not needed.

`TerminalIsRight` is about the banker at the terminal, whose `isSafe` makes passes
over all processes instead of visiting them in turn. Its loops are recursive functions
of the number of turns, and what holds after each turn (`GoodScan`) is that `work` is
what is available and what the finished ones hold, and that nobody has been
finished out of a group none of which can finish first. A pass that finishes nobody
leaves such a group behind; one that finishes somebody leaves fewer, so as many
passes as there are processes are enough.

### `BoundedBufferProofs`

The semaphores satisfy linear equations in the places of the threads
(`Semaphores`), which bound how far the threads are apart; the slots from `out`
on hold consecutive numbers (`Contents`). The remainder in the code is replaced
by a comparison once (`NextSlotRound`). `ImplementsQueue` maps `ProducePut` to
a put, `ConsumeGet` to a get and all else to stuttering.

### `ReadersWritersProofs` and `SleepingBarberProofs`

Both count threads at their places. Readers and writers: `read_count` is the
number of readers past the counting (`CountInv`), `mutex` is held by one reader
(`MutexInv`), the reader that asks for `wrt` is the only one counted and behind the
one that posts it there is none (`FirstLastInv`), and `wrt` is free, or the readers'
as a group, or one writer's (`WrtInv`). From these follow `ExclusionHolds`,
`ReadersFirst` and `NoWriteLost`. Barber: `SeatsAccounted` is inductive together
with who holds `mutex`; the lemma `CountMoves` says what one customer's step does
to the number at any set of places. `TurnedAwayRight` is an action property: who is
turned away found every chair taken by somebody not yet called.

### `PipesProofs`

`StaysInStep`, for any number of items: the lengths of the pipes and of what has
been shown are the differences of the two loop variables and the places of the
processes (`Counts`), which leaves room for one message at most (`Room`).

### `ShelfProofs`

`CountsHold` and `TypesHold`, for any number of producers and consumers started and
killed at any point. `TypeOK` says what a process at each place has open (`Fits`).
`ShelfCounts` is not inductive by itself: that a full shelf travels to the consumers
and one less comes back needs to know what a process has in hand before it writes
(`Values`). The number of counts in flight is the number of places in the FIFOs that
are filled (`InFifos`) and of processes between reading and writing (`InHand`); it
is at most the number of producers that have sent. Reading takes a place and
fills a hand (`ReadKeeps`), writing does the reverse or is a producer's first
(`WriteKeeps`), and all else, the loss of a FIFO with its last end included, only
takes counts away (`CountsShrink`).

### `SimulatorsProofs`

The allocator first.

`ListInOrder` and `ImplementsArena`, for any memory size and any sequence of calls.
The inductive invariant says that the blocks tile the memory (`Tiles`: each ends
where the next begins, linked both ways, from 0 to `Size`) and that no two free
ones meet (`Apart`). `SplitTiles`, `MarkTiles` and `SwallowTiles` say what the three
changes of the code do to a tiling, `MergeTiles` what `memMerge` does. That the walk
of `memChk` stops at the first block that fits (`FirstFit`) is proved by the least
offset at which it could have gone wrong. `Covered` (every cell lies in a block),
`Room` and `LowestPlace` connect the list with the arena's set of intervals: a place
in the arena begins in a free block that is large enough, since no two free blocks
meet, so the first such block is the lowest place.

The other programs end with their input, so a theorem about them says of each input
that the function which models the code agrees with a definition of another shape.
The induction this needs is over the turns of a loop, and no theorem with an
operator for a parameter is used for it: a set that has 0 and with each turn the
next has all turns (`AfterEachTurn`, from `LeastNumber`), and a recursive function
of the number of turns exists (`TurnsExist`). A loop is then described by what
holds after each turn.

- `SecondChanceIsQueue`: `Holds` relates the frames, read from the pointer on, and
  the page table to the queue. The search for a victim clears bits in the code and
  moves pages to the tail in the reference: `Rotation` says how far both are after
  so many steps, and `SideBySide` that one access of each keeps `Holds`.
- `SegmentsNeverMeet`: the segments lie apart (`TranslateApart`) and an offset is
  below the limit of its segment.
- `FilesApart`: `SameMap` says that the map of the disk marks the bad blocks and
  those of the files (`Belongs`) and no others. A place in the reference is a
  place in the map, and the search finds the lowest.
- `DiskServesNearest`: after each turn of `sstf` (`Tour`) the requests served are
  those struck out in the copy (`Struck`), and each was the first of the nearest
  (`Nearby`, `NearestIs`). The search begins at `INT_MAX`, so what is exactly that
  far is never taken, and the mark -1 never is; as there are as many turns as
  requests, nothing else is left (`NoneLeft`). Totals are kept up to multiples of
  the width of an int.
- `NobodyLost`: `Reached` describes the queues in the middle of a level: each holds
  the processes that belong there in the order they came (`InOrder`), each with
  what is left of its burst, and the clock shows the sum of what has run. Every turn
  serves somebody and the number of turns needed is bounded (`TurnsBy`).
- `ChildrenRight`: integers that wrap are compared up to multiples of the width
  (`Same`), which sums and products respect. That a term of the series is one more than
  the sum of all but the one before it passes from one term to the next
  (`SeriesSums`); a loop is past its end after some turn exactly if its end is not
  the largest integer (`LoopEndIs`), and the turns before are the range (`RangeIs`);
  a search for a divisor stops at the first square that is too large or at the
  first divisor (`Stops`), and squares that fit do not wrap; the two halves of the
  sum share no element and leave none out (`HalvesAre`).
- `LinesGetThrough`: on the server's side, four digits give back the length
  (`DigitsAre`), `read_exact` returns what is asked or all there is, whatever
  portions it comes in (`ReadIs`, for reads of any sizes), and the server is at one
  of the places where a message begins (`At`): it takes a message that is there
  as a whole (`WholeFrame`) or stops (`PartFrame`). On the client's side the lines
  of a text are told by how many have ended up to a place (`Count`, `EndsFollow`),
  `getline_from_fd` takes one of them and stores no byte outside its buffer
  (`GetlineIs`: the line is shorter than the buffer after each byte), and what is
  sent carries each line where the sizes of those before it say (`Carries`). The
  lines are then those that lie within the cut (`ReceiveIs`).

### Only model-checked

Liveness, and refinement under fairness (`QueueSpec` as a whole; its initial state
and steps are proved), are out of the prover's reach, as is `ENABLED`: they stay
with TLC. Every safety property that a passing run checks is proved.

## Not modelled

- Running out of memory, failing system calls other than those named, more than one
  connection per client process, signals other than SIGPIPE and a kill. Among them
  a failing read in `lab6/q1_producer-consumer.c:27`, where -1 compares as larger
  than the size of the buffer.
- `lab6/q2_pipe-demo.c`: one write and one read over a FIFO whose two ends are
  opened by two threads of one process. Nothing there that `Shelf` does not have,
  but for a run that is killed before `unlink`: the next one ends in `mkfifo`.
- `lab4`, `lab5`, `lab12`, `lab2`, `lab3`: straight-line programs and shell commands
  over system calls (copy, search and page a file, fork and wait, list a directory).
  No state outlives a call, and what they print is the kernel's answer.
- `lab7/dbg.h` and the `aes-c` submodule: third-party. Encryption is one bit of a
  payload in `Chat`, and an involution on bytes in `Wire`.

## Plan

Done: chat, bank, bounded buffer, readers and writers, barber, shelf, allocator,
the pipes, the deadlock demonstration, the helpers to the byte, and every
simulator; all the safety that the passing runs check proved, and the chat, the buffer
and the allocator proved to implement the room, the queue and the arena.

What is left: the refinement of the chat's units by the bytes of `Wire` within the
composed chat. `LinesGetThrough` is about one stream by itself, cut at any byte and
read in one go; the composed chat has many, read while they are written.
