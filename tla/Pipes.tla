-------------------------------- MODULE Pipes --------------------------------
(***************************************************************************)
(* src/lab6/q1: a producer (the parent) sends numbers through one pipe to  *)
(* a consumer (the child) and waits for an acknowledgement of each in      *)
(* another.  A pipe ends when its last writing end is closed, and breaks   *)
(* when its last reading end is: so it matters who closes which end.       *)
(*                                                                         *)
(* One action per system call, from the fork on; a[i] is known by its      *)
(* index.  Either process may be killed between any two calls.             *)
(***************************************************************************)
EXTENDS Naturals, Sequences

CONSTANT Count  \* how many numbers there are, 4 in main

ASSUME CountAssumption == Count \in Nat \ {0}

VARIABLES
    data, ack,  \* what is in data_pipe and in ack_pipe
    open,       \* open[p]: the ends that process p has open
    pc, i,      \* pc[p] and i[p]: where process p is, and its loop variable
    shown       \* the numbers the consumer has printed

vars == <<data, ack, open, pc, i, shown>>

Processes == {"producer", "consumer"}
Ends == {"data_r", "data_w", "ack_r", "ack_w"}

Init ==
    /\ data = <<>> /\ ack = <<>>
    /\ open = [p \in Processes |-> Ends]
    /\ pc = [p \in Processes |-> "forked"]
    /\ i = [p \in Processes |-> 0]
    /\ shown = <<>>

-----------------------------------------------------------------------------
Open(end) == \E p \in Processes : end \in open[p]

Goes(p, from, to) ==
    /\ pc[p] = from
    /\ pc' = [pc EXCEPT ![p] = to]

\* A process is gone: by its return, by perrf after an end of file, by SIGPIPE
\* or killed.  The kernel closes what it has open.
Exit(p, from) ==
    /\ Goes(p, from, "gone")
    /\ open' = [open EXCEPT ![p] = {}]
    /\ UNCHANGED <<data, ack, i, shown>>

CloseEnd(p, from, end, to) ==
    /\ Goes(p, from, to)
    /\ open' = [open EXCEPT ![p] = @ \ {end}]
    /\ UNCHANGED <<data, ack, i, shown>>

\* The ends of the partner are closed before anything else, its own last.
Close(p, foreign, own, loop) ==
    \/ CloseEnd(p, "forked", foreign[1], "closing")
    \/ CloseEnd(p, "closing", foreign[2], loop)
    \/ CloseEnd(p, "done", own[1], "leaving")
    \/ CloseEnd(p, "leaving", own[2], "return")
    \/ Exit(p, "return")

ConsumerCloseForgotten ==                     \* faulty variant: keeps its copy of data_pipe[1]
    Close("consumer", <<"ack_r", "ack_r">>, <<"data_r", "ack_w">>, "read")
ConsumerClose == Close("consumer", <<"data_w", "ack_r">>, <<"data_r", "ack_w">>, "read")
ProducerClose == Close("producer", <<"data_r", "ack_w">>, <<"data_w", "ack_r">>, "write")

\* The next turn of the loop of p, or the code behind it.
Turn(p, from, again, after) ==
    /\ Goes(p, from, IF i[p] + 1 < Count THEN again ELSE after)
    /\ i' = [i EXCEPT ![p] = @ + 1]

-----------------------------------------------------------------------------
Write ==
    /\ Goes("producer", "write", "ack")
    /\ Open("data_r")
    /\ data' = Append(data, i["producer"])
    /\ UNCHANGED <<ack, open, i, shown>>

WriteBroken == ~Open("data_r") /\ Exit("producer", "write")

\* The acknowledgement.
ReadAckUnread ==                              \* faulty variant: goes on without it
    /\ Turn("producer", "ack", "write", "wait")
    /\ UNCHANGED <<data, ack, open, shown>>
ReadAck ==
    /\ Turn("producer", "ack", "write", "wait")
    /\ ack # <<>>
    /\ ack' = Tail(ack)
    /\ UNCHANGED <<data, open, shown>>

ReadAckEnd == ack = <<>> /\ ~Open("ack_w") /\ Exit("producer", "ack")

\* wait(NULL), before the producer closes anything.
WaitForChild ==
    /\ Goes("producer", "wait", "done")
    /\ pc["consumer"] = "gone"
    /\ UNCHANGED <<data, ack, open, i, shown>>

Producer == ProducerClose \/ Write \/ WriteBroken \/ ReadAck \/ ReadAckEnd \/ WaitForChild

-----------------------------------------------------------------------------
Read ==
    /\ Goes("consumer", "read", "reply")
    /\ data # <<>>
    /\ data' = Tail(data)
    /\ shown' = Append(shown, Head(data))
    /\ UNCHANGED <<ack, open, i>>

ReadEnd == data = <<>> /\ ~Open("data_w") /\ Exit("consumer", "read")

Reply ==
    /\ Turn("consumer", "reply", "read", "done")
    /\ Open("ack_r")
    /\ ack' = Append(ack, 1)
    /\ UNCHANGED <<data, open, shown>>

ReplyBroken == ~Open("ack_r") /\ Exit("consumer", "reply")

Consumer == ConsumerClose \/ Read \/ ReadEnd \/ Reply \/ ReplyBroken

-----------------------------------------------------------------------------
Kill(p) == pc[p] # "gone" /\ Exit(p, pc[p])

\* Both are gone.
Over == (\A p \in Processes : pc[p] = "gone") /\ UNCHANGED vars

Next == Producer \/ Consumer \/ (\E p \in Processes : Kill(p)) \/ Over

\* A process that can go on does; nobody has to kill anything.
Fairness == WF_vars(Producer) /\ WF_vars(Consumer)

Spec == Init /\ [][Next]_vars /\ Fairness

-----------------------------------------------------------------------------
\* The acknowledgements keep the two in step: what is shown are the numbers in
\* their order, and at most one is on its way, with none written before the one
\* before it has been acknowledged.  Through kills at any point.
InStep ==
    /\ Len(data) + Len(ack) <= 1
    /\ \A k \in DOMAIN shown : shown[k] = k - 1
    /\ \A k \in DOMAIN data : data[k] = Len(shown)
    /\ i["producer"] <= Len(shown) /\ Len(shown) <= i["producer"] + 1

\* Nobody waits for ever for a partner who is gone, or for one who waits for him.
BothEnd == <>(\A p \in Processes : pc[p] = "gone")
=============================================================================
