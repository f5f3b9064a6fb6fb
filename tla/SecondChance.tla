---------------------------- MODULE SecondChance ----------------------------
(***************************************************************************)
(* simulate_second_chance of src/lab10/q4 as a function of the reference   *)
(* string: page table, frames and the pointer that goes round them.        *)
(***************************************************************************)
EXTENDS Integers, Sequences

CONSTANTS MAX_FRAMES, MAX_PAGES

Pages == 0 .. MAX_PAGES - 1

Start ==
    [page_table |-> [p \in Pages |-> [frame_num |-> -1, valid |-> FALSE, reference_bit |-> 0]],
     frames |-> [k \in 0 .. MAX_FRAMES - 1 |-> -1],
     frame_pointer |-> 0,
     page_faults |-> 0]

Valid(s, page) == s.page_table[page].valid

\* The page goes into the frame at the pointer, whose page, if any, has left.
Placed(s, page) ==
    [s EXCEPT !.page_table[page] =
                  [frame_num |-> s.frame_pointer, valid |-> TRUE, reference_bit |-> 0],
              !.frames[s.frame_pointer] = page,
              !.frame_pointer = (@ + 1) % MAX_FRAMES]

\* The pages that are in the frame at the pointer.
VictimsStale(s) == {p \in Pages : s.page_table[p].frame_num = s.frame_pointer}  \* faulty variant
Victims(s) == {p \in Pages : Valid(s, p) /\ s.page_table[p].frame_num = s.frame_pointer}

\* One turn of the inner loop, none once the page has been placed.
Turn(s, page) ==
    IF Valid(s, page) THEN s
    ELSE IF Victims(s) = {} THEN Placed(s, page)
    ELSE LET victim == CHOOSE p \in Victims(s) : \A q \in Victims(s) : p <= q IN
         IF s.page_table[victim].reference_bit = 0
         THEN Placed([s EXCEPT !.page_table[victim].valid = FALSE], page)
         ELSE [s EXCEPT !.page_table[victim].reference_bit = 0,
                        !.frame_pointer = (@ + 1) % MAX_FRAMES]

\* A hit sets the bit; on a fault the loop places the page after one round of
\* the frames and a turn at most, as a round leaves no bit set.
Access(s, page) ==
    IF Valid(s, page) THEN [s EXCEPT !.page_table[page].reference_bit = 1]
    ELSE LET after[turn \in 0 .. MAX_FRAMES + 1] ==
               IF turn = 0 THEN [s EXCEPT !.page_faults = @ + 1] ELSE Turn(after[turn - 1], page)
         IN  after[MAX_FRAMES + 1]

Simulate(ref_string) ==
    LET after[k \in 0..Len(ref_string)] ==
          IF k = 0 THEN Start ELSE Access(after[k - 1], ref_string[k])
    IN  after[Len(ref_string)]

-----------------------------------------------------------------------------
\* Reference definition: a queue of pages with their bits, oldest first, with
\* neither frames nor a pointer.  The first page whose bit is clear leaves;
\* those before it go to the end with theirs cleared.
Spared(q) == CHOOSE n \in 0..Len(q) :
                 /\ \A i \in 1..n : q[i][2] # 0
                 /\ n < Len(q) => q[n + 1][2] = 0

Enter(q, page) ==
    IF Len(q) < MAX_FRAMES THEN Append(q, <<page, 0>>)
    ELSE LET cleared == [i \in 1..Spared(q) |-> <<q[i][1], 0>>]
         IN  Append(Tail(SubSeq(q, Spared(q) + 1, Len(q)) \o cleared), <<page, 0>>)

Consider(t, page) ==
    IF \E i \in DOMAIN t.queue : t.queue[i][1] = page
    THEN [t EXCEPT !.queue = [i \in DOMAIN @ |-> IF @[i][1] = page THEN <<page, 1>> ELSE @[i]]]
    ELSE [queue |-> Enter(t.queue, page), faults |-> t.faults + 1]

Queue(ref_string) ==
    LET after[k \in 0..Len(ref_string)] ==
          IF k = 0 THEN [queue |-> <<>>, faults |-> 0] ELSE Consider(after[k - 1], ref_string[k])
    IN  after[Len(ref_string)]
=============================================================================
