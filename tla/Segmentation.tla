---------------------------- MODULE Segmentation ----------------------------
(***************************************************************************)
(* The segment table of src/lab10/q3 and its translation of addresses.     *)
(***************************************************************************)
EXTENDS Integers

CONSTANT Invalid  \* an error is printed instead of a physical address

segment_table ==
    [s \in 0..4 |-> [base |-> <<1400, 6300, 4300, 3200, 4700>>[s + 1],
                    limit |-> <<1000, 400, 400, 1100, 1000>>[s + 1]]]

\* The check and the addition of translate_address.
InBoundsByOne(s, offset) == offset >= 0 /\ offset <= segment_table[s].limit  \* faulty variant
InBounds(s, offset) == offset >= 0 /\ offset < segment_table[s].limit

Translate(s, offset) ==
    IF s \in DOMAIN segment_table /\ InBounds(s, offset)
    THEN segment_table[s].base + offset
    ELSE Invalid
=============================================================================
