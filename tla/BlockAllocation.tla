-------------------------- MODULE BlockAllocation --------------------------
(***************************************************************************)
(* The contiguous allocation of src/lab11/q4 as a function of the bad      *)
(* blocks typed at its start and the lengths of the files asked for.       *)
(***************************************************************************)
EXTENDS Integers, Sequences, FiniteSetsExt

CONSTANTS MAX_BLOCKS, SPARE_BLOCKS

Blocks == 0 .. MAX_BLOCKS - 1
Bad == -1

\* initialize_disk and mark_bad_blocks, which skips numbers there are not.
Start(bad) ==
    [disk |-> [b \in Blocks |-> IF b \in bad THEN Bad ELSE 0],
     spare_pool_idx |-> 0,
     file_table |-> <<>>]

Area(at, length) == at .. at + length - 1

\* Where the scan finds length free blocks, all in a row.
StartsNotOccupied(disk, length) ==            \* faulty variant: only files count
    {i \in 0 .. MAX_BLOCKS - length : \A b \in Area(i, length) : disk[b] <= 0}
Starts(disk, length) ==
    {i \in 0 .. MAX_BLOCKS - length : \A b \in Area(i, length) : disk[b] = 0}

\* The loop that takes a spare block for every bad one of the area.
SparesNeeded(s, at, length) == Cardinality({b \in Area(at, length) : s.disk[b] = Bad})

\* A length of zero or less needs no block and is entered all the same.
Place(s, at, length) ==
    LET file_id == Len(s.file_table) + 1
        spares == s.spare_pool_idx + SparesNeeded(s, at, length)
    IN  IF spares > SPARE_BLOCKS THEN [s EXCEPT !.spare_pool_idx = SPARE_BLOCKS]
        ELSE [disk |-> [b \in Blocks |-> IF b \in Area(at, length) THEN file_id ELSE s.disk[b]],
              spare_pool_idx |-> spares,
              file_table |-> Append(s.file_table, [start_block |-> at, length |-> length])]

\* allocate_file takes the first place, if any.
AllocateFile(s, length) ==
    IF Starts(s.disk, length) = {} THEN s
    ELSE Place(s, Min(Starts(s.disk, length)), length)

Run(bad, lengths) ==
    LET after[k \in 0..Len(lengths)] ==
          IF k = 0 THEN Start(bad) ELSE AllocateFile(after[k - 1], lengths[k])
    IN  after[Len(lengths)]

-----------------------------------------------------------------------------
\* Reference definitions, from the bad blocks and the file table alone.
BlocksOf(file) == Area(file.start_block, file.length)

Occupied(bad, files) == bad \cup UNION {BlocksOf(files[f]) : f \in DOMAIN files}

\* The next file goes to the lowest place that touches neither a bad block nor
\* another file; without one nothing is allocated.
NextFile(bad, files, length) ==
    LET free == Blocks \ Occupied(bad, files)
        places == {b \in 0 .. MAX_BLOCKS : Area(b, length) \subseteq free}
    IN  IF places = {} THEN files
        ELSE Append(files, [start_block |-> Min(places), length |-> length])
=============================================================================
