----------------------------- MODULE BothBankers -----------------------------
(***************************************************************************)
(* The banker at the terminal on the tables of the threaded one.           *)
(***************************************************************************)
EXTENDS Bank

Terminal == INSTANCE TerminalBanker WITH
    num_processes <- NUM_PROCESSES, num_resources <- NUM_RESOURCES

\* The banker at the terminal (lab11/q1), given the tables of the threaded one,
\* tentative unsafe ones included, agrees with the definition of safety, and answers
\* a request of any size of any process by the tables with the request granted
\* exactly if there is the process, the request is within need and available and
\* leaves them safe; else they stay as they are.
TerminalRight ==
    LET tables == Terminal!Typed(allocation, Maximum, available)
        safe(t) == SafeTables(t.available, t.allocation, t.need) IN
    visit = 0 =>
        /\ Terminal!IsSafe(tables) <=> safe(tables)
        /\ \A t \in -1..NUM_PROCESSES, r \in UpTo(Total) :
             Terminal!Answer(tables, t, r) =
                 IF /\ t \in Threads /\ AtMost(r, need[t]) /\ AtMost(r, available)
                    /\ safe(Terminal!Granted(tables, t, r))
                 THEN Terminal!Granted(tables, t, r) ELSE tables
=============================================================================
