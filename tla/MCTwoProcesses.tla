--------------------------- MODULE MCTwoProcesses ---------------------------
\* The two smallest concurrent programs, which share nothing, side by side.
EXTENDS Pipes

VARIABLES sem, tpc, main

Demo == INSTANCE DeadlockDemo

mcVars == <<vars, sem, tpc, main>>

MCInit == Init /\ Demo!Init

MCNext ==
    \/ Next /\ UNCHANGED <<sem, tpc, main>>
    \/ Demo!Next /\ UNCHANGED vars

MCSpec == MCInit /\ [][MCNext]_mcVars /\ Fairness /\ Demo!Fairness

EndsOrDeadlocks == Demo!EndsOrDeadlocks
=============================================================================
