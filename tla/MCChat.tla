------------------------------- MODULE MCChat -------------------------------
\* Chat with its clients interchangeable, for TLC.
EXTENDS Chat, TLC

Symmetry == Permutations(Clients)
=============================================================================
