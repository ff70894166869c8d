---------------------------- MODULE MCWaitingRoom ----------------------------
\* The clients of the runs of WaitingRoom are interchangeable.
EXTENDS WaitingRoom, TLC

ClientSymmetry == Permutations(Clients)

=============================================================================
