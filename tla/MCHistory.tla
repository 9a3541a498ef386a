------------------------------- MODULE MCHistory -------------------------------
(* TLC instance of the message history: one user who is logged in twice, so   *)
(* that EDITs of one message overlap each other and its DELETE.               *)
EXTENDS History, TLC

CONSTANTS w1, w2, u1

TwoWriters == {w1, w2}
Twice      == [w \in TwoWriters |-> u1]

\* Texts are interchangeable, and so are the two connections.
Symmetry == Permutations(Texts) \cup Permutations(TwoWriters)
================================================================================
