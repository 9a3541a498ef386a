------------------------------ MODULE MCSessions -------------------------------
(* Instances of Sessions for TLC. *)
EXTENDS Sessions, TLC

\* Connections are interchangeable, and so are users.
Symmetry == Permutations(Conns) \cup Permutations(Users)
===============================================================================
