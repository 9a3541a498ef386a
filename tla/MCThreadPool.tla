---------------------------- MODULE MCThreadPool -------------------------------
(* TLC instances of the worker pool. *)
EXTENDS ThreadPool, TLC

CONSTANTS c1, c2

TwoConns   == {c1, c2}

================================================================================
