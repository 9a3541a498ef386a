----------------------------- MODULE MCEventLoop -------------------------------
(* TLC instances of the event loop with its worker pool. *)
EXTENDS EventLoop, TLC

CONSTANTS c1, c2

TwoConns == {c1, c2}

================================================================================
