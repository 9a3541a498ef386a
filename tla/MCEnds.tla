-------------------------------- MODULE MCEnds ---------------------------------
(* Instance of Wire and Terminal for TLC: the two ends of a connection.  They
   are two programs with no state in common, so a behaviour drives one. *)
EXTENDS Wire, Terminal

VARIABLE side

\* One argument of either mode, no argument and no strtok, a line too long.
MCLines == {[key |-> "PM", more |-> 2], [key |-> "TYPING", more |-> 0],
            [key |-> "MSG", more |-> 3]}

allVars == <<wireVars, termVars, side>>

\* The end that is not driven stays in one initial state.
Init ==
    /\ side \in {"server", "terminal"}
    /\ WireInit /\ TerminalInit
    /\ side = "server" => ssl = "plain"

Next ==
    \/ side = "server" /\ WireNext /\ UNCHANGED <<termVars, side>>
    \/ side = "terminal" /\ TerminalNext /\ UNCHANGED <<wireVars, side>>

Spec == Init /\ [][Next]_allVars /\ WireFairness /\ TerminalFairness
===============================================================================
