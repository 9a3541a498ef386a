-------------------------------- MODULE RoomLog --------------------------------
(***************************************************************************)
(* What the history of a room promises, without its ring buffer: a window  *)
(* of the last Cap messages, in the order in which they were added, with   *)
(* their current text, beside the log that is kept for ever.  Module       *)
(* History implements it.                                                  *)
(***************************************************************************)
EXTENDS Integers, Sequences

CONSTANTS Messages,      \* records with id, sender, text and deleted
          Texts,         \* what their text may be, the mark of deletion included
          Cap

VARIABLES window,        \* what a client that joins is shown
          stored         \* the rows in the database

LastOf(s) == IF Len(s) <= Cap THEN s ELSE SubSeq(s, Len(s) - Cap + 1, Len(s))

Init == window = <<>> /\ stored = <<>>

Save(m) == UNCHANGED window /\ stored' = Append(stored, m)

\* A new message pushes the oldest one out.
Post(m) ==
    /\ UNCHANGED stored
    /\ \A i \in 1..Len(window) : window[i].id # m.id
    /\ window' = LastOf(Append(window, m))

\* A change of the i-th message keeps its place, its id and its author, and a
\* deleted one does not change any more.
Changed(s, i, x, del) ==
    IF s[i].deleted THEN s ELSE [s EXCEPT ![i].text = x, ![i].deleted = del]

ChangeWindow(i, x, del) == UNCHANGED stored /\ window' = Changed(window, i, x, del)
ChangeStored(i, x, del) == UNCHANGED window /\ stored' = Changed(stored, i, x, del)

\* The room is created again from the database, or from as much of it as could
\* be read.
Reload ==
    /\ UNCHANGED stored
    /\ \E n \in 0..Len(LastOf(stored)) : window' = SubSeq(LastOf(stored), 1, n)

Next ==
    \/ Reload
    \/ \E i \in 1..Len(window), x \in Texts, del \in BOOLEAN : ChangeWindow(i, x, del)
    \/ \E i \in 1..Len(stored), x \in Texts, del \in BOOLEAN : ChangeStored(i, x, del)
    \/ \E m \in Messages : Save(m) \/ Post(m)

Spec == Init /\ [][Next]_<<window, stored>>
===============================================================================
