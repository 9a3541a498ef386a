------------------------------- MODULE MCLimits --------------------------------
(* Instance of Presence, RateLimit and Moderation for TLC: what limits a user.
   The three share no state and no lock, so a behaviour drives one of them. *)
EXTENDS Presence, RateLimit, Moderation, TLC

VARIABLE focus

\* Threads are interchangeable, and so are users and clients.
Symmetry == Permutations(Typists) \cup Permutations(Workers)
            \cup Permutations(People) \cup Permutations(Threads)

Init ==
    /\ PresenceInit /\ RateInit /\ ModerationInit
    /\ focus \in {"typing", "rate", "roles"}

Next ==
    \/ focus = "typing" /\ PresenceNext /\ UNCHANGED <<rateVars, moderationVars, focus>>
    \/ focus = "rate" /\ RateNext /\ UNCHANGED <<presenceVars, moderationVars, focus>>
    \/ focus = "roles" /\ ModerationNext /\ UNCHANGED <<presenceVars, rateVars, focus>>

Spec == Init /\ [][Next]_<<presenceVars, rateVars, moderationVars, focus>>
===============================================================================
