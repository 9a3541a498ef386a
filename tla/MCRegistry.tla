------------------------------ MODULE MCRegistry -------------------------------
(* TLC instances of the registry. *)
EXTENDS Registry, TLC

CONSTANTS k1, k2, k3, u1, u2, a1, a2, r1, r2

TwoConns   == {k1, k2}
ThreeConns == {k1, k2, k3}
TwoUsers   == {u1, u2}
TwoRooms   == {r1, r2}
TwoAddr    == {a1, a2}

\* Connections, users and addresses are interchangeable.
Symmetry == Permutations(Conns) \cup Permutations(Users)
            \cup Permutations(ClientAddr) \cup Permutations(RoomAddr)

\* What can still be read: the fields of freed objects and the
\* bans, which no command consults, do not tell states apart.
Live ==
    <<users, role, invites, client_list, me,
      [a \in Listed |-> <<cname[a], croom[a]>>],
      [r \in room_list |-> <<rname[r], members[r], admin[r]>>]>>
================================================================================
