------------------------------ MODULE MCRoomRace -------------------------------
(* TLC instances of the room commands at lock granularity. *)
EXTENDS RoomRace, TLC

CONSTANTS c1, c2, c3, r1, r2

TwoClients   == {c1, c2}
ThreeClients == {c1, c2, c3}
TwoRooms     == {r1, r2}

\* Clients and rooms are interchangeable.
Symmetry == Permutations(Clients) \cup Permutations(Rooms)

\* A pointer left over from a finished command is never read again, so it does
\* not tell states apart.
Readable ==
    <<listed, room_list, fresh, freed, rname, members, admin, croom, pc, fault,
      [c \in {d \in Clients : pc[d] \notin {"idle", "gone", "say", "kick",
                                           "delete"}} |-> at[c]],
      [c \in {d \in Clients : pc[d] \in {"kick", "kicked"}} |-> target[c]]>>
================================================================================
