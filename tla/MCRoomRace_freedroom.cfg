SPECIFICATION Spec
CONSTANTS
    c1 = c1
    c2 = c2
    c3 = c3
    r1 = r1
    r2 = r2
    Null = Null
    Clients <- TwoClients
    Rooms <- TwoRooms
    Names = {"lobby", "den"}
    MaxMembers = 2
SYMMETRY Symmetry
INVARIANT NoFreedRoomUsed
