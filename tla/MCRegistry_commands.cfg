SPECIFICATION Spec
CONSTANTS
    k1 = k1
    k2 = k2
    k3 = k3
    u1 = u1
    u2 = u2
    a1 = a1
    a2 = a2
    r1 = r1
    r2 = r2
    Null = Null
    Conns <- ThreeConns
    Users <- TwoUsers
    Names = {"lobby", "den"}
    ClientAddr <- TwoAddr
    RoomAddr <- TwoRooms
    MaxClients = 2
    MaxRooms = 2
    MaxMembers = 2
SYMMETRY Symmetry
VIEW Live
INVARIANTS OwnedOnce PointersAgree NoDanglingRoom
