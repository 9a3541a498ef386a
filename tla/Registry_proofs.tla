---------------------------- MODULE Registry_proofs ----------------------------
(***************************************************************************)
(* Proofs about client_list and room_list, for any number of connections,  *)
(* users, names and addresses and any capacities.                          *)
(***************************************************************************)
EXTENDS Registry, SequenceTheorems, FiniteSetTheorems, WellFoundedInduction, TLAPS

\* A client in the list was given the name of a user, a room in the list the
\* name of a room.
Named ==
    /\ \A a \in Listed : cname[a] \in Users
    /\ \A r \in room_list : rname[r] \in Names

\* delete_room frees only empty rooms, so an address that malloc returns for a
\* new room has no members left from its former life.
Occupied == \A r \in RoomAddr : members[r] # {} => r \in room_list

RegistryInv ==
    TypeOK /\ OwnedOnce /\ MembersCurrent /\ RoomNamesUnique /\ Named /\ Occupied

\* ACCEPT of an invitation to a room whose array is full: the one command that
\* sets current_room without being in the array.
AcceptsFull ==
    \E k \in Conns, n \in Names :
        /\ ACCEPT(k, n)
        /\ \E r \in find_room(n) :
              ~HasPlace(IF croom[me[k]] = Null THEN members
                        ELSE room_remove_member(members, croom[me[k]], me[k]), r)

-------------------------------------------------------------------------------
(***************************************************************************)
(* The invariant by the state it is about: tables, clients, rooms, and who *)
(* is in which room.                                                       *)
(***************************************************************************)
DbOK ==
    /\ users \subseteq Users
    /\ role \in [Names \X Users -> ROLE_MEMBER..ROLE_OWNER]
    /\ invites \subseteq Names \X Users /\ bans \subseteq Names \X Users

ClientsOK ==
    /\ client_list \in Seq(ClientAddr) /\ Len(client_list) <= MaxClients
    /\ cname \in [ClientAddr -> Users \cup {Null}]
    /\ me \in [Conns -> ClientAddr \cup {Null}]
    /\ OwnedOnce
    /\ \A a \in Listed : cname[a] \in Users

RoomsOK ==
    /\ room_list \subseteq RoomAddr /\ Cardinality(room_list) <= MaxRooms
    /\ rname \in [RoomAddr -> Names \cup {Null}]
    /\ admin \in [RoomAddr -> ClientAddr \cup {Null}]
    /\ RoomNamesUnique
    /\ \A r \in room_list : rname[r] \in Names

PlacesOK ==
    /\ croom \in [ClientAddr -> RoomAddr \cup {Null}]
    /\ members \in [RoomAddr -> SUBSET ClientAddr]
    /\ MembersCurrent /\ Occupied

LEMMA Parts ==
    /\ RegistryInv => DbOK /\ ClientsOK /\ RoomsOK /\ PlacesOK
    /\ DbOK' /\ ClientsOK' /\ RoomsOK' /\ PlacesOK' => RegistryInv'
  BY DEF RegistryInv, TypeOK, Named, DbOK, ClientsOK, RoomsOK, PlacesOK

-------------------------------------------------------------------------------
(* client_list and the connections' pointers into it. *)

\* A nonempty set of numbers has a least one.
LEMMA LeastNumber ==
    ASSUME NEW T \in SUBSET Nat, T # {}
    PROVE  \E n \in T : \A m \in T : n <= m
<1>1. \E R : /\ IsWellFoundedOn(R, Nat)
             /\ \A x, y \in Nat : <<y, x>> \in R <=> y < x
  <2>1. IsWellFoundedOn(OpToRel(<, Nat), Nat)
    BY NatLessThanWellFounded
  <2>2. \A x, y \in Nat : <<y, x>> \in OpToRel(<, Nat) <=> y < x
    BY DEF OpToRel
  <2> QED BY <2>1, <2>2, Zenon
<1>2. PICK R : /\ IsWellFoundedOn(R, Nat)
               /\ \A x, y \in Nat : <<y, x>> \in R <=> y < x
  BY <1>1
<1>3. PICK n \in T : \A m \in T : ~(<<m, n>> \in R)
  BY <1>2, WFMin
<1>4. \A m \in T : m \in Nat /\ ~(m < n)
  BY <1>2, <1>3
<1>5. \A m \in T : n <= m
  BY <1>4
<1> QED
  BY <1>5

LEMMA ListedAddr ==
    ASSUME ClientsOK
    PROVE  Listed \subseteq ClientAddr /\ Len(client_list) \in Nat
  BY DEF ClientsOK, Listed

\* conn->me is a client of the list.
LEMMA OwnListed ==
    ASSUME ClientsOK, NEW k \in Conns, me[k] # Null
    PROVE  me[k] \in Listed /\ me[k] \in ClientAddr
  BY DEF ClientsOK, OwnedOnce

\* find_client answers with a client of the list that has the name.
LEMMA FoundListed ==
    ASSUME ClientsOK, NEW u, Entries(u) # {}
    PROVE  find_client(u) \in Listed /\ find_client(u) \in ClientAddr
           /\ cname[find_client(u)] = u
<1>1. Entries(u) \in SUBSET Nat
  BY ListedAddr DEF Entries
<1>2. \E i \in Entries(u) : \A j \in Entries(u) : i <= j
  BY <1>1, LeastNumber
<1>3. PICK i \in Entries(u) : find_client(u) = client_list[i]
  BY <1>2 DEF find_client
<1> QED
  BY <1>3, ListedAddr DEF Entries, Listed

LEMMA ClientsSame ==
    ASSUME ClientsOK, UNCHANGED clientVars
    PROVE  ClientsOK' /\ Listed' = Listed
<1>1. client_list' = client_list /\ cname' = cname /\ me' = me
  BY DEF clientVars
<1>2. Listed' = Listed
  BY <1>1 DEF Listed
<1>3. OwnedOnce'
  BY <1>1, <1>2 DEF ClientsOK, OwnedOnce
<1> QED
  BY <1>1, <1>2, <1>3 DEF ClientsOK

LEMMA ClientAdded ==
    ASSUME ClientsOK, NEW k \in Conns, me[k] = Null, NEW u \in Users,
           NEW a \in ClientAddr, create_client_force(k, u, a)
    PROVE  ClientsOK' /\ Listed' = Listed \cup {a} /\ a \notin Listed
<1> USE DEF create_client_force
<1>1. /\ client_list' \in Seq(ClientAddr) /\ Len(client_list') = Len(client_list) + 1
      /\ \A i \in 1..Len(client_list) : client_list'[i] = client_list[i]
      /\ client_list'[Len(client_list) + 1] = a /\ Len(client_list) \in Nat
  BY DEF ClientsOK
<1>2. Listed' = Listed \cup {a} /\ a \notin Listed
  <2>1. Listed' \subseteq Listed \cup {a}
    BY <1>1 DEF Listed
  <2>2. Listed \cup {a} \subseteq Listed'
    BY <1>1 DEF Listed
  <2> QED BY <2>1, <2>2
<1>3. /\ cname' \in [ClientAddr -> Users \cup {Null}]
      /\ me' \in [Conns -> ClientAddr \cup {Null}]
      /\ Len(client_list') <= MaxClients
  BY <1>1, RegistryAssumption DEF ClientsOK
<1>4. \A b \in Listed' : cname'[b] \in Users
  BY <1>2, ListedAddr DEF ClientsOK
<1>5. OwnedOnce'
  <2>1. Listed' = {me'[l] : l \in Conns} \ {Null}
    <3>1. \A l \in Conns : me'[l] = IF l = k THEN a ELSE me[l]
      BY DEF ClientsOK
    <3>2. Listed = {me[l] : l \in Conns} \ {Null} /\ a # Null
      BY RegistryAssumption DEF ClientsOK, OwnedOnce
    <3> QED BY <1>2, <3>1, <3>2
  <2>2. \A l, j \in Conns : me'[l] = me'[j] /\ me'[l] # Null => l = j
    <3>1. \A l \in Conns : l # k => me'[l] = me[l] /\ me[l] # a
      BY OwnListed, RegistryAssumption DEF ClientsOK
    <3>2. me'[k] = a
      BY DEF ClientsOK
    <3> QED BY <3>1, <3>2 DEF ClientsOK, OwnedOnce
  <2>3. \A i, j \in 1..Len(client_list') : client_list'[i] = client_list'[j] => i = j
    <3>1. \A i \in 1..Len(client_list) : client_list[i] # a
      BY DEF Listed
    <3>2. \A i \in 1..Len(client_list') : i # Len(client_list) + 1
              => i \in 1..Len(client_list)
      BY <1>1
    <3> QED BY <1>1, <3>1, <3>2 DEF ClientsOK, OwnedOnce
  <2> QED BY <2>1, <2>2, <2>3 DEF OwnedOnce
<1> QED
  BY <1>1, <1>2, <1>3, <1>4, <1>5 DEF ClientsOK

\* Exactly the one client goes, and the others keep their order.
LEMMA ClientGone ==
    ASSUME ClientsOK, NEW k \in Conns, me[k] # Null, delete_client(me[k]),
           me' = [me EXCEPT ![k] = Null], UNCHANGED cname
    PROVE  ClientsOK' /\ Listed' = Listed \ {me[k]}
<1> DEFINE n == Len(client_list)
<1>1. PICK i \in 1..n :
        /\ client_list[i] = me[k]
        /\ client_list' = [j \in 1..n - 1 |-> client_list[IF j < i THEN j ELSE j + 1]]
  BY DEF delete_client
<1>2. n \in Nat /\ n - 1 \in Nat /\ i \in Nat
  BY <1>1, ListedAddr
<1>3. \A j \in 1..n - 1 :
        /\ client_list'[j] = client_list[IF j < i THEN j ELSE j + 1]
        /\ (IF j < i THEN j ELSE j + 1) \in 1..n
  BY <1>1, <1>2
<1>4. client_list' \in Seq(ClientAddr) /\ Len(client_list') = n - 1
  <2>1. \A j \in 1..n : client_list[j] \in ClientAddr
    BY DEF ClientsOK
  <2>2. client_list' \in [1..n - 1 -> ClientAddr]
    BY <1>1, <1>3, <2>1
  <2> QED BY <1>2, <2>2, SeqDef, LenProperties
<1>5. \A j, l \in 1..n : client_list[j] = client_list[l] => j = l
  BY DEF ClientsOK, OwnedOnce
<1>6. Listed' = Listed \ {me[k]}
  <2>1. Listed' \subseteq Listed
    BY <1>3, <1>4 DEF Listed
  <2>2. me[k] \notin Listed'
    BY <1>1, <1>2, <1>3, <1>4, <1>5 DEF Listed
  <2>3. ASSUME NEW j \in 1..n, j # i
        PROVE  client_list[j] \in Listed'
    <3>1. CASE j < i
      BY <1>2, <1>3, <1>4, <3>1 DEF Listed
    <3>2. CASE ~(j < i)
      <4>1. j - 1 \in 1..n - 1 /\ ~(j - 1 < i) /\ (j - 1) + 1 = j
        BY <1>2, <2>3, <3>2
      <4>2. client_list'[j - 1] = client_list[j]
        BY <1>3, <4>1
      <4> QED BY <1>4, <4>1, <4>2 DEF Listed
    <3> QED BY <3>1, <3>2
  <2>4. Listed \ {me[k]} \subseteq Listed'
    BY <1>1, <2>3 DEF Listed
  <2> QED BY <2>1, <2>2, <2>4
<1>7. OwnedOnce'
  <2>1. Listed' = {me'[l] : l \in Conns} \ {Null}
    <3>1. \A l \in Conns : me'[l] = IF l = k THEN Null ELSE me[l]
      BY DEF ClientsOK
    <3>2. /\ Listed = {me[l] : l \in Conns} \ {Null}
          /\ \A l \in Conns : l # k => me[l] # me[k]
      BY DEF ClientsOK, OwnedOnce
    <3> QED BY <1>6, <3>1, <3>2
  <2>2. \A l, j \in Conns : me'[l] = me'[j] /\ me'[l] # Null => l = j
    BY DEF ClientsOK, OwnedOnce
  <2>3. \A j, l \in 1..n - 1 : client_list'[j] = client_list'[l] => j = l
    <3> SUFFICES ASSUME NEW j \in 1..n - 1, NEW l \in 1..n - 1,
                        client_list'[j] = client_list'[l]
                 PROVE  j = l
      OBVIOUS
    <3>1. (IF j < i THEN j ELSE j + 1) = (IF l < i THEN l ELSE l + 1)
      BY <1>3, <1>5
    <3> QED BY <1>2, <3>1
  <2> QED BY <1>4, <2>1, <2>2, <2>3 DEF OwnedOnce
<1>8. /\ me' \in [Conns -> ClientAddr \cup {Null}] /\ Len(client_list') <= MaxClients
      /\ \A b \in Listed' : cname'[b] \in Users
  BY <1>2, <1>4, <1>6, RegistryAssumption DEF ClientsOK
<1> QED
  BY <1>4, <1>7, <1>6, <1>8 DEF ClientsOK

-------------------------------------------------------------------------------
(* room_list. *)

\* Rooms stay as they are, or some go.
LEMMA RoomsKept ==
    ASSUME RoomsOK, room_list' \subseteq room_list, UNCHANGED rname,
           admin' \in [RoomAddr -> ClientAddr \cup {Null}]
    PROVE  RoomsOK'
<1>1. IsFiniteSet(room_list)
  BY FS_Subset, RegistryAssumption DEF RoomsOK
<1>2. /\ Cardinality(room_list') <= Cardinality(room_list)
      /\ Cardinality(room_list') \in Nat /\ Cardinality(room_list) \in Nat
  BY <1>1, FS_Subset, FS_CardinalityType
<1> QED
  BY <1>2, RegistryAssumption DEF RoomsOK, RoomNamesUnique

\* A room is created only under a name that no room has.
LEMMA RoomCreated ==
    ASSUME RoomsOK, NEW a \in ClientAddr, NEW n \in Names, NEW r \in RoomAddr,
           create_room(a, n, r)
    PROVE  RoomsOK'
<1> USE DEF create_room
<1>1. IsFiniteSet(room_list) /\ r \notin room_list
  BY FS_Subset, RegistryAssumption DEF RoomsOK
<1>2. Cardinality(room_list') = Cardinality(room_list) + 1
  BY <1>1, FS_AddElement
<1>3. Cardinality(room_list') <= MaxRooms /\ room_list' \subseteq RoomAddr
  BY <1>1, <1>2, FS_CardinalityType, RegistryAssumption DEF RoomsOK
<1>4. /\ rname' \in [RoomAddr -> Names \cup {Null}]
      /\ admin' \in [RoomAddr -> ClientAddr \cup {Null}]
      /\ rname'[r] = n /\ \A s \in room_list : rname'[s] = rname[s]
  BY <1>1 DEF RoomsOK
<1>5. \A s \in room_list : rname[s] # n
  BY DEF find_room
<1>6. RoomNamesUnique'
  BY <1>4, <1>5 DEF RoomsOK, RoomNamesUnique
<1> QED
  BY <1>3, <1>4, <1>6 DEF RoomsOK

LEMMA DeletedIfEmpty ==
    ASSUME NEW m, NEW r, room_delete_if_empty(m, r)
    PROVE  /\ room_list' \subseteq room_list
           /\ \A s \in room_list : m[s] # {} => s \in room_list'
  BY DEF room_delete_if_empty

-------------------------------------------------------------------------------
(***************************************************************************)
(* Who is in which room.  A command moves one client a: other clients stay *)
(* in their arrays.                                                        *)
(***************************************************************************)
\* m is members[] with a taken out of it, or where it was.
Without(m, a) ==
    /\ m \in [RoomAddr -> SUBSET ClientAddr]
    /\ \A s \in RoomAddr : m[s] \ {a} = members[s] \ {a} /\ a \notin m[s]

LEMMA TakenOut ==
    ASSUME PlacesOK, NEW a \in ClientAddr, NEW r \in RoomAddr, croom[a] = r
    PROVE  Without(room_remove_member(members, r, a), a)
  BY DEF Without, room_remove_member, PlacesOK, MembersCurrent

LEMMA NotIn ==
    ASSUME PlacesOK, NEW a \in ClientAddr, croom[a] = Null
    PROVE  Without(members, a)
  BY RegistryAssumption DEF Without, PlacesOK, MembersCurrent

\* What a move must respect to keep members[] and current_room in agreement.
LEMMA Moves ==
    ASSUME PlacesOK, NEW a \in ClientAddr, NEW x \in RoomAddr \cup {Null},
           croom' = [croom EXCEPT ![a] = x],
           members' \in [RoomAddr -> SUBSET ClientAddr],
           \A r \in RoomAddr : members'[r] \ {a} = members[r] \ {a},
           \A r \in RoomAddr : a \in members'[r] => x = r /\ a \in Listed',
           Listed \subseteq ClientAddr,
           Listed \ {a} \subseteq Listed', Listed' \subseteq Listed \cup {a},
           \A r \in RoomAddr : members'[r] # {} => r \in room_list'
    PROVE  /\ PlacesOK'
           /\ (x # Null => a \in members'[x]) /\ InRoomIsMember => InRoomIsMember'
<1>1. /\ croom' \in [ClientAddr -> RoomAddr \cup {Null}] /\ croom'[a] = x
      /\ \A b \in ClientAddr \ {a} : croom'[b] = croom[b]
  BY DEF PlacesOK
<1>2. MembersCurrent'
  BY <1>1 DEF PlacesOK, MembersCurrent
<1>3. Occupied'
  BY DEF Occupied
<1>4. ASSUME x # Null => a \in members'[x], InRoomIsMember
      PROVE  InRoomIsMember'
  <2> SUFFICES ASSUME NEW b \in Listed', croom'[b] # Null
               PROVE  b \in members'[croom'[b]]
    BY DEF InRoomIsMember
  <2>1. CASE b = a
    BY <1>1, <1>4, <2>1
  <2>2. CASE b # a
    <3>1. b \in Listed /\ b \in ClientAddr /\ croom'[b] = croom[b]
      BY <1>1, <2>2
    <3>2. b \in members[croom[b]] /\ croom[b] \in RoomAddr
      BY <1>4, <3>1 DEF InRoomIsMember, PlacesOK
    <3> QED BY <2>2, <3>1, <3>2
  <2> QED BY <2>1, <2>2
<1> QED
  BY <1>1, <1>2, <1>3, <1>4 DEF PlacesOK

LEMMA NobodyMoves ==
    ASSUME PlacesOK, UNCHANGED <<croom, members>>, Listed' = Listed,
           room_list \subseteq room_list'
    PROVE  PlacesOK' /\ (InRoomIsMember => InRoomIsMember')
  BY DEF PlacesOK, MembersCurrent, Occupied, InRoomIsMember

-------------------------------------------------------------------------------
(* The inductive step, one lemma per command. *)

LEMMA InitRegistry == Init => RegistryInv /\ InRoomIsMember
<1> SUFFICES ASSUME Init PROVE RegistryInv /\ InRoomIsMember
  OBVIOUS
<1> USE RegistryAssumption DEF Init
<1>1. client_list \in Seq(ClientAddr) /\ Len(client_list) = 0 /\ Listed = {}
  BY DEF Listed
<1>2. room_list \subseteq RoomAddr /\ Cardinality(room_list) = 0
  BY FS_EmptySet
<1>3. TypeOK
  BY <1>1, <1>2 DEF TypeOK, ROLE_MEMBER, ROLE_OWNER
<1>4. OwnedOnce
  BY <1>1 DEF OwnedOnce
<1>5. MembersCurrent /\ InRoomIsMember /\ RoomNamesUnique /\ Named /\ Occupied
  BY <1>1 DEF MembersCurrent, InRoomIsMember, RoomNamesUnique, Named, Occupied
<1> QED
  BY <1>3, <1>4, <1>5 DEF RegistryInv

\* A new client is in no room: an address that was freed left no array behind.
LEMMA NewClient ==
    ASSUME RegistryInv, NEW k \in Conns, me[k] = Null, NEW u \in Users,
           NEW a \in ClientAddr, create_client_force(k, u, a),
           UNCHANGED <<roomVars, members, admin>>, DbOK'
    PROVE  RegistryInv' /\ (InRoomIsMember => InRoomIsMember')
<1> USE Parts
<1>1. ClientsOK' /\ Listed' = Listed \cup {a} /\ a \notin Listed
  BY ClientAdded
<1>2. RoomsOK'
  BY RoomsKept DEF roomVars, RoomsOK
<1>3. \A r \in RoomAddr : a \notin members[r]
  BY <1>1 DEF PlacesOK, MembersCurrent
<1>4. PlacesOK' /\ (InRoomIsMember => InRoomIsMember')
  <2>1. croom' = [croom EXCEPT ![a] = Null] /\ members' = members
    BY DEF create_client_force
  <2>2. /\ members' \in [RoomAddr -> SUBSET ClientAddr]
        /\ \A r \in RoomAddr : members'[r] # {} => r \in room_list'
    BY <2>1 DEF PlacesOK, Occupied, roomVars
  <2> QED BY <1>1, <1>3, <2>1, <2>2, ListedAddr, Moves
<1> QED
  BY <1>1, <1>2, <1>4

LEMMA RegisterStep ==
    ASSUME RegistryInv, NEW k \in Conns, NEW u \in Users, REGISTER(k, u)
    PROVE  RegistryInv' /\ (InRoomIsMember => InRoomIsMember')
<1> USE Parts
<1> USE DEF REGISTER
<1>1. DbOK'
  BY DEF DbOK, db_register_user
<1>2. CASE \E a \in ClientAddr : create_client(k, u, a)
  BY <1>1, <1>2, NewClient DEF create_client
<1>3. CASE UNCHANGED <<clientVars, croom>>
  <2>1. ClientsOK' /\ Listed' = Listed
    BY <1>3, ClientsSame
  <2>2. RoomsOK'
    BY RoomsKept DEF roomVars, RoomsOK
  <2>3. PlacesOK' /\ (InRoomIsMember => InRoomIsMember')
    BY <1>3, <2>1, NobodyMoves DEF roomVars
  <2> QED BY <1>1, <2>1, <2>2, <2>3
<1> QED
  BY <1>2, <1>3

LEMMA LoginStep ==
    ASSUME RegistryInv, NEW k \in Conns, NEW u \in Users, LOGIN(k, u)
    PROVE  RegistryInv' /\ (InRoomIsMember => InRoomIsMember')
<1> USE DEF LOGIN
<1>1. DbOK'
  BY Parts DEF DbOK, dbVars
<1>2. PICK a \in ClientAddr : create_client_force(k, u, a)
  BY DEF create_client
<1> QED
  BY <1>1, <1>2, NewClient

\* The client leaves its room before it is freed, so no array keeps it.
LEMMA DepartStep ==
    ASSUME RegistryInv, NEW k \in Conns, Depart(k)
    PROVE  RegistryInv' /\ (InRoomIsMember => InRoomIsMember')
<1> DEFINE a == me[k]
           r == croom[a]
           m == room_remove_member(members, r, a)
<1> USE Parts
<1>1. a # Null /\ a \in Listed /\ a \in ClientAddr /\ Listed \subseteq ClientAddr
  BY OwnListed, ListedAddr DEF Depart
<1>2. ClientsOK' /\ Listed' = Listed \ {a}
  BY ClientGone DEF Depart
<1>3. DbOK'
  BY DEF DbOK, dbVars, Depart
<1>4. /\ Without(members', a) /\ room_list' \subseteq room_list
      /\ \A s \in RoomAddr : members'[s] # {} => s \in room_list'
  <2>1. CASE r = Null
    BY <1>1, <2>1, NotIn DEF Depart, PlacesOK, Occupied
  <2>2. CASE r # Null
    <3>1. r \in RoomAddr
      BY <1>1, <2>2 DEF PlacesOK
    <3>2. Without(m, a)
      BY <1>1, <3>1, TakenOut
    <3>3. members' = m /\ room_delete_if_empty(m, r)
      BY <2>2 DEF Depart
    <3> HIDE DEF m
    <3>4. \A s \in RoomAddr : m[s] # {} => s \in room_list
      BY <3>2 DEF Without, PlacesOK, Occupied
    <3> QED BY <3>2, <3>3, <3>4, DeletedIfEmpty
  <2> QED BY <2>1, <2>2
<1>5. RoomsOK'
  BY <1>4, RoomsKept DEF Depart, RoomsOK
<1>6. croom' = [croom EXCEPT ![a] = Null]
  BY DEF Depart
<1> HIDE DEF a
<1>7. PlacesOK' /\ (InRoomIsMember => InRoomIsMember')
  BY <1>1, <1>2, <1>4, <1>6, Moves DEF Without
<1> QED
  BY <1>2, <1>3, <1>5, <1>7

\* Both CREATE commands: the creator enters its room if it is in no other.
LEMMA CreatesRoom ==
    ASSUME RegistryInv, NEW k \in Conns, NEW n \in Names, me[k] # Null,
           NEW r \in RoomAddr, create_room(me[k], n, r),
           \/ /\ croom[me[k]] = Null
              /\ members' = room_add_member(members, r, me[k])
              /\ croom' = [croom EXCEPT ![me[k]] = r]
           \/ UNCHANGED <<members, croom>>,
           UNCHANGED clientVars, DbOK'
    PROVE  RegistryInv' /\ (InRoomIsMember => InRoomIsMember')
<1> DEFINE a == me[k]
<1> USE Parts
<1>1. a # Null /\ a \in Listed /\ a \in ClientAddr /\ Listed \subseteq ClientAddr
  BY OwnListed, ListedAddr
<1>2. ClientsOK' /\ Listed' = Listed
  BY ClientsSame
<1>3. RoomsOK'
  BY <1>1, RoomCreated
<1>4. room_list' = room_list \cup {r}
  BY DEF create_room
<1>5. CASE UNCHANGED <<members, croom>>
  BY <1>2, <1>3, <1>4, <1>5, NobodyMoves
<1>6. CASE /\ croom[a] = Null
           /\ members' = room_add_member(members, r, a)
           /\ croom' = [croom EXCEPT ![a] = r]
  <2>1. Without(members, a)
    BY <1>1, <1>6, NotIn
  <2>2. /\ members' \in [RoomAddr -> SUBSET ClientAddr] /\ a \in members'[r]
        /\ \A s \in RoomAddr : members'[s] \ {a} = members[s] \ {a}
        /\ \A s \in RoomAddr : s # r => members'[s] = members[s]
    BY <1>1, <1>6, <2>1 DEF Without, room_add_member
  <2>3. \A s \in RoomAddr : members'[s] # {} => s \in room_list'
    BY <1>4, <2>2 DEF PlacesOK, Occupied
  <2>4. \A s \in RoomAddr : a \in members'[s] => r = s
    BY <2>1, <2>2 DEF Without
  <2> HIDE DEF a
  <2>5. PlacesOK' /\ (InRoomIsMember => InRoomIsMember')
    BY <1>1, <1>2, <1>6, <2>2, <2>3, <2>4, Moves
  <2> QED BY <1>2, <1>3, <2>5
<1> QED
  BY <1>5, <1>6

LEMMA CreateStep ==
    ASSUME RegistryInv, NEW k \in Conns, NEW n \in Names,
           CREATE(k, n) \/ CREATE_PRIVATE(k, n)
    PROVE  RegistryInv' /\ (InRoomIsMember => InRoomIsMember')
<1> USE DEF CREATE, CREATE_PRIVATE
<1>1. me[k] # Null /\ cname[me[k]] \in Users
  BY Parts, OwnListed DEF ClientsOK
<1>2. DbOK'
  <2>1. ROLE_OWNER \in ROLE_MEMBER..ROLE_OWNER
    BY DEF ROLE_OWNER, ROLE_MEMBER
  <2>2. role' \in [Names \X Users -> ROLE_MEMBER..ROLE_OWNER]
    BY Parts, <1>1, <2>1 DEF DbOK, dbVars, permission_set_role
  <2> QED BY Parts, <2>2 DEF DbOK, dbVars
<1> QED
  BY <1>1, <1>2, CreatesRoom

\* What the array looks like once a has left its room, if it was in one.
OutOf(a) == IF croom[a] = Null THEN members
                               ELSE room_remove_member(members, croom[a], a)

LEMMA LeftOld ==
    ASSUME RegistryInv, NEW k \in Conns, me[k] # Null
    PROVE  /\ Without(OutOf(me[k]), me[k]) /\ me[k] \in Listed /\ me[k] \in ClientAddr
           /\ \A s \in RoomAddr : OutOf(me[k])[s] # {} => s \in room_list
<1> USE Parts
<1>1. me[k] \in Listed /\ me[k] \in ClientAddr
  BY OwnListed
<1>2. Without(OutOf(me[k]), me[k])
  <2>1. CASE croom[me[k]] = Null
    BY <1>1, <2>1, NotIn DEF OutOf
  <2>2. CASE croom[me[k]] # Null
    <3>1. croom[me[k]] \in RoomAddr
      BY <1>1, <2>2 DEF PlacesOK
    <3> QED BY <1>1, <2>2, <3>1, TakenOut DEF OutOf
  <2> QED BY <2>1, <2>2
<1>3. \A s \in RoomAddr : OutOf(me[k])[s] # {} => s \in room_list
  BY <1>2 DEF Without, PlacesOK, Occupied
<1> QED
  BY <1>1, <1>2, <1>3

\* A client that has left its room enters another one of the list.
LEMMA EntersRoom ==
    ASSUME RegistryInv, NEW k \in Conns, me[k] # Null, NEW r \in room_list,
           members' = room_add_member(OutOf(me[k]), r, me[k]),
           croom' = [croom EXCEPT ![me[k]] = r],
           Listed' = Listed, UNCHANGED room_list
    PROVE  PlacesOK' /\ (InRoomIsMember => InRoomIsMember')
<1> DEFINE a == me[k]
           m == OutOf(a)
<1>1. /\ Without(m, a) /\ a \in Listed /\ a \in ClientAddr
      /\ \A s \in RoomAddr : m[s] # {} => s \in room_list
  BY LeftOld
<1>2. PlacesOK /\ r \in RoomAddr /\ Listed \subseteq ClientAddr
  BY Parts, ListedAddr DEF RoomsOK
<1>3. members' = room_add_member(m, r, a) /\ croom' = [croom EXCEPT ![a] = r]
  OBVIOUS
<1> HIDE DEF a, m
<1>4. /\ members' \in [RoomAddr -> SUBSET ClientAddr] /\ a \in members'[r]
      /\ \A s \in RoomAddr : members'[s] \ {a} = members[s] \ {a}
      /\ \A s \in RoomAddr : a \in members'[s] => r = s
      /\ \A s \in RoomAddr : members'[s] # {} => s \in room_list'
  <2>1. m \in [RoomAddr -> SUBSET ClientAddr]
    BY <1>1 DEF Without
  <2>2. \A s \in RoomAddr : members'[s] = IF s = r THEN m[s] \cup {a} ELSE m[s]
    BY <1>2, <1>3, <2>1 DEF room_add_member
  <2>3. members' \in [RoomAddr -> SUBSET ClientAddr]
    <3>1. members' = [s \in RoomAddr |-> IF s = r THEN m[s] \cup {a} ELSE m[s]]
      BY <1>2, <1>3, <2>1 DEF room_add_member
    <3>2. \A s \in RoomAddr : (IF s = r THEN m[s] \cup {a} ELSE m[s]) \in SUBSET ClientAddr
      BY <1>1, <2>1
    <3> QED BY <3>1, <3>2
  <2>4. \A s \in RoomAddr : members'[s] \ {a} = members[s] \ {a}
    BY <1>1, <2>2 DEF Without
  <2>5. a \in members'[r] /\ \A s \in RoomAddr : a \in members'[s] => r = s
    BY <1>1, <1>2, <2>2 DEF Without
  <2>6. \A s \in RoomAddr : members'[s] # {} => s \in room_list'
    BY <1>1, <2>2
  <2> QED BY <2>3, <2>4, <2>5, <2>6
<1> QED
  BY <1>1, <1>2, <1>3, <1>4, Moves

\* JOIN leaves first; the refusal keeps current_room only for a client that its
\* old room does not know.
LEMMA JoinStep ==
    ASSUME RegistryInv, NEW k \in Conns, NEW n \in Names, JOIN(k, n)
    PROVE  RegistryInv' /\ (InRoomIsMember => InRoomIsMember')
<1> DEFINE a == me[k]
           old == croom[a]
           now == IF old # Null /\ a \in members[old] THEN Null ELSE old
<1> USE Parts
<1>1. a # Null /\ UNCHANGED <<dbVars, clientVars, roomVars, admin>>
  BY DEF JOIN
<1>2. DbOK' /\ RoomsOK' /\ ClientsOK' /\ Listed' = Listed
  BY <1>1, RoomsKept, ClientsSame DEF DbOK, dbVars, roomVars, RoomsOK
<1>3. \/ \E r \in find_room(n) :
            /\ members' = room_add_member(OutOf(a), r, a)
            /\ croom' = [croom EXCEPT ![a] = r]
      \/ members' = OutOf(a) /\ croom' = [croom EXCEPT ![a] = now]
  BY DEF JOIN, OutOf
<1>4. CASE \E r \in find_room(n) :
            /\ members' = room_add_member(OutOf(a), r, a)
            /\ croom' = [croom EXCEPT ![a] = r]
  BY <1>1, <1>2, <1>4, EntersRoom DEF find_room, roomVars
<1>5. CASE members' = OutOf(a) /\ croom' = [croom EXCEPT ![a] = now]
  <2>1. /\ Without(members', a) /\ a \in Listed /\ a \in ClientAddr
        /\ \A s \in RoomAddr : members'[s] # {} => s \in room_list'
    BY <1>1, <1>5, LeftOld DEF roomVars
  <2>2. now \in RoomAddr \cup {Null} /\ Listed \subseteq ClientAddr
    BY <2>1, ListedAddr DEF PlacesOK
  <2>3. InRoomIsMember => now = Null
    BY <2>1 DEF InRoomIsMember
  <2> HIDE DEF a, now
  <2>4. PlacesOK' /\ (InRoomIsMember => InRoomIsMember')
    BY <1>2, <1>5, <2>1, <2>2, <2>3, Moves DEF Without
  <2> QED BY <1>2, <2>4
<1> QED
  BY <1>3, <1>4, <1>5

\* LEAVE, KICK and BAN: a client of the list loses its room; the room may go
\* with it when nobody is left.
LEMMA LosesRoom ==
    ASSUME RegistryInv, NEW t \in Listed, croom[t] # Null,
           members' = room_remove_member(members, croom[t], t),
           croom' = [croom EXCEPT ![t] = Null],
           room_delete_if_empty(members', croom[t]) \/ UNCHANGED room_list,
           UNCHANGED <<clientVars, rname, admin>>, DbOK'
    PROVE  RegistryInv' /\ (InRoomIsMember => InRoomIsMember')
<1> USE Parts
<1>1. ClientsOK' /\ Listed' = Listed /\ Listed \subseteq ClientAddr
  BY ClientsSame, ListedAddr
<1>2. t \in ClientAddr /\ croom[t] \in RoomAddr
  BY <1>1 DEF PlacesOK
<1>3. Without(members', t)
  BY <1>2, TakenOut
<1>4. \A s \in RoomAddr : members'[s] # {} => s \in room_list
  BY <1>3 DEF Without, PlacesOK, Occupied
<1>5. /\ room_list' \subseteq room_list
      /\ \A s \in RoomAddr : members'[s] # {} => s \in room_list'
  BY <1>4, DeletedIfEmpty
<1>6. RoomsOK'
  BY <1>5, RoomsKept DEF RoomsOK
<1>7. PlacesOK' /\ (InRoomIsMember => InRoomIsMember')
  BY <1>1, <1>2, <1>3, <1>5, Moves DEF Without
<1> QED
  BY <1>1, <1>6, <1>7

LEMMA LeaveStep ==
    ASSUME RegistryInv, NEW k \in Conns, LEAVE(k)
    PROVE  RegistryInv' /\ (InRoomIsMember => InRoomIsMember')
<1>1. me[k] # Null /\ me[k] \in Listed
  BY Parts, OwnListed DEF LEAVE
<1>2. DbOK'
  BY Parts DEF DbOK, dbVars, LEAVE
<1> QED
  BY <1>1, <1>2, LosesRoom DEF LEAVE

LEMMA KickStep ==
    ASSUME RegistryInv, NEW k \in Conns, NEW u \in Users, KICK(k, u)
    PROVE  RegistryInv' /\ (InRoomIsMember => InRoomIsMember')
<1> DEFINE t == find_client(u)
<1>1. t \in Listed
  BY Parts, FoundListed DEF KICK
<1>2. DbOK'
  BY Parts DEF DbOK, dbVars, KICK
<1>3. /\ croom[t] # Null /\ members' = room_remove_member(members, croom[t], t)
      /\ croom' = [croom EXCEPT ![t] = Null]
      /\ room_delete_if_empty(members', croom[t])
      /\ UNCHANGED <<clientVars, rname, admin>>
  BY DEF KICK
<1> HIDE DEF t
<1> QED
  BY <1>1, <1>2, <1>3, LosesRoom

LEMMA PromoteStep ==
    ASSUME RegistryInv, NEW k \in Conns, NEW u \in Users, PROMOTE(k, u)
    PROVE  RegistryInv' /\ (InRoomIsMember => InRoomIsMember')
<1> USE Parts
<1> USE DEF PROMOTE
<1>1. find_client(u) \in ClientAddr
  BY FoundListed
<1>2. admin' \in [RoomAddr -> ClientAddr \cup {Null}]
  BY <1>1 DEF RoomsOK
<1>3. DbOK' /\ RoomsOK'
  BY <1>2, RoomsKept DEF DbOK, dbVars, roomVars
<1>4. ClientsOK' /\ Listed' = Listed
  BY ClientsSame
<1>5. PlacesOK' /\ (InRoomIsMember => InRoomIsMember')
  BY <1>4, NobodyMoves DEF roomVars
<1> QED
  BY <1>3, <1>4, <1>5

\* The commands that only write the tables.
LEMMA TablesOnly ==
    ASSUME RegistryInv, DbOK',
           UNCHANGED <<clientVars, croom, roomVars, members, admin>>
    PROVE  RegistryInv' /\ (InRoomIsMember => InRoomIsMember')
<1> USE Parts
<1>1. ClientsOK' /\ Listed' = Listed /\ RoomsOK'
  BY ClientsSame, RoomsKept DEF roomVars, RoomsOK
<1>2. PlacesOK' /\ (InRoomIsMember => InRoomIsMember')
  BY <1>1, NobodyMoves DEF roomVars
<1> QED
  BY <1>1, <1>2

\* The room a command reads through current_room is in the list, so what it
\* writes to the tables is a room name.
LEMMA RoomNameRead ==
    ASSUME RegistryInv, NoDanglingRoom, NEW k \in Conns, me[k] # Null,
           croom[me[k]] # Null
    PROVE  /\ croom[me[k]] \in RoomAddr /\ rname[croom[me[k]]] \in Names
           /\ me[k] \in Listed /\ cname[me[k]] \in Users
<1>1. me[k] \in Listed /\ cname[me[k]] \in Users
  BY Parts, OwnListed DEF ClientsOK
<1> QED
  BY <1>1, Parts DEF NoDanglingRoom, RoomsOK

LEMMA BanStep ==
    ASSUME RegistryInv, NoDanglingRoom, NEW k \in Conns, NEW u \in Users, BAN(k, u)
    PROVE  RegistryInv' /\ (InRoomIsMember => InRoomIsMember')
<1> DEFINE t == find_client(u)
           r == croom[me[k]]
<1>1. r # Null /\ rname[r] \in Names /\ <<rname[r], u>> \in Names \X Users
  BY RoomNameRead DEF BAN
<1>2. DbOK'
  BY <1>1, Parts DEF DbOK, BAN, ban_add
<1>3. CASE Entries(u) # {} /\ croom[t] = r
  <2>1. t \in Listed
    BY <1>3, Parts, FoundListed
  <2>2. /\ croom[t] # Null /\ members' = room_remove_member(members, croom[t], t)
        /\ croom' = [croom EXCEPT ![t] = Null]
        /\ UNCHANGED <<clientVars, room_list, rname, admin>>
    BY <1>1, <1>3 DEF BAN, roomVars
  <2> HIDE DEF t
  <2> QED BY <1>2, <2>1, <2>2, LosesRoom
<1>4. CASE ~(Entries(u) # {} /\ croom[t] = r)
  BY <1>2, <1>4, TablesOnly DEF BAN
<1> QED
  BY <1>3, <1>4

LEMMA TableStep ==
    ASSUME RegistryInv, NoDanglingRoom, NEW k \in Conns,
           \/ \E u \in Users : DEMOTE(k, u) \/ INVITE(k, u)
           \/ \E n \in Names : DECLINE(k, n)
    PROVE  RegistryInv' /\ (InRoomIsMember => InRoomIsMember')
<1> USE Parts
<1>1. CASE \E u \in Users : DEMOTE(k, u)
  <2>1. PICK u \in Users : DEMOTE(k, u)
    BY <1>1
  <2> DEFINE p == <<rname[croom[me[k]]], u>>
  <2>2. p \in Names \X Users
    BY <2>1, RoomNameRead DEF DEMOTE
  <2>3. role' = [role EXCEPT ![p] = role[p] - 1] /\ role[p] > ROLE_MEMBER
    BY <2>1 DEF DEMOTE, permission_set_role, permission_get_role
  <2> HIDE DEF p
  <2>4. role' \in [Names \X Users -> ROLE_MEMBER..ROLE_OWNER]
    <3>1. role[p] \in ROLE_MEMBER..ROLE_OWNER
      BY <2>2 DEF DbOK
    <3>2. role[p] - 1 \in ROLE_MEMBER..ROLE_OWNER
      BY <2>3, <3>1 DEF ROLE_MEMBER, ROLE_OWNER
    <3> QED BY <2>3, <3>2 DEF DbOK
  <2>5. DbOK'
    BY <2>1, <2>4 DEF DbOK, DEMOTE
  <2> QED BY <2>1, <2>5, TablesOnly DEF DEMOTE
<1>2. CASE \E u \in Users : INVITE(k, u)
  <2>1. PICK u \in Users : INVITE(k, u)
    BY <1>2
  <2>2. DbOK'
    BY <2>1, RoomNameRead DEF DbOK, INVITE, invite_create
  <2> QED BY <2>1, <2>2, TablesOnly DEF INVITE
<1>3. CASE \E n \in Names : DECLINE(k, n)
  <2>1. DbOK'
    BY <1>3 DEF DbOK, DECLINE, invite_accept
  <2> QED BY <1>3, <2>1, TablesOnly DEF DECLINE
<1> QED
  BY <1>1, <1>2, <1>3

\* ACCEPT enters the room if it has a place, and points to it in any case.
LEMMA AcceptStep ==
    ASSUME RegistryInv, NEW k \in Conns, NEW n \in Names, ACCEPT(k, n)
    PROVE  RegistryInv' /\ (InRoomIsMember /\ ~AcceptsFull => InRoomIsMember')
<1> DEFINE a == me[k]
<1> USE Parts
<1>1. a # Null /\ UNCHANGED <<users, role, bans, clientVars, roomVars, admin>>
  BY DEF ACCEPT
<1>2. DbOK' /\ RoomsOK' /\ ClientsOK' /\ Listed' = Listed /\ UNCHANGED room_list
  <2>1. DbOK'
    BY DEF DbOK, ACCEPT, invite_accept
  <2> QED BY <1>1, <2>1, RoomsKept, ClientsSame DEF roomVars, RoomsOK
<1>3. CASE UNCHANGED <<members, croom>>
  BY <1>2, <1>3, NobodyMoves
<1>4. CASE \E r \in find_room(n) :
            /\ members' = IF HasPlace(OutOf(a), r)
                          THEN room_add_member(OutOf(a), r, a) ELSE OutOf(a)
            /\ croom' = [croom EXCEPT ![a] = r]
  <2>1. PICK r \in find_room(n) :
            /\ members' = IF HasPlace(OutOf(a), r)
                          THEN room_add_member(OutOf(a), r, a) ELSE OutOf(a)
            /\ croom' = [croom EXCEPT ![a] = r]
    BY <1>4
  <2>2. r \in room_list /\ r \in RoomAddr
    BY DEF find_room, RoomsOK
  <2>3. CASE HasPlace(OutOf(a), r)
    BY <1>1, <1>2, <2>1, <2>2, <2>3, EntersRoom
  <2>4. CASE ~HasPlace(OutOf(a), r)
    <3>1. AcceptsFull
      BY <2>4 DEF AcceptsFull, OutOf
    <3>2. /\ Without(members', a) /\ a \in Listed /\ a \in ClientAddr
          /\ \A s \in RoomAddr : members'[s] # {} => s \in room_list'
          /\ Listed \subseteq ClientAddr
      BY <1>1, <1>2, <2>1, <2>4, LeftOld, ListedAddr
    <3> HIDE DEF a
    <3>3. PlacesOK'
      BY <1>2, <2>1, <2>2, <3>2, Moves DEF Without
    <3> QED BY <1>2, <3>1, <3>3
  <2> QED BY <2>3, <2>4
<1> QED
  BY <1>3, <1>4 DEF ACCEPT, OutOf

\* Every client of the list has a place when the arrays are as large as the
\* list: whoever accepts is not one of the others.
LEMMA PlaceForAll ==
    ASSUME RegistryInv, MaxClients <= MaxMembers
    PROVE  ~AcceptsFull
<1> SUFFICES ASSUME NEW k \in Conns, me[k] # Null, NEW r \in RoomAddr
             PROVE  HasPlace(OutOf(me[k]), r)
  BY Parts DEF AcceptsFull, ACCEPT, OutOf, find_room, RoomsOK
<1> DEFINE a == me[k]
           n == Len(client_list)
<1>1. Without(OutOf(a), a) /\ a \in Listed
  BY LeftOld
<1>2. n \in Nat /\ n <= MaxClients /\ client_list \in [1..n -> ClientAddr]
  BY Parts DEF ClientsOK
<1>3. IsFiniteSet(Listed) /\ Cardinality(Listed) <= n
  <2>1. IsFiniteSet(1..n) /\ Cardinality(1..n) = n
    BY <1>2, FS_Interval
  <2>2. client_list \in Surjection(1..n, Listed)
    BY <1>2 DEF Surjection, Listed
  <2> HIDE DEF n
  <2> QED BY <2>1, <2>2, FS_Surjection
<1>4. /\ IsFiniteSet(Listed \ {a}) /\ Cardinality(Listed \ {a}) = Cardinality(Listed) - 1
      /\ Cardinality(Listed) \in Nat
  BY <1>1, <1>3, FS_RemoveElement, FS_CardinalityType
<1>5. OutOf(a)[r] \subseteq Listed \ {a}
  BY <1>1, Parts DEF Without, PlacesOK, MembersCurrent
<1>6. /\ Cardinality(OutOf(a)[r]) <= Cardinality(Listed \ {a})
      /\ Cardinality(OutOf(a)[r]) \in Nat
  BY <1>4, <1>5, FS_Subset, FS_CardinalityType
<1> QED
  BY <1>2, <1>3, <1>4, <1>6, RegistryAssumption DEF HasPlace

LEMMA RegistryStep ==
    ASSUME RegistryInv, [Next]_vars
    PROVE  RegistryInv' /\ (InRoomIsMember /\ [~AcceptsFull]_vars => InRoomIsMember')
<1>1. CASE UNCHANGED vars
  <2>1. DbOK'
    BY <1>1, Parts DEF DbOK, vars, dbVars
  <2> QED BY <1>1, <2>1, TablesOnly DEF vars
<1>2. CASE Next /\ ~UNCHANGED vars
  <2>1. PICK k \in Conns : Command(k)
    BY <1>2 DEF Next
  <2>2. NoDanglingRoom
    BY <1>2 DEF Next
  <2>3. CASE Account(k)
    BY <2>3, RegisterStep, LoginStep, DepartStep
       DEF Account, LOGOUT, LOGOUT_ALL, disconnect_cleanup
  <2>4. CASE RoomCommand(k)
    BY <2>4, CreateStep, JoinStep, LeaveStep, KickStep, PromoteStep DEF RoomCommand
  <2>5. CASE Moderate(k)
    BY <1>2, <2>2, <2>5, CreateStep, BanStep, TableStep, AcceptStep DEF Moderate
  <2> QED BY <2>1, <2>3, <2>4, <2>5 DEF Command
<1> QED
  BY <1>1, <1>2

-------------------------------------------------------------------------------
\* The invariant holds of every behaviour, whatever the capacities.
THEOREM RegistryInvariant == Spec => []RegistryInv
<1>1. Init => RegistryInv
  BY InitRegistry
<1>2. RegistryInv /\ [Next]_vars => RegistryInv'
  BY RegistryStep
<1> QED
  BY <1>1, <1>2, PTL DEF Spec

\* OwnedOnce: after every command the clients of client_list are exactly the
\* ones the connections own, each owned by one and listed once.
THEOREM ClientsOwnedOnce == Spec => []OwnedOnce
<1>1. RegistryInv => OwnedOnce
  BY DEF RegistryInv
<1> QED
  BY <1>1, RegistryInvariant, PTL

\* As long as no ACCEPT meets a full array, every client that points to a room
\* is in its array and the room is in room_list: room_delete_if_empty never
\* deletes a room somebody points to.
THEOREM PointersAgreeUnlessFull ==
    Spec /\ [][~AcceptsFull]_vars => [](PointersAgree /\ NoDanglingRoom)
<1>1. Init => RegistryInv /\ InRoomIsMember
  BY InitRegistry
<1>2. RegistryInv /\ InRoomIsMember /\ [Next]_vars /\ [~AcceptsFull]_vars
        => RegistryInv' /\ InRoomIsMember'
  BY RegistryStep
<1>3. RegistryInv /\ InRoomIsMember => PointersAgree /\ NoDanglingRoom
  <2> SUFFICES ASSUME RegistryInv, InRoomIsMember PROVE PointersAgree /\ NoDanglingRoom
    OBVIOUS
  <2>1. PointersAgree
    BY DEF RegistryInv, PointersAgree
  <2>2. \A a \in Listed : a \in ClientAddr /\ croom[a] \in RoomAddr \cup {Null}
    BY Parts, ListedAddr DEF PlacesOK
  <2>3. NoDanglingRoom
    BY <2>2 DEF NoDanglingRoom, InRoomIsMember, RegistryInv, Occupied
  <2> QED BY <2>1, <2>3
<1> QED
  BY <1>1, <1>2, <1>3, PTL DEF Spec

\* With arrays as large as client_list no ACCEPT meets a full one, and
\* PointersAgree holds of every behaviour.
THEOREM PointersAlwaysAgree ==
    ASSUME MaxClients <= MaxMembers
    PROVE  Spec => []PointersAgree
<1>1. RegistryInv => [~AcceptsFull]_vars
  BY PlaceForAll
<1> QED
  BY <1>1, RegistryInvariant, PointersAgreeUnlessFull, PTL

\* Under the same condition no client ever points to a room that
\* delete_room freed.
THEOREM NeverDanglingRoom ==
    ASSUME MaxClients <= MaxMembers
    PROVE  Spec => []NoDanglingRoom
<1>1. RegistryInv => [~AcceptsFull]_vars
  BY PlaceForAll
<1> QED
  BY <1>1, RegistryInvariant, PointersAgreeUnlessFull, PTL
===============================================================================
