------------------------------- MODULE Registry --------------------------------
(***************************************************************************)
(* Who is connected and who is in which room: client_list and room_list of *)
(* src/src/registry.c, the pointers between them, and the commands of      *)
(* process_line (src/src/client_handler.c) that move them, together with   *)
(* the roles, invitations and bans those commands consult.                 *)
(*                                                                         *)
(* Here a command is one step: one worker, or commands that happen not to  *)
(* overlap.  Module RoomRace splits them at their lock operations.  A      *)
(* command that is refused and changes nothing is no step.                 *)
(*                                                                         *)
(* Clients and rooms are heap objects: malloc may return any address that  *)
(* is not in use, one freed before included, and a pointer kept to a freed *)
(* object stays.  members[r] is a set: room_add_member is reached only     *)
(* with current_room NULL, and MembersCurrent then excludes a second entry.*)
(***************************************************************************)
EXTENDS Integers, Sequences, FiniteSets

CONSTANTS Conns, Users, Names,      \* connections, usernames, room names
          ClientAddr, RoomAddr,     \* heap addresses
          Null,
          MaxClients, MaxRooms, MaxMembers

ASSUME RegistryAssumption ==
    /\ Null \notin ClientAddr \cup RoomAddr
    /\ IsFiniteSet(RoomAddr)
    /\ MaxClients \in Nat /\ MaxRooms \in Nat /\ MaxMembers \in Nat

VARIABLES users,             \* rows of the users table
          client_list,       \* in order of creation
          cname, croom,      \* client_t: client_name, current_room
          me,                \* conn_t: me
          room_list,         \* its order is never consulted: names are unique
          rname, members,    \* room_t: room_name, members[]
          admin,             \* room_t: admin_client
          role,              \* room_roles table, by room name and user
          invites, bans      \* tables of pairs of a room name and a user

clientVars == <<client_list, cname, me>>
roomVars   == <<room_list, rname>>
dbVars     == <<users, role, invites, bans>>
vars == <<dbVars, clientVars, croom, roomVars, members, admin>>

ROLE_MEMBER == 0
ROLE_ADMIN  == 2
ROLE_OWNER  == 3

Listed == {client_list[i] : i \in 1..Len(client_list)}

Init ==
    /\ users = {} /\ invites = {} /\ bans = {}
    /\ role = [p \in Names \X Users |-> ROLE_MEMBER]
    /\ client_list = <<>>
    /\ cname = [a \in ClientAddr |-> Null]
    /\ croom = [a \in ClientAddr |-> Null]
    /\ me = [k \in Conns |-> Null]
    /\ room_list = {}
    /\ rname = [r \in RoomAddr |-> Null]
    /\ members = [r \in RoomAddr |-> {}]
    /\ admin = [r \in RoomAddr |-> Null]

\* A client that points to a deleted room: its next command dereferences freed
\* memory, and nothing is modelled from there on.
NoDanglingRoom == \A a \in Listed : croom[a] \in room_list \cup {Null}

-------------------------------------------------------------------------------
(***************************************************************************)
(* registry.c.                                                             *)
(***************************************************************************)
Entries(u) == {i \in 1..Len(client_list) : cname[client_list[i]] = u}

\* The first client of that name: a user logged in twice has several.
find_client(u) ==
    client_list[CHOOSE i \in Entries(u) : \A j \in Entries(u) : i <= j]

find_room(n) == {r \in room_list : rname[r] = n}

create_client_force(k, u, a) ==
    /\ Len(client_list) < MaxClients
    /\ a \in ClientAddr \ Listed
    /\ client_list' = Append(client_list, a)
    /\ cname' = [cname EXCEPT ![a] = u]
    /\ croom' = [croom EXCEPT ![a] = Null]
    /\ me' = [me EXCEPT ![k] = a]

create_client(k, u, a) == Entries(u) = {} /\ create_client_force(k, u, a)

\* shift_array_client_list over the first entry that is the client.
delete_client(a) ==
    \E i \in 1..Len(client_list) :
        /\ client_list[i] = a
        /\ client_list' = [j \in 1..Len(client_list) - 1 |->
                              client_list[IF j < i THEN j ELSE j + 1]]

create_room(a, n, r) ==
    /\ Cardinality(room_list) < MaxRooms
    /\ find_room(n) = {}
    /\ r \in RoomAddr \ room_list
    /\ room_list' = room_list \cup {r}
    /\ rname' = [rname EXCEPT ![r] = n]
    /\ admin' = [admin EXCEPT ![r] = a]

room_remove_member(m, r, a) == [m EXCEPT ![r] = @ \ {a}]

room_add_member(m, r, a) == [m EXCEPT ![r] = @ \cup {a}]

HasPlace(m, r) == Cardinality(m[r]) < MaxMembers

\* room_delete_if_empty and delete_room, with the members the room has by then.
room_delete_if_empty(m, r) ==
    room_list' = IF m[r] = {} THEN room_list \ {r} ELSE room_list

-------------------------------------------------------------------------------
(***************************************************************************)
(* The commands that come and go.                                          *)
(***************************************************************************)
db_register_user(u) == u \notin users /\ users' = users \cup {u}

\* The user row is written first; it stays when no client can be created.
REGISTER(k, u) ==
    /\ me[k] = Null
    /\ db_register_user(u)
    /\ \/ \E a \in ClientAddr : create_client(k, u, a)
       \/ /\ Entries(u) # {} \/ Len(client_list) >= MaxClients
          /\ UNCHANGED <<clientVars, croom>>
    /\ UNCHANGED <<role, invites, bans, roomVars, members, admin>>

\* The password was right.  An older client of the same user stays.
LOGIN(k, u) ==
    /\ me[k] = Null /\ u \in users
    /\ \E a \in ClientAddr : IF Entries(u) = {} THEN create_client(k, u, a)
                                                ELSE create_client_force(k, u, a)
    /\ UNCHANGED <<dbVars, roomVars, members, admin>>

\* Mutant: conn->me keeps the freed client.
Depart_KeepMe(k) ==
    /\ me[k] # Null
    /\ croom[me[k]] = Null
    /\ delete_client(me[k])
    /\ UNCHANGED <<dbVars, me, cname, croom, roomVars, members, admin>>

\* Leave the room, delete it if it is empty, free the client.
Depart(k) ==
    LET a == me[k]
        r == croom[a]
        m == room_remove_member(members, r, a)
    IN  /\ a # Null
        /\ IF r = Null THEN UNCHANGED <<members, room_list>>
                       ELSE members' = m /\ room_delete_if_empty(m, r)
        /\ delete_client(a)
        /\ me' = [me EXCEPT ![k] = Null]
        /\ croom' = [croom EXCEPT ![a] = Null]
        /\ UNCHANGED <<dbVars, cname, rname, admin>>

LOGOUT(k)             == Depart(k)
LOGOUT_ALL(k)         == Depart(k)
disconnect_cleanup(k) == Depart(k)

-------------------------------------------------------------------------------
(***************************************************************************)
(* Rooms.                                                                  *)
(***************************************************************************)
\* A client that is in another room creates the room and is then refused as
\* its member: the new room stays, empty.
CREATE(k, n) ==
    LET a == me[k] IN
    /\ a # Null
    /\ \E r \in RoomAddr :
          /\ create_room(a, n, r)
          /\ IF croom[a] = Null /\ HasPlace(members, r)
             THEN /\ members' = room_add_member(members, r, a)
                  /\ croom' = [croom EXCEPT ![a] = r]
             ELSE UNCHANGED <<members, croom>>
    /\ UNCHANGED <<dbVars, clientVars>>

permission_set_role(n, u, x) == role' = [role EXCEPT ![<<n, u>>] = x]

\* The same with a role: only here somebody becomes the owner of a room name.
CREATE_PRIVATE(k, n) ==
    LET a == me[k] IN
    /\ a # Null
    /\ \E r \in RoomAddr :
          /\ create_room(a, n, r)
          /\ IF croom[a] = Null /\ HasPlace(members, r)
             THEN /\ members' = room_add_member(members, r, a)
                  /\ croom' = [croom EXCEPT ![a] = r]
                  /\ permission_set_role(n, cname[a], ROLE_OWNER)
             ELSE UNCHANGED <<members, croom, role>>
    /\ UNCHANGED <<users, invites, bans, clientVars>>

\* Mutant: joining does not leave the room the client is in.
JOIN_StayInOld(k, n) ==
    LET a == me[k] IN
    /\ a # Null
    /\ \E r \in find_room(n) :
          /\ HasPlace(members, r)
          /\ members' = room_add_member(members, r, a)
          /\ croom' = [croom EXCEPT ![a] = r]
    /\ UNCHANGED <<dbVars, clientVars, roomVars, admin>>

\* Leave the old room first, even when the new one does not exist or is full;
\* the old room is not deleted when it becomes empty.  A client that its old
\* room does not know keeps current_room, and is refused.
JOIN(k, n) ==
    LET a   == me[k]
        old == croom[a]
        m   == IF old = Null THEN members ELSE room_remove_member(members, old, a)
        now == IF old # Null /\ a \in members[old] THEN Null ELSE old
    IN  /\ a # Null
        /\ \/ \E r \in find_room(n) :
                 /\ now = Null /\ HasPlace(m, r)
                 /\ members' = room_add_member(m, r, a)
                 /\ croom' = [croom EXCEPT ![a] = r]
           \/ /\ \A r \in find_room(n) : now # Null \/ ~HasPlace(m, r)
              /\ members' = m
              /\ croom' = [croom EXCEPT ![a] = now]
        /\ UNCHANGED <<dbVars, clientVars, roomVars, admin>>

\* Mutant: current_room is not reset.
LEAVE_KeepCurrent(k) ==
    LET r == croom[me[k]]
        m == room_remove_member(members, r, me[k])
    IN  /\ me[k] # Null /\ r # Null
        /\ me[k] \in members[r]
        /\ members' = m
        /\ room_delete_if_empty(m, r)
        /\ UNCHANGED <<dbVars, clientVars, croom, rname, admin>>

LEAVE(k) ==
    LET a == me[k]
        r == croom[a]
        m == room_remove_member(members, r, a)
    IN  /\ a # Null /\ r # Null
        /\ a \in members[r]
        /\ members' = m
        /\ croom' = [croom EXCEPT ![a] = Null]
        /\ room_delete_if_empty(m, r)
        /\ UNCHANGED <<dbVars, clientVars, rname, admin>>

\* The target is the first client of that name, wherever it is.
KICK(k, u) ==
    LET a == me[k]
        r == croom[a]
        t == find_client(u)
        m == room_remove_member(members, r, t)
    IN  /\ a # Null /\ r # Null
        /\ admin[r] = a /\ cname[a] # u
        /\ Entries(u) # {} /\ croom[t] = r /\ t \in members[r]
        /\ members' = m
        /\ croom' = [croom EXCEPT ![t] = Null]
        /\ room_delete_if_empty(m, r)
        /\ UNCHANGED <<dbVars, clientVars, rname, admin>>

PROMOTE(k, u) ==
    LET a == me[k]
        r == croom[a]
    IN  /\ a # Null /\ r # Null
        /\ admin[r] = a
        /\ Entries(u) # {} /\ croom[find_client(u)] = r
        /\ admin' = [admin EXCEPT ![r] = find_client(u)]
        /\ UNCHANGED <<dbVars, clientVars, croom, roomVars, members>>

-------------------------------------------------------------------------------
(***************************************************************************)
(* Moderation and invitations.  The right of a client is the role of its   *)
(* user in the room's name, whoever holds admin_client.                    *)
(***************************************************************************)
permission_get_role(n, u) == role[<<n, u>>]

permission_check(a, least) == permission_get_role(rname[croom[a]], cname[a]) >= least

ban_add(n, u) == bans' = bans \cup {<<n, u>>}

invite_create(n, u) == invites' = invites \cup {<<n, u>>}

invite_find(n, u) == <<n, u>> \in invites

invite_accept(n, u) == invites' = invites \ {<<n, u>>}

\* The banned user is taken out of the room; the room is not deleted if empty.
BAN(k, u) ==
    LET a == me[k]
        r == croom[a]
        t == find_client(u)
    IN  /\ a # Null /\ r # Null
        /\ permission_check(a, ROLE_OWNER)
        /\ ban_add(rname[r], u)
        /\ IF Entries(u) # {} /\ croom[t] = r
           THEN /\ members' = room_remove_member(members, r, t)
                /\ croom' = [croom EXCEPT ![t] = Null]
           ELSE UNCHANGED <<members, croom>>
        /\ UNCHANGED <<users, role, invites, clientVars, roomVars, admin>>

DEMOTE(k, u) ==
    LET a == me[k]
        n == rname[croom[a]]
    IN  /\ a # Null /\ croom[a] # Null
        /\ permission_check(a, ROLE_OWNER)
        /\ u # cname[a] /\ permission_get_role(n, u) > ROLE_MEMBER
        /\ permission_set_role(n, u, permission_get_role(n, u) - 1)
        /\ UNCHANGED <<users, invites, bans, clientVars, croom, roomVars,
                       members, admin>>

INVITE(k, u) ==
    LET a == me[k] IN
    /\ a # Null /\ croom[a] # Null
    /\ permission_check(a, ROLE_ADMIN)
    /\ u \in users
    /\ invite_create(rname[croom[a]], u)
    /\ UNCHANGED <<users, role, bans, clientVars, croom, roomVars, members,
                   admin>>

\* The invitation is used up even when the room is gone.  Whether the room had
\* a place is not looked at: current_room is set in any case.
ACCEPT(k, n) ==
    LET a == me[k]
        m == IF croom[a] = Null THEN members
                                ELSE room_remove_member(members, croom[a], a)
    IN  /\ a # Null
        /\ invite_find(n, cname[a])
        /\ invite_accept(n, cname[a])
        /\ \/ find_room(n) = {} /\ UNCHANGED <<members, croom>>
           \/ \E r \in find_room(n) :
                 /\ members' = IF HasPlace(m, r) THEN room_add_member(m, r, a) ELSE m
                 /\ croom' = [croom EXCEPT ![a] = r]
        /\ UNCHANGED <<users, role, bans, clientVars, roomVars, admin>>

DECLINE(k, n) ==
    /\ me[k] # Null
    /\ invite_accept(n, cname[me[k]])
    /\ UNCHANGED <<users, role, bans, clientVars, croom, roomVars, members,
                   admin>>

-------------------------------------------------------------------------------
Account(k) ==
    \/ \E u \in Users : REGISTER(k, u)
    \/ \E u \in Users : LOGIN(k, u)
    \/ LOGOUT(k)
    \/ LOGOUT_ALL(k)
    \/ disconnect_cleanup(k)

RoomCommand(k) ==
    \/ \E n \in Names : CREATE(k, n)
    \/ \E n \in Names : JOIN(k, n)
    \/ LEAVE(k)
    \/ \E u \in Users : KICK(k, u)
    \/ \E u \in Users : PROMOTE(k, u)

Moderate(k) ==
    \/ \E n \in Names : CREATE_PRIVATE(k, n)
    \/ \E u \in Users : BAN(k, u)
    \/ \E u \in Users : DEMOTE(k, u)
    \/ \E u \in Users : INVITE(k, u)
    \/ \E n \in Names : ACCEPT(k, n)
    \/ \E n \in Names : DECLINE(k, n)

Command(k) == Account(k) \/ RoomCommand(k) \/ Moderate(k)

Next == NoDanglingRoom /\ \E k \in Conns : Command(k)

Spec == Init /\ [][Next]_vars

-------------------------------------------------------------------------------
(***************************************************************************)
(* Properties.                                                             *)
(***************************************************************************)
\* The type of every variable; roles and both lists stay within their limits.
TypeOK ==
    /\ users \subseteq Users
    /\ role \in [Names \X Users -> ROLE_MEMBER..ROLE_OWNER]
    /\ invites \subseteq Names \X Users /\ bans \subseteq Names \X Users
    /\ client_list \in Seq(ClientAddr) /\ Len(client_list) <= MaxClients
    /\ cname \in [ClientAddr -> Users \cup {Null}]
    /\ croom \in [ClientAddr -> RoomAddr \cup {Null}]
    /\ me \in [Conns -> ClientAddr \cup {Null}]
    /\ room_list \subseteq RoomAddr /\ Cardinality(room_list) <= MaxRooms
    /\ rname \in [RoomAddr -> Names \cup {Null}]
    /\ members \in [RoomAddr -> SUBSET ClientAddr]
    /\ admin \in [RoomAddr -> ClientAddr \cup {Null}]

\* The clients are exactly the ones some connection owns, each owned once and
\* listed once: conn->me never dangles and no client outlives its connection.
OwnedOnce ==
    /\ Listed = {me[k] : k \in Conns} \ {Null}
    /\ \A k, l \in Conns : me[k] = me[l] /\ me[k] # Null => k = l
    /\ \A i, j \in 1..Len(client_list) : client_list[i] = client_list[j] => i = j

\* A room's array holds live clients only (room_broadcast sends to them), and
\* each of them says it is in this room: nobody is in two rooms, or receives
\* the messages of a room it left, was kicked or banned from.
MembersCurrent ==
    \A r \in RoomAddr : \A a \in members[r] : a \in Listed /\ croom[a] = r

\* Every client that believes to be in a room is in that room's array, so the
\* room cannot be deleted under it: what room_delete_if_empty relies on.
InRoomIsMember ==
    \A a \in Listed : croom[a] # Null => a \in members[croom[a]]

\* No two rooms have one name, so find_room finds the room that was meant.
RoomNamesUnique == \A r, s \in room_list : rname[r] = rname[s] => r = s

\* Members and clients agree about who is where, and a name means one room, after
\* every command (room_add_member, room_remove_member, create_room).
PointersAgree == TypeOK /\ MembersCurrent /\ InRoomIsMember /\ RoomNamesUnique
===============================================================================
