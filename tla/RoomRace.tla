------------------------------- MODULE RoomRace --------------------------------
(***************************************************************************)
(* The room commands again, split at their lock operations: several        *)
(* workers run CREATE, JOIN, ACCEPT, LEAVE, MSG, KICK and                  *)
(* disconnect_cleanup at the same time (src/src/client_handler.c,          *)
(* src/src/registry.c).                                                    *)
(*                                                                         *)
(* registry_lock guards room_list and client_list, room_lock the array of  *)
(* one room; no function holds both, so between find_room and the use of   *)
(* its result, or between the emptiness test and delete_room, others run.  *)
(* Each step below is one critical section, with the unlocked reads and    *)
(* writes next to it.                                                      *)
(*                                                                         *)
(* Every client is connected and registered at the start and does not come *)
(* back after it disconnected; an address is not used again after free, so *)
(* that a use after free is seen for what it is.  Every client has an      *)
(* invitation to every room.  The reads of log lines are left out.         *)
(***************************************************************************)
EXTENDS Integers, Sequences, FiniteSets

CONSTANTS Clients, Rooms, Names, Null,
          MaxMembers

ASSUME RaceAssumption ==
    /\ Null \notin Clients \cup Rooms
    /\ MaxMembers \in Nat

VARIABLES listed,        \* clients in client_list
          room_list,     \* rooms in room_list
          fresh, freed,  \* rooms never allocated, rooms released
          rname, members, admin,
          croom,         \* current_room of each client
          pc,            \* per client: the next step of its command
          at,            \* per client: the room pointer the command holds, or
                         \* the name it is about to look up
          target,        \* per client: the client pointer that KICK holds
          fault          \* what freed object was used: "none", "room", "client"

vars == <<listed, room_list, fresh, freed, rname, members, admin, croom, pc, at,
          target, fault>>

Sane == fault = "none"

Init ==
    /\ listed = Clients /\ room_list = {} /\ fresh = Rooms /\ freed = {}
    /\ rname = [r \in Rooms |-> Null]
    /\ members = [r \in Rooms |-> <<>>]
    /\ admin = [r \in Rooms |-> Null]
    /\ croom = [c \in Clients |-> Null]
    /\ pc = [c \in Clients |-> "idle"]
    /\ at = [c \in Clients |-> Null]
    /\ target = [c \in Clients |-> Null]
    /\ fault = "none"

-------------------------------------------------------------------------------
(***************************************************************************)
(* Building blocks.  A step of c goes on at place p.                       *)
(***************************************************************************)
Goto(c, p) == pc' = [pc EXCEPT ![c] = p]

Start(c) == Sane /\ pc[c] = "idle"
Step(c, p) == Sane /\ pc[c] = p

InArray(r, c) == \E i \in 1..Len(members[r]) : members[r][i] = c

\* Remove the first entry and shift the others (shift_array_room).
Without(s, c) ==
    LET i == CHOOSE i \in 1..Len(s) : s[i] = c /\ \A j \in 1..i - 1 : s[j] # c
    IN  [j \in 1..Len(s) - 1 |-> s[IF j < i THEN j ELSE j + 1]]

\* Dereferencing room r, which also locks its room_lock.
Touch(r) == fault' = IF r \in freed THEN "room" ELSE fault

\* room_broadcast reads the socket of every member under room_lock.
Broadcast(r) ==
    fault' = IF r \in freed THEN "room"
             ELSE IF \E i \in 1..Len(members[r]) : members[r][i] \notin listed
             THEN "client" ELSE fault

heap == <<listed, room_list, fresh, freed, rname, admin>>

-------------------------------------------------------------------------------
(***************************************************************************)
(* CREATE: create_room under the registry's write lock, then               *)
(* room_add_member, then current_room.                                     *)
(***************************************************************************)
create_room(c, n) ==
    /\ Start(c)
    /\ \A r \in room_list : rname[r] # n
    /\ \E r \in fresh :
          /\ fresh' = fresh \ {r}
          /\ room_list' = room_list \cup {r}
          /\ rname' = [rname EXCEPT ![r] = n]
          /\ admin' = [admin EXCEPT ![r] = c]
          /\ at' = [at EXCEPT ![c] = r]
    /\ Goto(c, "addNew")
    /\ UNCHANGED <<listed, freed, members, croom, target, fault>>

\* room_add_member tests current_room before it takes the lock.  On success
\* the worker goes on to set current_room, otherwise the command ends.
room_add_member(c) ==
    LET r == at[c] IN
    /\ Sane /\ pc[c] \in {"add", "addNew"}
    /\ IF croom[c] # Null
       THEN Goto(c, "idle") /\ UNCHANGED <<members, fault>>
       ELSE /\ Touch(r)
            /\ IF Len(members[r]) < MaxMembers
               THEN /\ members' = [members EXCEPT ![r] = Append(@, c)]
                    /\ Goto(c, IF pc[c] = "add" THEN "enter" ELSE "enterNew")
               ELSE Goto(c, "idle") /\ UNCHANGED members
    /\ UNCHANGED <<heap, croom, at, target>>

\* current_room = room; JOIN also replays the history and broadcasts a notice,
\* for which it locks the room again.
Enter(c) ==
    /\ Sane /\ pc[c] \in {"enter", "enterNew"}
    /\ croom' = [croom EXCEPT ![c] = at[c]]
    /\ IF pc[c] = "enter" THEN Broadcast(at[c]) ELSE UNCHANGED fault
    /\ Goto(c, "idle")
    /\ UNCHANGED <<heap, members, at, target>>

-------------------------------------------------------------------------------
(***************************************************************************)
(* JOIN: room_remove_member from the old room and current_room = NULL, if  *)
(* there is one; then find_room under the registry's read lock.            *)
(***************************************************************************)
JoinLeaveOld(c, n) ==
    /\ Start(c)
    /\ croom[c] # Null
    /\ Touch(croom[c])
    /\ IF InArray(croom[c], c)
       THEN /\ members' = [members EXCEPT ![croom[c]] = Without(@, c)]
            /\ croom' = [croom EXCEPT ![c] = Null]
       ELSE UNCHANGED <<members, croom>>
    /\ at' = [at EXCEPT ![c] = n]
    /\ Goto(c, "find")
    /\ UNCHANGED <<heap, target>>

find_room(c, n) ==
    /\ IF \E r \in room_list : rname[r] = n
       THEN /\ at' = [at EXCEPT ![c] = CHOOSE r \in room_list : rname[r] = n]
            /\ Goto(c, "add")
       ELSE UNCHANGED at /\ Goto(c, "idle")
    /\ UNCHANGED <<heap, members, croom, target, fault>>

\* The direct way into find_room, and the way after leaving the old room.
JoinFind(c, n) == Start(c) /\ croom[c] = Null /\ find_room(c, n)
JoinFindNext(c) == Step(c, "find") /\ find_room(c, at[c])

(***************************************************************************)
(* ACCEPT: find_room, then leave the old room whatever its array says,     *)
(* then room_add_member, whose result is not looked at.                    *)
(***************************************************************************)
ACCEPT(c, n) ==
    /\ Start(c)
    /\ \E r \in room_list :
          /\ rname[r] = n
          /\ at' = [at EXCEPT ![c] = r]
    /\ Goto(c, "accept")
    /\ UNCHANGED <<heap, members, croom, target, fault>>

AcceptLeaveOld(c) ==
    LET r == croom[c] IN
    /\ Step(c, "accept")
    /\ IF r = Null THEN UNCHANGED <<members, fault>>
       ELSE /\ Touch(r)
            /\ members' = IF InArray(r, c)
                          THEN [members EXCEPT ![r] = Without(@, c)] ELSE members
    /\ croom' = [croom EXCEPT ![c] = Null]
    /\ Goto(c, "accepted")
    /\ UNCHANGED <<heap, at, target>>

AcceptAdd(c) ==
    /\ Step(c, "accepted")
    /\ Touch(at[c])
    /\ members' = IF Len(members[at[c]]) < MaxMembers
                  THEN [members EXCEPT ![at[c]] = Append(@, c)] ELSE members
    /\ Goto(c, "enter")
    /\ UNCHANGED <<heap, croom, at, target>>

-------------------------------------------------------------------------------
(***************************************************************************)
(* LEAVE and disconnect_cleanup: room_remove_member; current_room = NULL   *)
(* and a broadcast; the emptiness test of room_delete_if_empty; delete_room*)
(* unlinks the room under the registry's write lock and frees it after the *)
(* unlock.  The places of a disconnecting client end in "Bye".             *)
(***************************************************************************)
leaving == {"notify", "notifyBye"}
testing == {"test", "testBye"}
unlinking == {"unlink", "unlinkBye"}
freeing == {"free", "freeBye"}

\* The same place in the other command, and where each command ends.
Bye(c) == pc[c] \in {"notifyBye", "testBye", "unlinkBye", "freeBye"}
End(c) == IF Bye(c) THEN "delete" ELSE "idle"

LEAVE(c) ==
    /\ Start(c)
    /\ croom[c] # Null
    /\ Touch(croom[c])
    /\ IF InArray(croom[c], c)
       THEN /\ members' = [members EXCEPT ![croom[c]] = Without(@, c)]
            /\ at' = [at EXCEPT ![c] = croom[c]]
            /\ Goto(c, "notify")
       ELSE UNCHANGED <<members, at, pc>>
    /\ UNCHANGED <<heap, croom, target>>

\* disconnect_cleanup does not look at the result of room_remove_member.
Disconnect(c) ==
    /\ Start(c)
    /\ IF croom[c] = Null
       THEN Goto(c, "delete") /\ UNCHANGED <<members, at, fault>>
       ELSE /\ Touch(croom[c])
            /\ at' = [at EXCEPT ![c] = croom[c]]
            /\ members' = IF InArray(croom[c], c)
                          THEN [members EXCEPT ![croom[c]] = Without(@, c)]
                          ELSE members
            /\ Goto(c, "notifyBye")
    /\ UNCHANGED <<heap, croom, target>>

LeaveNotify(c) ==
    /\ Sane /\ pc[c] \in leaving
    /\ croom' = [croom EXCEPT ![c] = Null]
    /\ Broadcast(at[c])
    /\ Goto(c, IF Bye(c) THEN "testBye" ELSE "test")
    /\ UNCHANGED <<heap, members, at, target>>

room_delete_if_empty(c) ==
    /\ Sane /\ pc[c] \in testing
    /\ Touch(at[c])
    /\ Goto(c, IF members[at[c]] # <<>> THEN End(c)
               ELSE IF Bye(c) THEN "unlinkBye" ELSE "unlink")
    /\ UNCHANGED <<heap, members, croom, at, target>>

\* Mutant: the room is freed also when it was not in the list any more.
delete_room_NoSearch(c) ==
    /\ Sane /\ pc[c] \in unlinking
    /\ room_list' = room_list \ {at[c]}
    /\ Goto(c, IF Bye(c) THEN "freeBye" ELSE "free")
    /\ UNCHANGED <<listed, fresh, freed, rname, admin, members, croom, at, target,
                   fault>>

\* Whoever finds the room in the list takes it out, and only then frees it.
delete_room(c) ==
    /\ Sane /\ pc[c] \in unlinking
    /\ room_list' = room_list \ {at[c]}
    /\ Goto(c, IF at[c] \notin room_list THEN End(c)
               ELSE IF Bye(c) THEN "freeBye" ELSE "free")
    /\ UNCHANGED <<listed, fresh, freed, rname, admin, members, croom, at, target,
                   fault>>

\* room_destroy.
room_destroy(c) ==
    /\ Sane /\ pc[c] \in freeing
    /\ freed' = freed \cup {at[c]}
    /\ Touch(at[c])                    \* a second free is a use after free
    /\ Goto(c, End(c))
    /\ UNCHANGED <<listed, room_list, fresh, rname, admin, members, croom, at,
                   target>>

\* delete_client frees the client.
delete_client(c) ==
    /\ Step(c, "delete")
    /\ listed' = listed \ {c}
    /\ Goto(c, "gone")
    /\ UNCHANGED <<room_list, fresh, freed, rname, admin, members, croom, at,
                   target, fault>>

-------------------------------------------------------------------------------
(***************************************************************************)
(* MSG: room_add_history and room_broadcast on current_room, read again    *)
(* for each of them.                                                       *)
(***************************************************************************)
MSG(c) ==
    /\ Start(c)
    /\ croom[c] # Null
    /\ Touch(croom[c])
    /\ Goto(c, "say")
    /\ UNCHANGED <<heap, members, croom, at, target>>

MsgBroadcast(c) ==
    /\ Step(c, "say")
    /\ IF croom[c] = Null THEN UNCHANGED fault ELSE Broadcast(croom[c])
    /\ Goto(c, "idle")
    /\ UNCHANGED <<heap, members, croom, at, target>>

(***************************************************************************)
(* KICK: the admin test and find_client; the unlocked look at the target's *)
(* current_room and room_remove_member; then current_room = NULL for the   *)
(* target, the notices and room_delete_if_empty as in LEAVE.               *)
(***************************************************************************)
KICK(c, t) ==
    /\ Start(c)
    /\ t # c /\ t \in listed
    /\ croom[c] # Null
    /\ Touch(croom[c])
    /\ admin[croom[c]] = c
    /\ target' = [target EXCEPT ![c] = t]
    /\ Goto(c, "kick")
    /\ UNCHANGED <<heap, members, croom, at>>

KickRemove(c) ==
    LET t == target[c]
        r == croom[c]
    IN  /\ Step(c, "kick")
        /\ IF t \in listed /\ r # Null /\ croom[t] = r
           THEN /\ Touch(r)
                /\ at' = [at EXCEPT ![c] = r]
                /\ IF InArray(r, t)
                   THEN /\ members' = [members EXCEPT ![r] = Without(@, t)]
                        /\ Goto(c, "kicked")
                   ELSE Goto(c, "idle") /\ UNCHANGED members
           ELSE /\ fault' = IF t \in listed THEN fault ELSE "client"
                /\ Goto(c, "idle") /\ UNCHANGED <<members, at>>
        /\ UNCHANGED <<heap, croom, target>>

KickNotify(c) ==
    /\ Step(c, "kicked")
    /\ croom' = [croom EXCEPT ![target[c]] = Null]
    /\ IF target[c] \in listed THEN Broadcast(at[c]) ELSE fault' = "client"
    /\ Goto(c, "test")
    /\ UNCHANGED <<heap, members, at, target>>

-------------------------------------------------------------------------------
Halt == (~Sane \/ \A c \in Clients : pc[c] = "gone") /\ UNCHANGED vars

Next ==
    \/ \E c \in Clients, n \in Names : create_room(c, n)
    \/ \E c \in Clients : room_add_member(c)
    \/ \E c \in Clients : Enter(c)
    \/ \E c \in Clients, n \in Names : JoinLeaveOld(c, n)
    \/ \E c \in Clients, n \in Names : JoinFind(c, n)
    \/ \E c \in Clients : JoinFindNext(c)
    \/ \E c \in Clients, n \in Names : ACCEPT(c, n)
    \/ \E c \in Clients : AcceptLeaveOld(c)
    \/ \E c \in Clients : AcceptAdd(c)
    \/ \E c \in Clients : LEAVE(c)
    \/ \E c \in Clients : Disconnect(c)
    \/ \E c \in Clients : LeaveNotify(c)
    \/ \E c \in Clients : room_delete_if_empty(c)
    \/ \E c \in Clients : delete_room(c)
    \/ \E c \in Clients : room_destroy(c)
    \/ \E c \in Clients : delete_client(c)
    \/ \E c \in Clients : MSG(c)
    \/ \E c \in Clients : MsgBroadcast(c)
    \/ \E c, t \in Clients : KICK(c, t)
    \/ \E c \in Clients : KickRemove(c)
    \/ \E c \in Clients : KickNotify(c)
    \/ Halt

Spec == Init /\ [][Next]_vars

-------------------------------------------------------------------------------
(***************************************************************************)
(* Properties.                                                             *)
(***************************************************************************)
\* The type of every variable; members[] never overflows max_members_per_room.
TypeOK ==
    /\ listed \subseteq Clients
    /\ room_list \cup fresh \cup freed \subseteq Rooms
    /\ rname \in [Rooms -> Names \cup {Null}]
    /\ members \in [Rooms -> Seq(Clients)]
    /\ \A r \in Rooms : Len(members[r]) <= MaxMembers
    /\ admin \in [Rooms -> Clients \cup {Null}]
    /\ croom \in [Clients -> Rooms \cup {Null}]
    /\ target \in [Clients -> Clients \cup {Null}]
    /\ fault \in {"none", "room", "client"}

\* No worker uses a room after room_destroy released it (registry.c: "Safe to
\* call after every room_remove_member without extra checks in callers").
NoFreedRoomUsed == fault # "room"

\* A listed room is neither released nor about to be released by the worker
\* that unlinked it, so find_room never returns a released room, and only one
\* of the workers that saw the room empty releases it.
ListedAlive ==
    /\ room_list \cap (fresh \cup freed) = {}
    /\ \A c, d \in Clients : pc[c] \in freeing =>
          /\ at[c] \notin room_list \cup freed
          /\ pc[d] \in freeing /\ at[d] = at[c] => c = d

\* What holds however commands overlap: a room that can be found is not released,
\* and members[] keeps its bound (delete_room, room_add_member).
RoomsSafe == TypeOK /\ ListedAlive
===============================================================================
