---------------------------- MODULE RoomRace_proofs ----------------------------
(***************************************************************************)
(* Proofs about the room commands at the grain of their critical sections, *)
(* for any number of clients, rooms and names.                             *)
(***************************************************************************)
EXTENDS RoomRace, SequenceTheorems, TLAPS

\* Where a command holds a room pointer, as opposed to a name or nothing.
Holding ==
    {"add", "addNew", "enter", "enterNew", "accept", "accepted", "kicked"}
        \cup leaving \cup testing \cup unlinking \cup freeing

Resting == {"idle", "find", "delete", "gone", "say", "kick"}

\* What a command holds at each of its places.
Pointers ==
    /\ pc \in [Clients -> Holding \cup Resting]
    /\ at \in [Clients -> Rooms \cup Names \cup {Null}]
    /\ \A c \in Clients :
          /\ pc[c] \in Holding => at[c] \in Rooms
          /\ pc[c] \in {"kick", "kicked"} => target[c] \in Clients

\* An address is free to allocate, in use or released, never two of them: also
\* a room between delete_room and room_destroy cannot be allocated again.
OneState ==
    /\ fresh \cap freed = {}
    /\ \A c \in Clients : pc[c] \in freeing => at[c] \notin fresh

RaceInv == TypeOK /\ Pointers /\ OneState /\ ListedAlive

-------------------------------------------------------------------------------
(* The array of a room. *)

MembersOK == /\ members \in [Rooms -> Seq(Clients)]
             /\ \A r \in Rooms : Len(members[r]) <= MaxMembers

\* Removing an entry shifts the others down: clients, one fewer.
LEMMA WithoutShrinks ==
    ASSUME NEW S, NEW s \in Seq(S), s # <<>>, NEW c
    PROVE  Without(s, c) \in Seq(S) /\ Len(Without(s, c)) = Len(s) - 1
<1> DEFINE i == CHOOSE i \in 1..Len(s) : s[i] = c /\ \A j \in 1..i - 1 : s[j] # c
           w == [j \in 1..Len(s) - 1 |-> s[IF j < i THEN j ELSE j + 1]]
<1>1. Without(s, c) = w
  BY DEF Without
<1>2. Len(s) \in Nat /\ Len(s) - 1 \in Nat
  BY EmptySeq, LenProperties
<1> HIDE DEF i
<1>3. \A j \in 1..Len(s) - 1 : w[j] \in S
  BY <1>2, ElementOfSeq
<1>4. w \in [1..Len(s) - 1 -> S]
  BY <1>3
<1> HIDE DEF w
<1>5. w \in Seq(S) /\ Len(w) = Len(s) - 1
  BY <1>2, <1>4, SeqDef, LenProperties
<1> QED
  BY <1>1, <1>5

LEMMA RemovedFromArray ==
    ASSUME TypeOK, NEW r \in Rooms, NEW c \in Clients,
           \/ InArray(r, c) /\ members' = [members EXCEPT ![r] = Without(@, c)]
           \/ UNCHANGED members
    PROVE  MembersOK'
<1>1. MembersOK
  BY DEF TypeOK, MembersOK
<1>2. CASE UNCHANGED members
  BY <1>1, <1>2 DEF MembersOK
<1>3. CASE InArray(r, c) /\ members' = [members EXCEPT ![r] = Without(@, c)]
  <2>1. members[r] \in Seq(Clients) /\ members[r] # <<>> /\ Len(members[r]) \in Nat
    BY <1>1, <1>3 DEF MembersOK, InArray
  <2>2. /\ Without(members[r], c) \in Seq(Clients)
        /\ Len(Without(members[r], c)) = Len(members[r]) - 1
    BY <2>1, WithoutShrinks
  <2> QED BY <1>1, <1>3, <2>1, <2>2, RaceAssumption DEF MembersOK
<1> QED
  BY <1>2, <1>3

\* Every append is guarded by the capacity, under the same lock.
LEMMA AddedToArray ==
    ASSUME TypeOK, NEW r \in Rooms, NEW c \in Clients,
           \/ /\ Len(members[r]) < MaxMembers
              /\ members' = [members EXCEPT ![r] = Append(@, c)]
           \/ UNCHANGED members
    PROVE  MembersOK'
<1>1. MembersOK
  BY DEF TypeOK, MembersOK
<1>2. CASE UNCHANGED members
  BY <1>1, <1>2 DEF MembersOK
<1>3. CASE /\ Len(members[r]) < MaxMembers
           /\ members' = [members EXCEPT ![r] = Append(@, c)]
  <2>1. /\ Append(members[r], c) \in Seq(Clients)
        /\ Len(Append(members[r], c)) = Len(members[r]) + 1
        /\ Len(members[r]) \in Nat
    BY <1>1 DEF MembersOK
  <2> QED BY <1>1, <1>3, <2>1, RaceAssumption DEF MembersOK
<1> QED
  BY <1>2, <1>3

-------------------------------------------------------------------------------
(* Steps that leave the lists alone. *)

LEMMA HeapQuiet ==
    ASSUME TypeOK, UNCHANGED heap, MembersOK',
           croom' \in [Clients -> Rooms \cup {Null}],
           target' \in [Clients -> Clients \cup {Null}],
           fault' \in {"none", "room", "client"}
    PROVE  TypeOK'
  BY DEF TypeOK, heap, MembersOK

LEMMA FaultTyped ==
    ASSUME TypeOK, NEW r, Touch(r) \/ Broadcast(r) \/ UNCHANGED fault
    PROVE  fault' \in {"none", "room", "client"}
  BY DEF TypeOK, Touch, Broadcast

\* A step of one command to a place from which it releases nothing.
LEMMA StepElsewhere ==
    ASSUME RaceInv, NEW c \in Clients,
           NEW p \in (Holding \cup Resting) \ freeing, Goto(c, p),
           UNCHANGED <<room_list, fresh, freed>>,
           at' \in [Clients -> Rooms \cup Names \cup {Null}],
           \A d \in Clients \ {c} : at'[d] = at[d] /\ target'[d] = target[d],
           p \in Holding => at'[c] \in Rooms,
           p \in {"kick", "kicked"} => target'[c] \in Clients
    PROVE  Pointers' /\ OneState' /\ ListedAlive'
<1> USE DEF RaceInv, Goto, Pointers
<1>1. Pointers'
  OBVIOUS
<1>2. \A d \in Clients : pc'[d] \in freeing => pc[d] \in freeing /\ at'[d] = at[d]
  OBVIOUS
<1>3. OneState'
  BY <1>2 DEF OneState
<1>4. ListedAlive'
  BY <1>2 DEF ListedAlive
<1> QED
  BY <1>1, <1>3, <1>4

-------------------------------------------------------------------------------
(* The inductive step, one lemma per action. *)

LEMMA InitRace == Init => RaceInv
<1> SUFFICES ASSUME Init PROVE RaceInv
  OBVIOUS
<1> USE RaceAssumption DEF Init
<1>1. TypeOK
  BY DEF TypeOK
<1>2. Pointers /\ OneState /\ ListedAlive
  BY DEF Pointers, OneState, ListedAlive, Holding, Resting, leaving, testing,
         unlinking, freeing
<1> QED
  BY <1>1, <1>2 DEF RaceInv

\* The new room was neither listed, released nor about to be.
LEMMA CreateStep ==
    ASSUME RaceInv, NEW c \in Clients, NEW n \in Names, create_room(c, n)
    PROVE  RaceInv'
<1> USE DEF RaceInv, create_room
<1>1. PICK r \in fresh :
          /\ fresh' = fresh \ {r}
          /\ room_list' = room_list \cup {r}
          /\ rname' = [rname EXCEPT ![r] = n]
          /\ admin' = [admin EXCEPT ![r] = c]
          /\ at' = [at EXCEPT ![c] = r]
  OBVIOUS
<1>2. r \in Rooms
  BY DEF TypeOK
<1>3. TypeOK'
  BY <1>1, <1>2 DEF TypeOK
<1>4. Pointers'
  BY <1>1, <1>2 DEF Pointers, Goto, Holding, Resting
<1>5. \A d \in Clients : pc'[d] \in freeing => pc[d] \in freeing /\ at'[d] = at[d]
  BY <1>1 DEF Pointers, Goto, freeing
<1>6. OneState'
  BY <1>1, <1>5 DEF OneState
<1>7. ListedAlive'
  BY <1>1, <1>5 DEF OneState, ListedAlive
<1> QED
  BY <1>3, <1>4, <1>6, <1>7

LEMMA AddStep ==
    ASSUME RaceInv, NEW c \in Clients, room_add_member(c)
    PROVE  RaceInv'
<1> USE DEF RaceInv, room_add_member
<1>1. at[c] \in Rooms
  BY DEF Pointers, Holding
<1>2. MembersOK'
  BY <1>1, AddedToArray
<1>3. TypeOK'
  <2>1. fault' \in {"none", "room", "client"}
    BY FaultTyped
  <2> QED BY <1>2, <2>1, HeapQuiet DEF TypeOK
<1>4. PICK p \in {"idle", "enter", "enterNew"} : Goto(c, p)
  <2>1. CASE Goto(c, "idle")
    BY <2>1
  <2>2. CASE Goto(c, IF pc[c] = "add" THEN "enter" ELSE "enterNew")
    BY <2>2 DEF Goto
  <2> QED BY <2>1, <2>2
<1>5. p \in (Holding \cup Resting) \ freeing
  BY DEF Holding, Resting, freeing
<1>6. Pointers' /\ OneState' /\ ListedAlive'
  BY <1>1, <1>4, <1>5, StepElsewhere DEF heap, Pointers
<1> QED
  BY <1>3, <1>6

LEMMA EnterStep ==
    ASSUME RaceInv, NEW c \in Clients, Enter(c)
    PROVE  RaceInv'
<1> USE DEF RaceInv, Enter
<1>1. at[c] \in Rooms
  BY DEF Pointers, Holding
<1>2. TypeOK'
  <2>1. fault' \in {"none", "room", "client"}
    BY FaultTyped
  <2>2. MembersOK' /\ croom' \in [Clients -> Rooms \cup {Null}]
    BY <1>1 DEF TypeOK, MembersOK
  <2> QED BY <2>1, <2>2, HeapQuiet DEF TypeOK
<1>3. "idle" \in (Holding \cup Resting) \ freeing /\ "idle" \notin Holding
  BY DEF Holding, Resting, freeing, leaving, testing, unlinking
<1>4. Pointers' /\ OneState' /\ ListedAlive'
  BY <1>3, StepElsewhere DEF heap, Pointers
<1> QED
  BY <1>2, <1>4

\* The places a command may go to from which it releases nothing, by whether
\* it takes a room pointer along.
LEMMA PlacesElsewhere ==
    /\ \A p \in Resting : p \in (Holding \cup Resting) \ freeing /\ p \notin Holding
    /\ \A p \in Holding \ freeing : p \in (Holding \cup Resting) \ freeing
    /\ {"add", "addNew", "enter", "enterNew", "accept", "accepted", "kicked"}
          \cup leaving \cup testing \cup unlinking \subseteq Holding \ freeing
    /\ {"idle", "find", "delete", "gone", "say", "kick"} = Resting
  BY DEF Holding, Resting, freeing, leaving, testing, unlinking

\* JOIN: the way out of the old room.
LEMMA JoinLeaveStep ==
    ASSUME RaceInv, NEW c \in Clients, NEW n \in Names, JoinLeaveOld(c, n)
    PROVE  RaceInv'
<1> USE DEF RaceInv, JoinLeaveOld
<1>1. croom[c] \in Rooms
  BY DEF TypeOK
<1>2. MembersOK'
  BY <1>1, RemovedFromArray
<1>3. croom' \in [Clients -> Rooms \cup {Null}]
  BY DEF TypeOK
<1>4. TypeOK'
  <2>1. fault' \in {"none", "room", "client"}
    BY FaultTyped
  <2> QED BY <1>2, <1>3, <2>1, HeapQuiet DEF TypeOK
<1>5. Pointers' /\ OneState' /\ ListedAlive'
  BY PlacesElsewhere, StepElsewhere DEF heap, Pointers
<1> QED
  BY <1>4, <1>5

\* find_room answers with a room of the list or sends the command back.
LEMMA FindStep ==
    ASSUME RaceInv, NEW c \in Clients, NEW n, find_room(c, n)
    PROVE  RaceInv'
<1> USE DEF RaceInv, find_room
<1>1. TypeOK'
  <2>1. MembersOK' /\ fault' \in {"none", "room", "client"}
    BY DEF TypeOK, MembersOK
  <2> QED BY <2>1, HeapQuiet DEF TypeOK
<1>2. CASE \E r \in room_list : rname[r] = n
  <2> DEFINE q == CHOOSE r \in room_list : rname[r] = n
  <2>1. q \in Rooms
    BY <1>2 DEF TypeOK
  <2>2. at' = [at EXCEPT ![c] = q] /\ Goto(c, "add")
    BY <1>2
  <2> HIDE DEF q
  <2>3. Pointers' /\ OneState' /\ ListedAlive'
    BY <2>1, <2>2, PlacesElsewhere, StepElsewhere DEF heap, Pointers
  <2> QED BY <1>1, <2>3
<1>3. CASE ~ \E r \in room_list : rname[r] = n
  <2>1. Pointers' /\ OneState' /\ ListedAlive'
    BY <1>3, PlacesElsewhere, StepElsewhere DEF heap, Pointers
  <2> QED BY <1>1, <2>1
<1> QED
  BY <1>2, <1>3

LEMMA AcceptStep ==
    ASSUME RaceInv, NEW c \in Clients, NEW n \in Names, ACCEPT(c, n)
    PROVE  RaceInv'
<1> USE DEF RaceInv, ACCEPT
<1>1. TypeOK'
  <2>1. MembersOK' /\ fault' \in {"none", "room", "client"}
    BY DEF TypeOK, MembersOK
  <2> QED BY <2>1, HeapQuiet DEF TypeOK
<1>2. PICK r \in room_list : at' = [at EXCEPT ![c] = r]
  OBVIOUS
<1>3. r \in Rooms
  BY DEF TypeOK
<1>4. Pointers' /\ OneState' /\ ListedAlive'
  BY <1>2, <1>3, PlacesElsewhere, StepElsewhere DEF heap, Pointers
<1> QED
  BY <1>1, <1>4

LEMMA AcceptLeaveStep ==
    ASSUME RaceInv, NEW c \in Clients, AcceptLeaveOld(c)
    PROVE  RaceInv'
<1> USE DEF RaceInv, AcceptLeaveOld
<1>1. MembersOK'
  <2>1. CASE croom[c] = Null
    BY <2>1 DEF TypeOK, MembersOK
  <2>2. CASE croom[c] # Null
    <3>1. croom[c] \in Rooms
      BY <2>2 DEF TypeOK
    <3> QED BY <2>2, <3>1, RemovedFromArray
  <2> QED BY <2>1, <2>2
<1>2. TypeOK'
  <2>1. fault' \in {"none", "room", "client"}
    BY FaultTyped
  <2>2. croom' \in [Clients -> Rooms \cup {Null}]
    BY DEF TypeOK
  <2> QED BY <1>1, <2>1, <2>2, HeapQuiet DEF TypeOK
<1>3. at[c] \in Rooms
  BY DEF Pointers, Step, Holding
<1>4. Pointers' /\ OneState' /\ ListedAlive'
  BY <1>3, PlacesElsewhere, StepElsewhere DEF heap, Pointers
<1> QED
  BY <1>2, <1>4

LEMMA AcceptAddStep ==
    ASSUME RaceInv, NEW c \in Clients, AcceptAdd(c)
    PROVE  RaceInv'
<1> USE DEF RaceInv, AcceptAdd
<1>1. at[c] \in Rooms
  BY DEF Pointers, Step, Holding
<1>2. MembersOK'
  BY <1>1, AddedToArray
<1>3. TypeOK'
  <2>1. fault' \in {"none", "room", "client"}
    BY FaultTyped
  <2> QED BY <1>2, <2>1, HeapQuiet DEF TypeOK
<1>4. Pointers' /\ OneState' /\ ListedAlive'
  BY <1>1, PlacesElsewhere, StepElsewhere DEF heap, Pointers
<1> QED
  BY <1>3, <1>4

LEMMA LeaveStep ==
    ASSUME RaceInv, NEW c \in Clients, LEAVE(c)
    PROVE  RaceInv'
<1> USE DEF RaceInv, LEAVE
<1>1. croom[c] \in Rooms
  BY DEF TypeOK
<1>2. MembersOK'
  BY <1>1, RemovedFromArray
<1>3. TypeOK'
  <2>1. fault' \in {"none", "room", "client"}
    BY FaultTyped
  <2> QED BY <1>2, <2>1, HeapQuiet DEF TypeOK
<1>4. CASE InArray(croom[c], c)
  <2>1. Pointers' /\ OneState' /\ ListedAlive'
    BY <1>1, <1>4, PlacesElsewhere, StepElsewhere DEF heap, Pointers, leaving
  <2> QED BY <1>3, <2>1
<1>5. CASE ~InArray(croom[c], c)
  BY <1>3, <1>5 DEF heap, Pointers, OneState, ListedAlive
<1> QED
  BY <1>4, <1>5

LEMMA DisconnectStep ==
    ASSUME RaceInv, NEW c \in Clients, Disconnect(c)
    PROVE  RaceInv'
<1> USE DEF RaceInv, Disconnect
<1>1. CASE croom[c] = Null
  <2>1. MembersOK' /\ fault' \in {"none", "room", "client"}
    BY <1>1 DEF TypeOK, MembersOK
  <2>2. TypeOK'
    BY <2>1, HeapQuiet DEF TypeOK
  <2>3. Pointers' /\ OneState' /\ ListedAlive'
    BY <1>1, PlacesElsewhere, StepElsewhere DEF heap, Pointers
  <2> QED BY <2>2, <2>3
<1>2. CASE croom[c] # Null
  <2>1. croom[c] \in Rooms
    BY <1>2 DEF TypeOK
  <2>2. MembersOK'
    BY <1>2, <2>1, RemovedFromArray
  <2>3. fault' \in {"none", "room", "client"}
    BY <1>2, FaultTyped
  <2>4. TypeOK'
    BY <2>2, <2>3, HeapQuiet DEF TypeOK
  <2>5. Pointers' /\ OneState' /\ ListedAlive'
    BY <1>2, <2>1, PlacesElsewhere, StepElsewhere DEF heap, Pointers, leaving
  <2> QED BY <2>4, <2>5
<1> QED
  BY <1>1, <1>2

LEMMA NotifyStep ==
    ASSUME RaceInv, NEW c \in Clients, LeaveNotify(c)
    PROVE  RaceInv'
<1> USE DEF RaceInv, LeaveNotify
<1>1. TypeOK'
  <2>1. MembersOK' /\ croom' \in [Clients -> Rooms \cup {Null}]
    BY DEF TypeOK, MembersOK
  <2>2. fault' \in {"none", "room", "client"}
    BY FaultTyped
  <2> QED BY <2>1, <2>2, HeapQuiet DEF TypeOK
<1>2. at[c] \in Rooms
  BY PlacesElsewhere DEF Pointers
<1>3. PICK p \in testing : Goto(c, p)
  BY DEF Goto, testing
<1>4. Pointers' /\ OneState' /\ ListedAlive'
  BY <1>2, <1>3, PlacesElsewhere, StepElsewhere DEF heap, Pointers, testing
<1> QED
  BY <1>1, <1>4

LEMMA TestStep ==
    ASSUME RaceInv, NEW c \in Clients, room_delete_if_empty(c)
    PROVE  RaceInv'
<1> USE DEF RaceInv, room_delete_if_empty
<1>1. TypeOK'
  <2>1. MembersOK' /\ fault' \in {"none", "room", "client"}
    BY FaultTyped DEF TypeOK, MembersOK
  <2> QED BY <2>1, HeapQuiet DEF TypeOK
<1>2. at[c] \in Rooms
  BY PlacesElsewhere DEF Pointers
<1>3. PICK p \in {"delete", "idle"} \cup unlinking : Goto(c, p)
  BY DEF Goto, End, unlinking
<1>4. Pointers' /\ OneState' /\ ListedAlive'
  BY <1>2, <1>3, PlacesElsewhere, StepElsewhere
     DEF heap, Pointers, unlinking, Resting
<1> QED
  BY <1>1, <1>4

\* The worker that takes the room out of the list is the only one that will
\* release it: a second one finds it gone.
LEMMA UnlinkStep ==
    ASSUME RaceInv, NEW c \in Clients, delete_room(c)
    PROVE  RaceInv'
<1> USE DEF RaceInv, delete_room
<1>1. TypeOK'
  BY DEF TypeOK
<1>2. at[c] \in Rooms
  BY PlacesElsewhere DEF Pointers
<1>3. CASE at[c] \in room_list
  <2>1. PICK p \in freeing : Goto(c, p)
    BY <1>3 DEF Goto, freeing
  <2>2. Pointers'
    BY <1>2, <2>1 DEF Goto, Pointers, Holding, freeing
  <2>3. \A d \in Clients : pc'[d] \in freeing => d = c \/ pc[d] \in freeing
    BY <2>1 DEF Goto, Pointers
  <2>4. at[c] \notin fresh \cup freed
    BY <1>3 DEF ListedAlive
  <2>5. OneState'
    BY <2>3, <2>4 DEF OneState
  <2>6. ListedAlive'
    BY <1>3, <2>3, <2>4 DEF ListedAlive
  <2> QED BY <1>1, <2>2, <2>5, <2>6
<1>4. CASE at[c] \notin room_list
  <2>1. PICK p \in {"delete", "idle"} : Goto(c, p)
    BY <1>4 DEF Goto, End
  <2>2. UNCHANGED room_list
    BY <1>4
  <2>3. Pointers' /\ OneState' /\ ListedAlive'
    BY <2>1, <2>2, PlacesElsewhere, StepElsewhere DEF Pointers, Resting
  <2> QED BY <1>1, <2>3
<1> QED
  BY <1>3, <1>4

\* The room released is in nobody else's hands to release.
LEMMA DestroyStep ==
    ASSUME RaceInv, NEW c \in Clients, room_destroy(c)
    PROVE  RaceInv'
<1> USE DEF RaceInv, room_destroy
<1>1. at[c] \in Rooms
  BY DEF Pointers, Holding
<1>2. TypeOK'
  <2>1. fault' \in {"none", "room", "client"}
    BY FaultTyped
  <2> QED BY <1>1, <2>1 DEF TypeOK
<1>3. PICK p \in {"delete", "idle"} : Goto(c, p)
  BY DEF Goto, End
<1>4. Pointers'
  BY <1>3 DEF Goto, Pointers, Holding, Resting, leaving, testing, unlinking, freeing
<1>5. \A d \in Clients : pc'[d] \in freeing => d # c /\ pc[d] \in freeing
  BY <1>3 DEF Goto, Pointers, freeing
<1>6. OneState'
  BY <1>5 DEF OneState
<1>7. ListedAlive'
  BY <1>5 DEF OneState, ListedAlive
<1> QED
  BY <1>2, <1>4, <1>6, <1>7

LEMMA DeleteClientStep ==
    ASSUME RaceInv, NEW c \in Clients, delete_client(c)
    PROVE  RaceInv'
<1> USE DEF RaceInv, delete_client
<1>1. TypeOK'
  BY DEF TypeOK
<1>2. Pointers' /\ OneState' /\ ListedAlive'
  BY PlacesElsewhere, StepElsewhere DEF Pointers
<1> QED
  BY <1>1, <1>2

LEMMA MsgStep ==
    ASSUME RaceInv, NEW c \in Clients, MSG(c) \/ MsgBroadcast(c)
    PROVE  RaceInv'
<1> USE DEF RaceInv, MSG, MsgBroadcast
<1>1. TypeOK'
  <2>1. MembersOK' /\ fault' \in {"none", "room", "client"}
    BY FaultTyped DEF TypeOK, MembersOK
  <2> QED BY <2>1, HeapQuiet DEF TypeOK
<1>2. Pointers' /\ OneState' /\ ListedAlive'
  BY PlacesElsewhere, StepElsewhere DEF heap, Pointers
<1> QED
  BY <1>1, <1>2

LEMMA KickStep ==
    ASSUME RaceInv, NEW c \in Clients, NEW t \in Clients, KICK(c, t)
    PROVE  RaceInv'
<1> USE DEF RaceInv, KICK
<1>1. TypeOK'
  <2>1. MembersOK' /\ fault' \in {"none", "room", "client"}
    BY FaultTyped DEF TypeOK, MembersOK
  <2>2. target' \in [Clients -> Clients \cup {Null}]
    BY DEF TypeOK
  <2> QED BY <2>1, <2>2, HeapQuiet DEF TypeOK
<1>2. /\ target'[c] = t
      /\ \A d \in Clients \ {c} : at'[d] = at[d] /\ target'[d] = target[d]
  BY DEF TypeOK
<1>3. Pointers' /\ OneState' /\ ListedAlive'
  BY <1>2, PlacesElsewhere, StepElsewhere DEF heap, Pointers
<1> QED
  BY <1>1, <1>3

LEMMA KickRemoveStep ==
    ASSUME RaceInv, NEW c \in Clients, KickRemove(c)
    PROVE  RaceInv'
<1> USE DEF RaceInv, KickRemove
<1>1. target[c] \in Clients
  BY DEF Step, Pointers
<1>2. CASE target[c] \in listed /\ croom[c] # Null /\ croom[target[c]] = croom[c]
  <2>1. croom[c] \in Rooms
    BY <1>2 DEF TypeOK
  <2>2. MembersOK'
    BY <1>1, <1>2, <2>1, RemovedFromArray
  <2>3. fault' \in {"none", "room", "client"}
    BY <1>2, FaultTyped
  <2>4. TypeOK'
    BY <2>2, <2>3, HeapQuiet DEF TypeOK
  <2>5. PICK p \in {"kicked", "idle"} : Goto(c, p)
    BY <1>2
  <2>6. at' = [at EXCEPT ![c] = croom[c]]
    BY <1>2
  <2>7. Pointers' /\ OneState' /\ ListedAlive'
    BY <1>1, <2>1, <2>5, <2>6, PlacesElsewhere, StepElsewhere
       DEF heap, Pointers, Resting
  <2> QED BY <2>4, <2>7
<1>3. CASE ~(target[c] \in listed /\ croom[c] # Null /\ croom[target[c]] = croom[c])
  <2>1. MembersOK' /\ fault' \in {"none", "room", "client"}
    BY <1>3 DEF TypeOK, MembersOK
  <2>2. TypeOK'
    BY <2>1, HeapQuiet DEF TypeOK
  <2>3. Pointers' /\ OneState' /\ ListedAlive'
    BY <1>3, PlacesElsewhere, StepElsewhere DEF heap, Pointers
  <2> QED BY <2>2, <2>3
<1> QED
  BY <1>2, <1>3

LEMMA KickNotifyStep ==
    ASSUME RaceInv, NEW c \in Clients, KickNotify(c)
    PROVE  RaceInv'
<1> USE DEF RaceInv, KickNotify
<1>1. TypeOK'
  <2>1. MembersOK' /\ fault' \in {"none", "room", "client"}
    BY FaultTyped DEF TypeOK, MembersOK
  <2>2. croom' \in [Clients -> Rooms \cup {Null}]
    BY DEF TypeOK
  <2> QED BY <2>1, <2>2, HeapQuiet DEF TypeOK
<1>2. at[c] \in Rooms
  BY DEF Step, Pointers, Holding
<1>3. Pointers' /\ OneState' /\ ListedAlive'
  BY <1>2, PlacesElsewhere, StepElsewhere DEF heap, Pointers, testing
<1> QED
  BY <1>1, <1>3

LEMMA StutterRace == RaceInv /\ UNCHANGED vars => RaceInv'
  BY DEF RaceInv, TypeOK, Pointers, OneState, ListedAlive, vars

LEMMA RaceStep == RaceInv /\ [Next]_vars => RaceInv'
<1> SUFFICES ASSUME RaceInv, [Next]_vars PROVE RaceInv'
  OBVIOUS
<1>1. CASE Halt \/ UNCHANGED vars
  BY <1>1, StutterRace DEF Halt
<1> QED
  BY <1>1, CreateStep, AddStep, EnterStep, JoinLeaveStep, FindStep, AcceptStep,
     AcceptLeaveStep, AcceptAddStep, LeaveStep, DisconnectStep, NotifyStep,
     TestStep, UnlinkStep, DestroyStep, DeleteClientStep, MsgStep, KickStep,
     KickRemoveStep, KickNotifyStep
     DEF Next, JoinFind, JoinFindNext

-------------------------------------------------------------------------------
\* The invariant holds of every behaviour.
THEOREM RaceInvariant == Spec => []RaceInv
  BY InitRace, RaceStep, PTL DEF Spec

\* RoomsSafe: however the commands of any number of workers overlap, the room
\* that find_room returns is not released, delete_room lets exactly one of the
\* workers that saw the room empty release it, and members[] never holds more
\* than max_members_per_room entries.
THEOREM RoomsAreSafe == Spec => []RoomsSafe
<1>1. RaceInv => RoomsSafe
  BY DEF RaceInv, RoomsSafe
<1> QED
  BY <1>1, RaceInvariant, PTL
===============================================================================
