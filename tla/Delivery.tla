------------------------------- MODULE Delivery --------------------------------
(***************************************************************************)
(* Who receives what: room_broadcast and room_send_history                 *)
(* (src/src/registry.c) under the commands that use them, PM, and the      *)
(* reuse of descriptors between close and accept.                          *)
(*                                                                         *)
(* A broadcast copies the descriptors of the members under room_lock and   *)
(* sends without it, one descriptor at a time, so members may join, leave  *)
(* and close, and descriptors may be handed out again, between any two     *)
(* sends.  A PM finds its target under registry_lock and uses it after the *)
(* unlock.  One room is looked at; a member that is not modelled keeps it  *)
(* in existence, and its ring is the window of the last messages           *)
(* (History, ImplementsLog).                                               *)
(***************************************************************************)
EXTENDS Integers, Sequences, FiniteSets, FiniteSetsExt

CONSTANTS Peers,                 \* connections, each is accepted at most once
          NFd,                   \* descriptors
          RingCap,               \* capacity of the ring
          MaxItems,              \* bound on what is broadcast or sent
          MaxLost                \* bound on the sends that find a socket full and
                                 \* the broadcasts that find no memory

ASSUME DeliveryAssumption ==
    /\ NFd \in Nat /\ RingCap \in Nat /\ MaxItems \in Nat /\ MaxLost \in Nat

Fds == 1..NFd
Items == 1..MaxItems

VARIABLES open,                  \* connections whose descriptor is open
          fd,                    \* their descriptors (socket_fd)
          clients,               \* connections whose client_t exists
          members,               \* those that are members of the room
          ring,                  \* the last messages, oldest first
          plan, item,            \* what the worker of a connection has still to
                                 \* do, and the item it sends
          todo,                  \* descriptors still to be sent to
          target,                \* the client a PM has found
          made,                  \* how many items were made
          heard, replayed,       \* history: items that were sent to a connection,
                                 \* and messages that were replayed to it
          author, meant,         \* history: who made an item, and for whom
          known,                 \* history: the connections there had been when
                                 \* its recipients were determined
          private,               \* history: items that are PMs
          dropped,               \* history: connections whose socket was full
          untold                 \* history: items nobody was told of

deliveryVars == <<open, fd, clients, members, ring, plan, item, todo, target, made,
                  heard, replayed, author, meant, known, private, dropped, untold>>
hist == <<heard, replayed, meant, known, private, dropped, untold>>

Nobody == "nobody"

DeliveryInit ==
    /\ open = {} /\ fd = [c \in Peers |-> 0]
    /\ clients = {} /\ members = {} /\ ring = <<>>
    /\ plan = [c \in Peers |-> <<"accept">>]
    /\ item = [c \in Peers |-> 0]
    /\ todo = [c \in Peers |-> {}]
    /\ target = [c \in Peers |-> Nobody]
    /\ made = 0
    /\ heard = [c \in Peers |-> {}] /\ replayed = [c \in Peers |-> {}]
    /\ dropped = {} /\ private = {} /\ untold = {}
    /\ author = [i \in Items |-> Nobody]
    /\ meant = [i \in Items |-> {}] /\ known = [i \in Items |-> {}]

FreeFds == Fds \ {fd[c] : c \in open}
Accepted == {c \in Peers : plan[c] # <<"accept">>}
Idle(c) == plan[c] = <<>>
MayLose == Cardinality(dropped) + Cardinality(untold) < MaxLost

-------------------------------------------------------------------------------
(***************************************************************************)
(* The commands, as the steps they take one after the other.               *)
(***************************************************************************)
\* Mutant: the ring is replayed before the client is a member.
JOIN_ReplayFirst == <<"replay", "add", "cast">>

JOIN == <<"add", "replay", "cast">>

\* A JOIN or an ACCEPT of a member: it is taken out of its room first, where
\* nobody is told, and comes back if it is the one it asked for.
JOIN_elsewhere == <<"remove">>
JOIN_again == <<"remove", "add", "replay", "cast">>

MSG == <<"append", "cast">>

LEAVE == <<"remove", "cast">>

\* Mutant: the descriptor is closed first.
disconnect_cleanup_CloseFirst == <<"close", "remove", "cast", "delete", "end">>

disconnect_cleanup == <<"remove", "cast", "delete", "close", "end">>

\* A connection that is in no room has nobody to tell.
disconnect_outside == <<"delete", "close", "end">>

\* TYPING, STOP_TYPING, READ and a new STATUS are told to the others, an EDIT, a
\* DELETE and a PROMOTE to everybody.
NotifyOthers == <<"cast">>
NotifyAll == <<"cast_all">>

Begin(c, steps) ==
    /\ Idle(c) /\ made < MaxItems
    /\ made' = made + 1
    /\ item' = [item EXCEPT ![c] = made']
    /\ author' = [author EXCEPT ![made'] = c]
    /\ plan' = [plan EXCEPT ![c] = steps]

Command(c) ==
    /\ \/ c \in members /\ \E s \in {MSG, LEAVE, JOIN_elsewhere, JOIN_again,
                                     disconnect_cleanup, NotifyOthers, NotifyAll} : Begin(c, s)
       \/ c \notin members /\ \E s \in {JOIN, disconnect_outside} : Begin(c, s)
    /\ UNCHANGED <<open, fd, clients, members, ring, todo, target, hist>>

\* A PM finds its target under registry_lock.
PM(c, d) ==
    /\ d \in clients
    /\ Begin(c, <<"pm">>)
    /\ target' = [target EXCEPT ![c] = d]
    /\ meant' = [meant EXCEPT ![made'] = {d}]
    /\ known' = [known EXCEPT ![made'] = Accepted]
    /\ private' = private \cup {made'}
    /\ UNCHANGED <<open, fd, clients, members, ring, todo, heard, replayed, dropped, untold>>

-------------------------------------------------------------------------------
(***************************************************************************)
(* The steps.                                                              *)
(***************************************************************************)
At(c, label) == plan[c] # <<>> /\ Head(plan[c]) = label
Proceed(c) == plan' = [plan EXCEPT ![c] = Tail(@)]

\* accept hands out the lowest free descriptor; the connection logs in.
Accept(c) ==
    /\ At(c, "accept") /\ FreeFds # {}
    /\ open' = open \cup {c}
    /\ fd' = [fd EXCEPT ![c] = Min(FreeFds)]
    /\ clients' = clients \cup {c}
    /\ Proceed(c)
    /\ UNCHANGED <<members, ring, item, todo, target, made, author, hist>>

room_add_member(c) ==
    /\ At(c, "add")
    /\ members' = members \cup {c}
    /\ Proceed(c)
    /\ UNCHANGED <<open, fd, clients, ring, item, todo, target, made, author, hist>>

room_remove_member(c) ==
    /\ At(c, "remove")
    /\ members' = members \ {c}
    /\ Proceed(c)
    /\ UNCHANGED <<open, fd, clients, ring, item, todo, target, made, author, hist>>

\* room_lock is held while the ring is sent.
room_send_history(c) ==
    /\ At(c, "replay")
    /\ \/ /\ replayed' = [replayed EXCEPT ![c] = @ \cup {ring[i] : i \in DOMAIN ring}]
          /\ UNCHANGED dropped
       \/ /\ MayLose /\ ring # <<>>
          /\ dropped' = dropped \cup {c}
          /\ UNCHANGED replayed
    /\ Proceed(c)
    /\ UNCHANGED <<open, fd, clients, members, ring, item, todo, target, made, author,
                   heard, meant, known, private, untold>>

room_add_history(c) ==
    /\ At(c, "append")
    /\ ring' = LET r == Append(ring, item[c])
                   n == Len(r) IN
               IF n <= RingCap THEN r ELSE SubSeq(r, n - RingCap + 1, n)
    /\ Proceed(c)
    /\ UNCHANGED <<open, fd, clients, members, item, todo, target, made, author, hist>>

delete_client(c) ==
    /\ At(c, "delete")
    /\ clients' = clients \ {c}
    /\ Proceed(c)
    /\ UNCHANGED <<open, fd, members, ring, item, todo, target, made, author, hist>>

close_fd(c) ==
    /\ At(c, "close")
    /\ open' = open \ {c}
    /\ Proceed(c)
    /\ UNCHANGED <<fd, clients, members, ring, item, todo, target, made, author, hist>>

\* room_broadcast copies the descriptors of the members but one (exclude_fd) or
\* of all (-1) under room_lock ...
Recipients(c) == IF At(c, "cast") THEN members \ {c} ELSE members

Snapshot(c) ==
    /\ At(c, "cast") \/ At(c, "cast_all")
    /\ todo' = [todo EXCEPT ![c] = {fd[d] : d \in Recipients(c)}]
    /\ meant' = [meant EXCEPT ![item[c]] = Recipients(c)]
    /\ known' = [known EXCEPT ![item[c]] = Accepted]
    /\ plan' = [plan EXCEPT ![c] = <<"send">> \o Tail(@)]
    /\ UNCHANGED <<open, fd, clients, members, ring, item, target, made, author, heard,
                   replayed, private, dropped, untold>>

\* ... or finds no memory for them, and nobody is told.
BroadcastFails(c) ==
    /\ At(c, "cast") \/ At(c, "cast_all")
    /\ MayLose
    /\ untold' = untold \cup {item[c]}
    /\ Proceed(c)
    /\ UNCHANGED <<open, fd, clients, members, ring, item, todo, target, made, author, heard,
                   replayed, meant, known, private, dropped>>

\* send reaches whoever has the descriptor now.  The result is ignored: a
\* descriptor that is closed, or a socket that is full, loses the item.
SendTo(f, i) ==
    \/ /\ \A d \in open : fd[d] # f
       /\ UNCHANGED <<heard, dropped>>
    \/ \E d \in open :
          /\ fd[d] = f
          /\ \/ /\ heard' = [heard EXCEPT ![d] = @ \cup {i}]
                /\ UNCHANGED dropped
             \/ /\ MayLose
                /\ dropped' = dropped \cup {d}
                /\ UNCHANGED heard

\* ... and sends to them one by one without it.
SendNext(c) ==
    /\ At(c, "send")
    /\ \E f \in todo[c] :
          /\ todo' = [todo EXCEPT ![c] = @ \ {f}]
          /\ SendTo(f, item[c])
    /\ UNCHANGED <<open, fd, clients, members, ring, plan, item, target, made, author,
                   replayed, meant, known, private, untold>>

SendEnds(c) ==
    /\ At(c, "send") /\ todo[c] = {}
    /\ Proceed(c)
    /\ UNCHANGED <<open, fd, clients, members, ring, item, todo, target, made, author, hist>>

\* target->socket_fd: of a client that was freed meanwhile, any value.
SendPM(c) ==
    /\ At(c, "pm")
    /\ \/ target[c] \in clients /\ SendTo(fd[target[c]], item[c])
       \/ target[c] \notin clients /\ \E f \in Fds : SendTo(f, item[c])
    /\ target' = [target EXCEPT ![c] = Nobody]
    /\ Proceed(c)
    /\ UNCHANGED <<open, fd, clients, members, ring, item, todo, made, author, replayed,
                   meant, known, private, untold>>

DeliveryNext ==
    \/ \E c \in Peers : Accept(c)
    \/ \E c \in Peers : Command(c)
    \/ \E c, d \in Peers : PM(c, d)
    \/ \E c \in Peers : room_add_member(c)
    \/ \E c \in Peers : room_remove_member(c)
    \/ \E c \in Peers : room_send_history(c)
    \/ \E c \in Peers : room_add_history(c)
    \/ \E c \in Peers : delete_client(c)
    \/ \E c \in Peers : close_fd(c)
    \/ \E c \in Peers : Snapshot(c)
    \/ \E c \in Peers : BroadcastFails(c)
    \/ \E c \in Peers : SendNext(c)
    \/ \E c \in Peers : SendEnds(c)
    \/ \E c \in Peers : SendPM(c)

DeliverySpec == DeliveryInit /\ [][DeliveryNext]_deliveryVars

-------------------------------------------------------------------------------
(***************************************************************************)
(* Properties.                                                             *)
(***************************************************************************)
\* The type of every variable; a descriptor has one owner, and the ring never
\* holds more than its capacity.
DeliveryTypeOK ==
    /\ fd \in [Peers -> 0..NFd]
    /\ \A c, d \in open : fd[c] = fd[d] => c = d
    /\ open \subseteq Peers /\ clients \subseteq Peers
    /\ members \subseteq Peers /\ dropped \subseteq Peers
    /\ Len(ring) <= RingCap
    /\ item \in [Peers -> 0..MaxItems] /\ made \in 0..MaxItems
    /\ todo \in [Peers -> SUBSET Fds]
    /\ heard \in [Peers -> SUBSET Items] /\ replayed \in [Peers -> SUBSET Items]
    /\ untold \subseteq Items

\* However JOINs and MSGs overlap, no message falls between the replay and the
\* broadcasts: once everybody is idle, a member has received every message of
\* the ring that is not its own, unless a send to it failed or the broadcast found
\* no memory (JOIN, MSG, room_send_history, room_broadcast).
NoGap ==
    (\A c \in Accepted : plan[c] \in {<<>>, <<"end">>}) =>
       \A c \in members \ dropped : \A i \in DOMAIN ring :
          author[ring[i]] # c => ring[i] \in heard[c] \cup replayed[c] \cup untold

\* Members miss no message (room_broadcast, room_send_history), and descriptors and
\* ring are in range.
NothingMissed == DeliveryTypeOK /\ NoGap

\* What is sent reaches those it is meant for.  A broadcast (room_broadcast) can
\* reach somebody else only after one of them closed its descriptor, and then
\* only a connection accepted since the descriptors were copied; a PM, only if
\* its target was freed since it was found.
OnlyLateStrangers ==
    \A c \in Peers : \A i \in heard[c] :
       \/ c \in meant[i]
       \/ i \notin private /\ meant[i] \ open # {} /\ c \notin known[i]
       \/ i \in private /\ meant[i] \cap clients = {}
===============================================================================
