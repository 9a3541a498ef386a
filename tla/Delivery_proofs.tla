---------------------------- MODULE Delivery_proofs ----------------------------
(***************************************************************************)
(* Proofs about what the server sends of its own accord (Delivery) and     *)
(* what it sends page by page (Paging), two components that share no       *)
(* state.                                                                  *)
(*                                                                         *)
(* Delivery, for any connections, descriptors, capacity of the ring and    *)
(* number of items, with and without full sockets and missing memory.      *)
(* Neither property is inductive.  OnlyLateStrangers needs who can have a  *)
(* copied descriptor now: Lives, Owns, Recorded and Snapshots.  NoGap,     *)
(* which speaks of a server at rest, needs what holds in between: what a   *)
(* member has not got, somebody is about to send it (Covered).             *)
(*                                                                         *)
(* Paging, for any limits, entries, messages and changes between pages.    *)
(* Pages by offset need that what is still to come was not shown and what  *)
(* is before the offset was shown or moved there (Unshown, Beginning);     *)
(* pages by cursor, that what is below the cursor is what is missing       *)
(* (CursorInv).                                                            *)
(***************************************************************************)
EXTENDS Delivery, Paging, FiniteSetTheorems, SequenceTheorems, WellFoundedInduction, TLAPS

\* What a command may still have to do, sorted by what it has done: not begun or
\* over; the replay is due; the broadcast is due; it is being sent.
Resting == {<<"accept">>, <<>>, <<"end">>}
Closing == {<<"delete", "close", "end">>, <<"close", "end">>}
Sending == {<<"send">>, <<"send", "delete", "close", "end">>}
Casting == {<<"cast">>, <<"cast", "delete", "close", "end">>, <<"cast_all">>}
Before  == {JOIN, MSG, LEAVE, JOIN_elsewhere, JOIN_again, disconnect_cleanup,
            <<"replay", "cast">>}
Plans   == Resting \cup Closing \cup Sending \cup Casting \cup Before \cup {<<"pm">>}

\* Where a connection can be a member: it is one of the room's between JOIN and
\* LEAVE, and disconnect_cleanup takes it out first.
Inside == {<<>>, MSG, LEAVE, JOIN_elsewhere, JOIN_again, disconnect_cleanup,
           <<"replay", "cast">>, <<"cast">>, <<"cast_all">>, <<"send">>, <<"pm">>}

RingItems == {ring[i] : i \in DOMAIN ring}

\* The types DeliveryTypeOK leaves out.
Types ==
    /\ DeliveryTypeOK
    /\ plan \in [Peers -> Plans] /\ target \in [Peers -> Peers \cup {Nobody}]
    /\ ring \in Seq(Items) /\ RingItems \subseteq 1..made
    /\ author \in [Items -> Peers \cup {Nobody}]
    /\ meant \in [Items -> SUBSET Peers] /\ known \in [Items -> SUBSET Peers]
    /\ private \subseteq 1..made

\* The plan of a connection says whether its descriptor is open and its client
\* exists; a descriptor is never taken back while it is in use.
Lives ==
    \A c \in Peers :
        /\ c \in open <=> plan[c] \notin {<<"accept">>, <<"end">>}
        /\ c \in clients <=> plan[c] \notin {<<"accept">>, <<"end">>, <<"close", "end">>}
        /\ c \in members => plan[c] \in Inside
        /\ plan[c] # <<"accept">> => fd[c] \in Fds

\* An item belongs to the command that made it, and is unheard until its
\* recipients are determined.
Owns ==
    /\ \A c \in Peers : plan[c] \notin Resting =>
          /\ item[c] \in 1..made /\ author[item[c]] = c
          /\ item[c] \in private <=> plan[c] = <<"pm">>
    /\ \A c \in Peers : plan[c] \in Before \cup Casting \cup {<<"pm">>} =>
          \A d \in Peers : item[c] \notin heard[d]
    /\ \A d \in Peers : heard[d] \subseteq 1..made

\* Recipients were there when they were determined.
Recorded ==
    /\ \A i \in Items : \A d \in meant[i] \cup known[i] : plan[d] # <<"accept">>
    /\ \A c \in Peers : plan[c] = <<"pm">> => target[c] \in Peers /\ meant[item[c]] = {target[c]}

\* The descriptors still to be sent to were those of the recipients, and no
\* connection known then has one of them now but the recipient itself.
Snapshots ==
    \A c \in Peers : plan[c] \in Sending =>
        /\ todo[c] \subseteq {fd[d] : d \in meant[item[c]]}
        /\ \A d \in meant[item[c]] : \A e \in known[item[c]] \cap open :
              fd[d] = fd[e] => d = e

StrangersInv == Types /\ Lives /\ Owns /\ Recorded /\ Snapshots /\ OnlyLateStrangers

\* The author of message i is about to tell c.
OnTheWay(i, c) ==
    \E a \in Peers : /\ author[i] = a /\ item[a] = i
                     /\ \/ plan[a] = <<"cast">>
                        \/ plan[a] = <<"send">> /\ fd[c] \in todo[a]

\* A member that is past its replay has, or will be sent, what is in the ring,
\* unless its broadcast failed.
Covered ==
    \A c \in members \ dropped : plan[c] # <<"replay", "cast">> =>
        \A i \in RingItems : author[i] # c =>
            i \in heard[c] \cup replayed[c] \cup untold \/ OnTheWay(i, c)

DeliveryInv == StrangersInv /\ Covered

-------------------------------------------------------------------------------
(* The plans. *)

LEMMA OneStep ==
    ASSUME NEW x
    PROVE  <<x>> \in Seq({x}) /\ Tail(<<x>>) = <<>> /\ <<x>> \o <<>> = <<x>>
<1>1. <<x>> \in Seq({x}) /\ Len(<<x>>) = 1
  OBVIOUS
<1>2. Tail(<<x>>) \in Seq({x}) /\ Len(Tail(<<x>>)) = 0
  BY <1>1
<1> QED
  BY <1>1, <1>2, EmptySeq

LEMMA SendPlans ==
    <<"send">> \o Tail(<<"cast", "delete", "close", "end">>)
        = <<"send", "delete", "close", "end">>
<1> DEFINE W == {"send", "delete", "close", "end"}
           s == <<"send">>
           t == <<"delete", "close", "end">>
<1>1. Tail(<<"cast", "delete", "close", "end">>) = t
  OBVIOUS
<1>2. s \in Seq(W) /\ t \in Seq(W) /\ Len(s) = 1 /\ Len(t) = 3
  OBVIOUS
<1>3. /\ s \o t \in Seq(W) /\ Len(s \o t) = 4 /\ (s \o t)[1] = "send"
      /\ (s \o t)[2] = t[1] /\ (s \o t)[3] = t[2] /\ (s \o t)[4] = t[3]
  BY <1>2
<1> DEFINE u == <<"send", "delete", "close", "end">>
<1>4. /\ u \in Seq(W) /\ Len(u) = 4 /\ u[1] = "send"
      /\ u[2] = t[1] /\ u[3] = t[2] /\ u[4] = t[3]
  OBVIOUS
<1>5. s \o t = u
  <2> HIDE DEF s, t, u, W
  <2>1. \A i \in 1..4 : i = 1 \/ i = 2 \/ i = 3 \/ i = 4
    OBVIOUS
  <2>2. \A i \in 1..4 : (s \o t)[i] = u[i]
    BY <1>3, <1>4, <2>1
  <2> QED BY <1>3, <1>4, <2>2, SeqEqual
<1> QED
  BY <1>1, <1>5

LEMMA Labels ==
    ASSUME NEW p \in Plans, p # <<>>
    PROVE  /\ Head(p) = "accept" => p = <<"accept">> /\ Tail(p) = <<>>
           /\ Head(p) = "add" => p = JOIN /\ Tail(p) = <<"replay", "cast">>
           /\ Head(p) = "replay" => p = <<"replay", "cast">> /\ Tail(p) = <<"cast">>
           /\ Head(p) = "append" => p = MSG /\ Tail(p) = <<"cast">>
           /\ Head(p) = "delete" =>
                 p = <<"delete", "close", "end">> /\ Tail(p) = <<"close", "end">>
           /\ Head(p) = "close" => p = <<"close", "end">> /\ Tail(p) = <<"end">>
           /\ Head(p) = "pm" => p = <<"pm">> /\ Tail(p) = <<>>
<1>1. Head(p) = "accept" => p = <<"accept">>
  BY DEF Plans, Resting, Closing, Sending, Casting, Before, JOIN, MSG, LEAVE,
         disconnect_cleanup, JOIN_elsewhere, JOIN_again
<1>2. Head(p) = "pm" => p = <<"pm">>
  BY DEF Plans, Resting, Closing, Sending, Casting, Before, JOIN, MSG, LEAVE,
         disconnect_cleanup, JOIN_elsewhere, JOIN_again
<1>3. /\ Head(p) = "add" => p = JOIN
      /\ Head(p) = "replay" => p = <<"replay", "cast">>
      /\ Head(p) = "append" => p = MSG
  BY DEF Plans, Resting, Closing, Sending, Casting, Before, JOIN, MSG, LEAVE,
         disconnect_cleanup, JOIN_elsewhere, JOIN_again
<1>4. /\ Head(p) = "delete" => p = <<"delete", "close", "end">>
      /\ Head(p) = "close" => p = <<"close", "end">>
  BY DEF Plans, Resting, Closing, Sending, Casting, Before, JOIN, MSG, LEAVE,
         disconnect_cleanup, JOIN_elsewhere, JOIN_again
<1>5. /\ Tail(JOIN) = <<"replay", "cast">> /\ Tail(<<"replay", "cast">>) = <<"cast">>
      /\ Tail(MSG) = <<"cast">> /\ Tail(<<"close", "end">>) = <<"end">>
      /\ Tail(<<"delete", "close", "end">>) = <<"close", "end">>
  BY DEF JOIN, MSG
<1> QED
  BY <1>1, <1>2, <1>3, <1>4, <1>5, OneStep

LEMMA BranchLabels ==
    ASSUME NEW p \in Plans, p # <<>>
    PROVE  /\ Head(p) = "remove" =>
                 \/ p = LEAVE /\ Tail(p) = <<"cast">>
                 \/ p = JOIN_elsewhere /\ Tail(p) = <<>>
                 \/ p = JOIN_again /\ Tail(p) = JOIN
                 \/ p = disconnect_cleanup /\ Tail(p) = <<"cast", "delete", "close", "end">>
           /\ Head(p) = "send" =>
                 \/ p = <<"send">> /\ Tail(p) = <<>>
                 \/ /\ p = <<"send", "delete", "close", "end">>
                    /\ Tail(p) = <<"delete", "close", "end">>
<1>1. Head(p) = "remove" => p \in {LEAVE, JOIN_elsewhere, JOIN_again, disconnect_cleanup}
  BY DEF Plans, Resting, Closing, Sending, Casting, Before, JOIN, MSG, LEAVE,
         disconnect_cleanup, JOIN_elsewhere, JOIN_again
<1>2. Head(p) = "send" => p \in {<<"send">>, <<"send", "delete", "close", "end">>}
  BY DEF Plans, Resting, Closing, Sending, Casting, Before, JOIN, MSG, LEAVE,
         disconnect_cleanup, JOIN_elsewhere, JOIN_again
<1>3. /\ Tail(LEAVE) = <<"cast">> /\ Tail(JOIN_again) = JOIN
      /\ Tail(disconnect_cleanup) = <<"cast", "delete", "close", "end">>
      /\ Tail(<<"send", "delete", "close", "end">>) = <<"delete", "close", "end">>
  BY DEF JOIN, LEAVE, disconnect_cleanup, JOIN_elsewhere, JOIN_again
<1>4. Tail(JOIN_elsewhere) = <<>>
  BY OneStep DEF JOIN_elsewhere
<1> QED
  BY <1>1, <1>2, <1>3, <1>4, OneStep

LEMMA CastLabels ==
    ASSUME NEW p \in Plans, p # <<>>, Head(p) \in {"cast", "cast_all"}
    PROVE  /\ p \in Casting
           /\ Head(p) = "cast_all" <=> p = <<"cast_all">>
           /\ p \in {<<"cast">>, <<"cast_all">>} => <<"send">> \o Tail(p) = <<"send">>
           /\ p = <<"cast", "delete", "close", "end">> =>
                 <<"send">> \o Tail(p) = <<"send", "delete", "close", "end">>
<1>1. p \in Casting /\ (Head(p) = "cast_all" <=> p = <<"cast_all">>)
  BY DEF Plans, Resting, Closing, Sending, Casting, Before, JOIN, MSG, LEAVE,
         disconnect_cleanup, JOIN_elsewhere, JOIN_again
<1>2. p \in {<<"cast">>, <<"cast_all">>} => Tail(p) = <<>>
  BY OneStep
<1> QED
  BY <1>1, <1>2, OneStep, SendPlans

-------------------------------------------------------------------------------
(* Steps of one command that send nothing. *)

\* The plan of c moves on to q; what the step does to c's descriptor, client and
\* membership is what q says.  Nothing is made or sent.
Moves(c, q) ==
    /\ plan' = [plan EXCEPT ![c] = q]
    /\ q \in Plans \ (Sending \cup {<<"pm">>, <<"accept">>})
    /\ q \notin Resting => plan[c] \notin Resting \cup {<<"pm">>}
    /\ q \in Before \cup Casting => plan[c] \in Before \cup Casting
    /\ UNCHANGED <<item, todo, target, made, author, heard, meant, known, private>>

\* Only c comes or goes, and it comes only when it is accepted.
Stays(c, q) ==
    /\ \A d \in Peers \ {c} : /\ d \in open' <=> d \in open
                              /\ d \in clients' <=> d \in clients
                              /\ d \in members' <=> d \in members
    /\ c \in open' <=> q # <<"end">>
    /\ c \in clients' <=> q \notin {<<"end">>, <<"close", "end">>}
    /\ c \in members' => q \in Inside
    /\ c \in open' => c \in open \/ plan[c] = <<"accept">>
    /\ c \in clients' => c \in clients \/ plan[c] = <<"accept">>
    /\ open' \subseteq Peers /\ clients' \subseteq Peers /\ members' \subseteq Peers

\* Only a connection that is accepted gets a descriptor, a free one.
Opens(c) ==
    /\ fd' \in [Peers -> 0..NFd] /\ fd'[c] \in Fds
    /\ \A d \in Peers \ {c} : fd'[d] = fd[d]
    /\ IF plan[c] = <<"accept">> THEN \A d \in open : fd[d] # fd'[c] ELSE fd' = fd

Keeps ==
    /\ ring' \in Seq(Items) /\ Len(ring') <= RingCap /\ RingItems' \subseteq 1..made
    /\ replayed' \in [Peers -> SUBSET Items] /\ dropped' \subseteq Peers
    /\ untold' \subseteq Items

LEMMA InsidePlans ==
    ASSUME NEW p \in Inside
    PROVE  p # <<"accept">> /\ p # <<"end">> /\ p # <<"close", "end">> /\ p \in Plans
  BY DEF Inside, Plans, Resting, Closing, Sending, Casting, Before, JOIN, MSG, LEAVE,
         disconnect_cleanup, JOIN_elsewhere, JOIN_again

LEMMA MemberPlans ==
    ASSUME Lives, NEW d \in Peers, d \in members
    PROVE  plan[d] # <<"accept">> /\ d \in open /\ fd[d] \in Fds
<1>1. plan[d] \in Inside
  BY DEF Lives
<1> QED
  BY <1>1, InsidePlans DEF Lives

LEMMA DistinctPlans ==
    /\ <<>> # <<"cast">> /\ <<>> # <<"send">> /\ <<>> # <<"replay", "cast">>
    /\ <<>> # <<"pm">> /\ <<"pm">> # <<"replay", "cast">>
    /\ Sending \cap Resting = {} /\ Casting \cap Resting = {} /\ <<"pm">> \notin Resting
  BY DEF Sending, Casting, Resting

LEMMA SendingItem ==
    ASSUME StrangersInv, NEW a \in Peers, plan[a] \notin Resting
    PROVE  \E i \in Items : /\ i = item[a] /\ i \in 1..made /\ author[i] = a
                            /\ meant[i] \subseteq Peers /\ known[i] \subseteq Peers
<1>1. item[a] \in 1..made /\ author[item[a]] = a
  BY DEF StrangersInv, Owns
<1>2. 1..made \subseteq Items
  BY DeliveryAssumption DEF StrangersInv, Types, DeliveryTypeOK, Items
<1> QED
  BY <1>1, <1>2 DEF StrangersInv, Types

LEMMA MoveKeeps ==
    ASSUME StrangersInv, NEW c \in Peers, NEW q,
           Moves(c, q), Stays(c, q), Opens(c), Keeps
    PROVE  StrangersInv'
<1>1. /\ plan'[c] = q /\ \A d \in Peers \ {c} : plan'[d] = plan[d]
      /\ q \in Plans /\ q # <<"accept">> /\ q # <<"pm">> /\ q \notin Sending
      /\ plan' \in [Peers -> Plans]
  BY DEF StrangersInv, Types, Moves
<1>2. /\ q \notin Resting => plan[c] \notin Resting /\ plan[c] # <<"pm">>
      /\ q \in Before \cup Casting => plan[c] \in Before \cup Casting
      /\ UNCHANGED <<item, todo, target, made, author, heard, meant, known, private>>
  BY DEF Moves
<1>3. /\ c \in open => plan[c] # <<"accept">>
      /\ c \in clients => plan[c] # <<"accept">>
      /\ \A d \in Peers : plan[d] # <<"accept">> => fd'[d] = fd[d]
  BY DEF StrangersInv, Lives, Opens
<1>4. /\ \A d \in open' : d \in open \/ d = c
      /\ c \in open' => c \in open \/ plan[c] = <<"accept">>
      /\ \A d \in clients' : d \in clients \/ (d = c /\ plan[c] = <<"accept">>)
  <2>1. open' \subseteq Peers /\ clients' \subseteq Peers
    BY DEF Stays
  <2>2. \A d \in open' : d \in open \/ d = c
    BY <2>1 DEF Stays
  <2>3. \A d \in clients' : d \in clients \/ d = c
    BY <2>1 DEF Stays
  <2>4. /\ c \in open' => c \in open \/ plan[c] = <<"accept">>
        /\ c \in clients' => c \in clients \/ plan[c] = <<"accept">>
    BY DEF Stays
  <2> QED BY <2>2, <2>3, <2>4
<1>5. Types'
  <2>1. \A d, e \in open' : fd'[d] = fd'[e] => d = e
    <3>1. SUFFICES ASSUME NEW d \in open', NEW e \in open', fd'[d] = fd'[e] PROVE d = e
      OBVIOUS
    <3>2. CASE plan[c] = <<"accept">>
      BY <1>3, <1>4, <3>1, <3>2 DEF StrangersInv, Types, DeliveryTypeOK, Opens
    <3>3. CASE plan[c] # <<"accept">>
      BY <1>3, <1>4, <3>1, <3>3 DEF StrangersInv, Types, DeliveryTypeOK, Opens
    <3> QED BY <3>2, <3>3
  <2>2. DeliveryTypeOK'
    BY <1>2, <2>1 DEF StrangersInv, Types, DeliveryTypeOK, Stays, Opens, Keeps
  <2> QED BY <1>1, <1>2, <2>2 DEF StrangersInv, Types, Keeps
<1>6. Lives'
  BY <1>1, <1>3 DEF StrangersInv, Lives, Stays, Opens
<1>7. Owns'
  <2>1. \A d \in Peers : plan'[d] \notin Resting =>
           /\ item[d] \in 1..made /\ author[item[d]] = d
           /\ item[d] \in private <=> plan'[d] = <<"pm">>
    BY <1>1, <1>2 DEF StrangersInv, Owns
  <2>2. \A d \in Peers : plan'[d] \in Before \cup Casting \cup {<<"pm">>} =>
          \A e \in Peers : item[d] \notin heard[e]
    BY <1>1, <1>2 DEF StrangersInv, Owns
  <2> QED BY <1>2, <2>1, <2>2 DEF StrangersInv, Owns
<1>8. Recorded'
  <2>1. \A i \in Items : \A d \in meant[i] \cup known[i] : plan'[d] # <<"accept">>
    BY <1>1 DEF StrangersInv, Recorded, Types
  <2> QED BY <1>1, <1>2, <2>1 DEF StrangersInv, Recorded
<1>9. Snapshots'
  <2> SUFFICES ASSUME NEW a \in Peers, plan'[a] \in Sending
               PROVE  /\ todo'[a] \subseteq {fd'[d] : d \in meant'[item'[a]]}
                      /\ \A d \in meant'[item'[a]] : \A e \in known'[item'[a]] \cap open' :
                            fd'[d] = fd'[e] => d = e
    BY DEF Snapshots
  <2>1. plan[a] \in Sending
    BY <1>1
  <2>2. PICK i \in Items : i = item[a] /\ meant[i] \subseteq Peers /\ known[i] \subseteq Peers
    BY <2>1, SendingItem DEF Sending, Resting
  <2>3. \A d \in meant[i] \cup known[i] : d \in Peers /\ plan[d] # <<"accept">> /\ fd'[d] = fd[d]
    BY <1>3, <2>2 DEF StrangersInv, Recorded
  <2>4. /\ todo[a] \subseteq {fd[d] : d \in meant[i]}
        /\ \A d \in meant[i] : \A e \in known[i] \cap open : fd[d] = fd[e] => d = e
    BY <2>1, <2>2 DEF StrangersInv, Snapshots
  <2>5. {fd'[d] : d \in meant[i]} = {fd[d] : d \in meant[i]}
    BY <2>3
  <2>6. known[i] \cap open' \subseteq known[i] \cap open
    BY <1>4, <2>3
  <2> QED BY <1>2, <2>2, <2>3, <2>4, <2>5, <2>6
<1>10. OnlyLateStrangers'
  <2> SUFFICES ASSUME NEW a \in Peers, NEW i \in heard'[a]
               PROVE  \/ a \in meant'[i]
                      \/ i \notin private' /\ meant'[i] \ open' # {} /\ a \notin known'[i]
                      \/ i \in private' /\ meant'[i] \cap clients' = {}
    BY DEF OnlyLateStrangers
  <2>1. i \in heard[a] /\ i \in Items
    BY <1>2 DEF StrangersInv, Types, DeliveryTypeOK
  <2>2. \A d \in meant[i] : d \in Peers /\ plan[d] # <<"accept">>
    BY <2>1 DEF StrangersInv, Recorded, Types
  <2>3. meant[i] \ open \subseteq meant[i] \ open'
    BY <1>4, <2>2
  <2>4. meant[i] \cap clients' \subseteq meant[i] \cap clients
    BY <1>4, <2>2
  <2> QED BY <1>2, <2>1, <2>3, <2>4 DEF StrangersInv, OnlyLateStrangers
<1> QED
  BY <1>5, <1>6, <1>7, <1>8, <1>9, <1>10 DEF StrangersInv

\* What is in the ring may still be on the way to a member.
LEMMA MoveCovers ==
    ASSUME StrangersInv, Covered, NEW c \in Peers, NEW q,
           Moves(c, q), Stays(c, q), Opens(c), Keeps,
           plan[c] = <<"cast">> => item[c] \in untold',
           plan[c] = <<"send">> => todo[c] = {},
           \A d \in Peers : replayed[d] \subseteq replayed'[d],
           dropped \subseteq dropped', untold \subseteq untold',
           c \in members' \ dropped' /\ q # <<"replay", "cast">> =>
              \/ RingItems' \subseteq replayed'[c]
              \/ c \in members /\ plan[c] # <<"replay", "cast">>,
           \/ RingItems' \subseteq RingItems
           \/ plan[c] = MSG /\ q = <<"cast">> /\ RingItems' \subseteq RingItems \cup {item[c]}
    PROVE  Covered'
<1> SUFFICES ASSUME NEW d \in members', d \notin dropped',
                    plan'[d] # <<"replay", "cast">>,
                    NEW i \in RingItems', author'[i] # d,
                    i \notin replayed'[d], i \notin untold'
             PROVE  i \in heard'[d] \/ OnTheWay(i, d)'
  BY DEF Covered
<1>1. /\ plan'[c] = q /\ \A a \in Peers \ {c} : plan'[a] = plan[a]
      /\ UNCHANGED <<item, todo, author, heard>>
  BY DEF StrangersInv, Types, Moves
<1>2. d \in members /\ d \notin dropped /\ plan[d] # <<"replay", "cast">> /\ d \in Peers
  <2>1. d \in Peers /\ d \notin dropped
    BY DEF Stays
  <2>2. CASE d = c
    BY <1>1, <2>1, <2>2
  <2>3. CASE d # c
    BY <1>1, <2>1, <2>3 DEF Stays
  <2> QED BY <2>2, <2>3
<1>3. fd'[d] = fd[d]
  <2>1. plan[d] # <<"accept">>
    BY <1>2, MemberPlans DEF StrangersInv
  <2> QED BY <1>2, <2>1 DEF Opens
<1>4. CASE i \in RingItems
  <2>1. i \in heard[d] \/ OnTheWay(i, d)
    BY <1>1, <1>2, <1>4 DEF Covered
  <2>2. ASSUME OnTheWay(i, d) PROVE OnTheWay(i, d)'
    <3>1. PICK a \in Peers : /\ author[i] = a /\ item[a] = i
                             /\ \/ plan[a] = <<"cast">>
                                \/ plan[a] = <<"send">> /\ fd[d] \in todo[a]
      BY <2>2 DEF OnTheWay
    <3>2. a # c
      BY <3>1
    <3> QED BY <1>1, <1>3, <3>1, <3>2 DEF OnTheWay
  <2> QED BY <1>1, <2>1, <2>2
<1>5. CASE i \notin RingItems
  <2>1. plan[c] = MSG /\ q = <<"cast">> /\ i = item[c]
    BY <1>5
  <2>2. author[i] = c
    BY <2>1 DEF StrangersInv, Owns, Resting, MSG
  <2> QED BY <1>1, <2>1, <2>2 DEF OnTheWay
<1> QED
  BY <1>4, <1>5


-------------------------------------------------------------------------------
(* accept, and the steps of JOIN, MSG, LEAVE and a disconnect. *)

LEMMA LeastFd ==
    ASSUME NEW T \in SUBSET Nat, T # {}
    PROVE  Min(T) \in T
<1>1. \E R : /\ IsWellFoundedOn(R, Nat)
             /\ \A x, y \in Nat : <<x, y>> \in R <=> x < y
  <2>1. \A x, y \in Nat : <<x, y>> \in OpToRel(<, Nat) <=> x < y
    BY DEF OpToRel
  <2> QED BY <2>1, NatLessThanWellFounded, Zenon
<1>2. PICK R : /\ IsWellFoundedOn(R, Nat)
               /\ \A x, y \in Nat : <<x, y>> \in R <=> x < y
  BY <1>1
<1>3. PICK least \in T : \A f \in T : ~(<<f, least>> \in R)
  <2>1. IsWellFoundedOn(R, Nat) /\ T \subseteq Nat /\ T # {}
    BY <1>2
  <2> QED BY ONLY <2>1, WFMin
<1>4. \A f \in T : least <= f
  <2>1. \A f \in T : f \in Nat /\ ~(f < least)
    BY <1>2, <1>3
  <2> QED BY <2>1
<1> QED
  BY <1>3, <1>4 DEF Min

LEMMA AcceptStep ==
    ASSUME DeliveryInv, NEW c \in Peers, Accept(c)
    PROVE  DeliveryInv'
<1>1. /\ StrangersInv /\ Covered /\ Types /\ Lives /\ plan \in [Peers -> Plans]
      /\ plan[c] = <<"accept">> /\ Tail(plan[c]) = <<>>
  BY Labels DEF DeliveryInv, StrangersInv, Types, Accept, At
<1>2. Moves(c, <<>>)
  BY <1>1 DEF Accept, Proceed, hist, Moves, Plans, Resting, Sending, Before, Casting,
              JOIN, MSG, LEAVE, disconnect_cleanup, JOIN_elsewhere, JOIN_again
<1>3. Stays(c, <<>>)
  BY <1>1 DEF Accept, Stays, Inside, Types, DeliveryTypeOK
<1>4. Opens(c)
  <2>1. FreeFds \subseteq Nat /\ FreeFds # {}
    BY DEF Accept, FreeFds, Fds
  <2>2. Min(FreeFds) \in FreeFds
    BY <2>1, LeastFd
  <2>3. Min(FreeFds) \in Fds /\ \A d \in open : fd[d] # Min(FreeFds)
    BY <2>2 DEF FreeFds
  <2> QED BY <1>1, <2>3 DEF Accept, Opens, Types, DeliveryTypeOK, Fds
<1>5. Keeps /\ RingItems' = RingItems /\ UNCHANGED <<members, dropped, replayed, untold>>
  BY <1>1 DEF Accept, hist, Keeps, RingItems, Types, DeliveryTypeOK
<1>6. c \notin members
  BY <1>1, MemberPlans
<1>7. plan[c] # <<"cast">> /\ plan[c] # <<"send">>
  BY <1>1
<1>8. StrangersInv'
  BY <1>1, <1>2, <1>3, <1>4, <1>5, MoveKeeps
<1>9. Covered'
  BY <1>1, <1>2, <1>3, <1>4, <1>5, <1>6, <1>7, MoveCovers
<1> QED
  BY <1>8, <1>9 DEF DeliveryInv


\* A step of a connection that is open: its descriptor stays.
LEMMA OpenBefore ==
    ASSUME Types, Lives, NEW c \in Peers, plan[c] \notin {<<"accept">>, <<"end">>},
           UNCHANGED fd
    PROVE  Opens(c) /\ c \in open
  BY DEF Types, DeliveryTypeOK, Lives, Opens

LEMMA RingKept ==
    ASSUME Types, UNCHANGED <<ring, made, replayed, dropped, untold>>
    PROVE  Keeps /\ RingItems' = RingItems
  BY DEF Keeps, RingItems, Types, DeliveryTypeOK

LEMMA AddStep ==
    ASSUME DeliveryInv, NEW c \in Peers, room_add_member(c)
    PROVE  DeliveryInv'
<1> DEFINE q == <<"replay", "cast">>
<1>1. /\ StrangersInv /\ Covered /\ Types /\ Lives
      /\ plan[c] = JOIN /\ Tail(plan[c]) = q
  BY Labels DEF DeliveryInv, StrangersInv, Types, room_add_member, At
<1>2. /\ members' = members \cup {c} /\ plan' = [plan EXCEPT ![c] = q]
      /\ UNCHANGED <<open, fd, clients, ring, item, todo, target, made, author, hist>>
  BY <1>1 DEF room_add_member, Proceed
<1>3. Moves(c, q)
  BY <1>1, <1>2 DEF hist, Moves, Plans, Resting, Sending, Before, Casting,
                    JOIN, MSG, LEAVE, disconnect_cleanup, JOIN_elsewhere, JOIN_again
<1>4. Opens(c) /\ c \in open
  BY <1>1, <1>2, OpenBefore DEF JOIN
<1>5. Stays(c, q)
  BY <1>1, <1>2, <1>4 DEF Stays, Inside, Types, DeliveryTypeOK, Lives, JOIN
<1>6. Keeps /\ RingItems' = RingItems /\ UNCHANGED <<dropped, replayed, untold>>
  BY <1>1, <1>2, RingKept DEF hist
<1>7. plan[c] # <<"cast">> /\ plan[c] # <<"send">>
  BY <1>1 DEF JOIN
<1> HIDE DEF q
<1>8. StrangersInv'
  BY <1>1, <1>3, <1>4, <1>5, <1>6, MoveKeeps
<1>9. Covered'
  BY <1>1, <1>3, <1>4, <1>5, <1>6, <1>7, MoveCovers DEF q
<1> QED
  BY <1>8, <1>9 DEF DeliveryInv

LEMMA RemoveStep ==
    ASSUME DeliveryInv, NEW c \in Peers, room_remove_member(c)
    PROVE  DeliveryInv'
<1>1. PICK q : /\ \/ plan[c] = LEAVE /\ q = <<"cast">>
                  \/ plan[c] = JOIN_elsewhere /\ q = <<>>
                  \/ plan[c] = JOIN_again /\ q = JOIN
                  \/ plan[c] = disconnect_cleanup /\ q = <<"cast", "delete", "close", "end">>
               /\ Tail(plan[c]) = q
  BY BranchLabels DEF DeliveryInv, StrangersInv, Types, room_remove_member, At
<1>2. /\ members' = members \ {c} /\ plan' = [plan EXCEPT ![c] = q]
      /\ UNCHANGED <<open, fd, clients, ring, item, todo, target, made, author, hist>>
      /\ StrangersInv /\ Covered /\ Types /\ Lives
  BY <1>1 DEF room_remove_member, Proceed, DeliveryInv, StrangersInv
<1>3. Moves(c, q)
  <2>1. CASE plan[c] = LEAVE /\ q = <<"cast">>
    BY <1>2, <2>1 DEF hist, Moves, Plans, Resting, Sending, Before, Casting, LEAVE,
                      JOIN, disconnect_cleanup, JOIN_elsewhere, JOIN_again
  <2>2. CASE plan[c] = disconnect_cleanup /\ q = <<"cast", "delete", "close", "end">>
    BY <1>2, <2>2 DEF hist, Moves, Plans, Resting, Sending, Before, Casting, LEAVE,
                      JOIN, disconnect_cleanup, JOIN_elsewhere, JOIN_again
  <2>3. CASE plan[c] = JOIN_elsewhere /\ q = <<>>
    BY <1>2, <2>3 DEF hist, Moves, Plans, Resting, Sending, Before, Casting, LEAVE,
                      JOIN, MSG, disconnect_cleanup, JOIN_elsewhere, JOIN_again
  <2>4. CASE plan[c] = JOIN_again /\ q = JOIN
    BY <1>2, <2>4 DEF hist, Moves, Plans, Resting, Sending, Before, Casting, LEAVE,
                      JOIN, MSG, disconnect_cleanup, JOIN_elsewhere, JOIN_again
  <2> QED BY <1>1, <2>1, <2>2, <2>3, <2>4
<1>4. Opens(c) /\ c \in open
  BY <1>1, <1>2, OpenBefore DEF LEAVE, disconnect_cleanup, JOIN_elsewhere, JOIN_again
<1>5. Stays(c, q)
  <2>1. c \in clients
    BY <1>1, <1>2 DEF Lives, LEAVE, disconnect_cleanup, JOIN_elsewhere, JOIN_again
  <2>2. q # <<"end">> /\ q # <<"close", "end">>
    BY <1>1 DEF JOIN
  <2> QED BY <1>2, <1>4, <2>1, <2>2 DEF Stays, Types, DeliveryTypeOK
<1>6. Keeps /\ RingItems' = RingItems /\ UNCHANGED <<dropped, replayed, untold>>
  BY <1>2, RingKept DEF hist
<1>7. plan[c] # <<"cast">> /\ plan[c] # <<"send">>
  BY <1>1 DEF LEAVE, disconnect_cleanup, JOIN_elsewhere, JOIN_again
<1>8. StrangersInv'
  BY <1>2, <1>3, <1>4, <1>5, <1>6, MoveKeeps
<1>9. Covered'
  BY <1>2, <1>3, <1>4, <1>5, <1>6, <1>7, MoveCovers
<1> QED
  BY <1>8, <1>9 DEF DeliveryInv

LEMMA DeleteStep ==
    ASSUME DeliveryInv, NEW c \in Peers, delete_client(c)
    PROVE  DeliveryInv'
<1> DEFINE q == <<"close", "end">>
<1>1. /\ StrangersInv /\ Covered /\ Types /\ Lives
      /\ plan[c] = <<"delete", "close", "end">> /\ Tail(plan[c]) = q
  BY Labels DEF DeliveryInv, StrangersInv, Types, delete_client, At
<1>2. /\ clients' = clients \ {c} /\ plan' = [plan EXCEPT ![c] = q]
      /\ UNCHANGED <<open, fd, members, ring, item, todo, target, made, author, hist>>
  BY <1>1 DEF delete_client, Proceed
<1>3. Moves(c, q)
  BY <1>1, <1>2 DEF hist, Moves, Plans, Resting, Closing, Sending, Before, Casting,
                    JOIN, MSG, LEAVE, disconnect_cleanup, JOIN_elsewhere, JOIN_again
<1>4. Opens(c) /\ c \in open /\ c \notin members
  <2>1. Opens(c) /\ c \in open
    BY <1>1, <1>2, OpenBefore
  <2>2. plan[c] \notin Inside
    BY <1>1 DEF Inside, MSG, LEAVE, disconnect_cleanup, JOIN_elsewhere, JOIN_again
  <2> QED BY <1>1, <2>1, <2>2 DEF Lives
<1>5. Stays(c, q)
  BY <1>2, <1>4, <1>1 DEF Stays, Types, DeliveryTypeOK
<1>6. Keeps /\ RingItems' = RingItems /\ UNCHANGED <<dropped, replayed, untold>>
  BY <1>1, <1>2, RingKept DEF hist
<1>7. plan[c] # <<"cast">> /\ plan[c] # <<"send">>
  BY <1>1
<1> HIDE DEF q
<1>8. StrangersInv'
  BY <1>1, <1>3, <1>4, <1>5, <1>6, MoveKeeps
<1>9. Covered'
  BY <1>1, <1>2, <1>3, <1>4, <1>5, <1>6, <1>7, MoveCovers
<1> QED
  BY <1>8, <1>9 DEF DeliveryInv

LEMMA CloseStep ==
    ASSUME DeliveryInv, NEW c \in Peers, close_fd(c)
    PROVE  DeliveryInv'
<1> DEFINE q == <<"end">>
<1>1. /\ StrangersInv /\ Covered /\ Types /\ Lives
      /\ plan[c] = <<"close", "end">> /\ Tail(plan[c]) = q
  BY Labels DEF DeliveryInv, StrangersInv, Types, close_fd, At
<1>2. /\ open' = open \ {c} /\ plan' = [plan EXCEPT ![c] = q]
      /\ UNCHANGED <<fd, clients, members, ring, item, todo, target, made, author, hist>>
  BY <1>1 DEF close_fd, Proceed
<1>3. Moves(c, q)
  BY <1>1, <1>2 DEF hist, Moves, Plans, Resting, Sending, Before, Casting,
                    JOIN, MSG, LEAVE, disconnect_cleanup, JOIN_elsewhere, JOIN_again
<1>4. Opens(c) /\ c \notin clients /\ c \notin members
  <2>1. Opens(c)
    BY <1>1, <1>2, OpenBefore
  <2>2. plan[c] \notin Inside
    BY <1>1 DEF Inside, MSG, LEAVE, disconnect_cleanup, JOIN_elsewhere, JOIN_again
  <2> QED BY <1>1, <2>1, <2>2 DEF Lives
<1>5. Stays(c, q)
  BY <1>2, <1>4, <1>1 DEF Stays, Types, DeliveryTypeOK
<1>6. Keeps /\ RingItems' = RingItems /\ UNCHANGED <<dropped, replayed, untold>>
  BY <1>1, <1>2, RingKept DEF hist
<1>7. plan[c] # <<"cast">> /\ plan[c] # <<"send">>
  BY <1>1
<1> HIDE DEF q
<1>8. StrangersInv'
  BY <1>1, <1>3, <1>4, <1>5, <1>6, MoveKeeps
<1>9. Covered'
  BY <1>1, <1>2, <1>3, <1>4, <1>5, <1>6, <1>7, MoveCovers
<1> QED
  BY <1>8, <1>9 DEF DeliveryInv


LEMMA ReplayStep ==
    ASSUME DeliveryInv, NEW c \in Peers, room_send_history(c)
    PROVE  DeliveryInv'
<1> DEFINE q == <<"cast">>
<1>1. /\ StrangersInv /\ Covered /\ Types /\ Lives
      /\ plan[c] = <<"replay", "cast">> /\ Tail(plan[c]) = q
  BY Labels DEF DeliveryInv, StrangersInv, Types, room_send_history, At
<1>2. /\ plan' = [plan EXCEPT ![c] = q]
      /\ UNCHANGED <<open, fd, clients, members, ring, item, todo, target, made, author,
                     heard, meant, known, private, untold>>
  BY <1>1 DEF room_send_history, Proceed
<1>3. Moves(c, q)
  BY <1>1, <1>2 DEF Moves, Plans, Resting, Sending, Before, Casting,
                    JOIN, MSG, LEAVE, disconnect_cleanup, JOIN_elsewhere, JOIN_again
<1>4. Opens(c) /\ c \in open
  BY <1>1, <1>2, OpenBefore
<1>5. Stays(c, q)
  BY <1>1, <1>2, <1>4 DEF Stays, Inside, Types, DeliveryTypeOK, Lives
<1>6. /\ \/ /\ replayed' = [replayed EXCEPT ![c] = @ \cup RingItems]
            /\ UNCHANGED dropped
         \/ dropped' = dropped \cup {c} /\ UNCHANGED replayed
      /\ RingItems' = RingItems
  BY <1>2 DEF room_send_history, RingItems
<1>7. RingItems \subseteq Items
  BY <1>1 DEF Types, RingItems
<1>8. Keeps
  <2>1. replayed \in [Peers -> SUBSET Items] /\ dropped \subseteq Peers
    BY <1>1 DEF Types, DeliveryTypeOK
  <2>2. replayed[c] \cup RingItems \in SUBSET Items
    BY <1>7, <2>1
  <2>3. replayed' \in [Peers -> SUBSET Items] /\ dropped' \subseteq Peers
    BY <1>6, <2>1, <2>2
  <2> QED BY <1>1, <1>2, <1>6, <2>3 DEF Keeps, Types, DeliveryTypeOK
<1>9. plan[c] # <<"cast">> /\ plan[c] # <<"send">>
  BY <1>1
<1>10. /\ \A d \in Peers : replayed[d] \subseteq replayed'[d]
       /\ dropped \subseteq dropped' /\ (c \in dropped' \/ RingItems' \subseteq replayed'[c])
  BY <1>1, <1>6 DEF Types, DeliveryTypeOK
<1> HIDE DEF q
<1>11. StrangersInv'
  BY <1>1, <1>3, <1>4, <1>5, <1>8, MoveKeeps
<1>12. Covered'
  BY <1>1, <1>2, <1>3, <1>4, <1>5, <1>6, <1>8, <1>9, <1>10, MoveCovers
<1> QED
  BY <1>11, <1>12 DEF DeliveryInv

\* The ring drops its oldest when it is full.
LEMMA LastOnes ==
    ASSUME NEW S, NEW r \in Seq(S), NEW cap \in Nat, Len(r) > cap
    PROVE  LET t == SubSeq(r, Len(r) - cap + 1, Len(r)) IN
           /\ t \in Seq(S) /\ Len(t) = cap
           /\ \A i \in DOMAIN t : \E j \in DOMAIN r : t[i] = r[j]
<1>1. Len(r) \in Nat /\ DOMAIN r = 1..Len(r)
  OBVIOUS
<1>2. PICK first \in 1..Len(r) + 1 : first = Len(r) - cap + 1
  BY <1>1
<1>3. PICK t : t = SubSeq(r, first, Len(r))
  OBVIOUS
<1>4. \A i \in first..Len(r) : r[i] \in S
  BY <1>1, <1>2
<1>5. /\ t \in Seq(S) /\ Len(t) = Len(r) - first + 1
      /\ \A i \in 1..Len(r) - first + 1 : t[i] = r[first + i - 1]
  BY <1>1, <1>2, <1>3, <1>4, SubSeqProperties
<1>6. Len(t) = cap /\ DOMAIN t = 1..cap
  BY <1>1, <1>2, <1>5
<1>7. \A i \in 1..cap : t[i] = r[first + i - 1] /\ first + i - 1 \in 1..Len(r)
  BY <1>1, <1>2, <1>5
<1> QED
  BY <1>1, <1>2, <1>3, <1>5, <1>6, <1>7

LEMMA RingAppended ==
    ASSUME NEW S, NEW s \in Seq(S), NEW x \in S, NEW cap \in Nat
    PROVE  LET r == Append(s, x)
               t == IF Len(r) <= cap THEN r ELSE SubSeq(r, Len(r) - cap + 1, Len(r)) IN
           /\ t \in Seq(S) /\ Len(t) <= cap
           /\ {t[i] : i \in DOMAIN t} \subseteq {s[i] : i \in DOMAIN s} \cup {x}
<1>1. PICK r \in Seq(S) : r = Append(s, x)
  BY AppendProperties
<1>2. /\ Len(r) = Len(s) + 1 /\ Len(r) \in Nat /\ Len(s) \in Nat
      /\ DOMAIN r = 1..Len(r) /\ DOMAIN s = 1..Len(s)
      /\ r[Len(s) + 1] = x /\ \A i \in 1..Len(s) : r[i] = s[i]
  BY <1>1
<1>3. \A i \in DOMAIN r : r[i] \in {s[j] : j \in DOMAIN s} \cup {x}
  BY <1>2
<1>4. PICK t : t = IF Len(r) <= cap THEN r ELSE SubSeq(r, Len(r) - cap + 1, Len(r))
  OBVIOUS
<1>5. CASE Len(r) <= cap
  <2>1. t = r
    BY <1>4, <1>5
  <2> QED BY <1>1, <1>3, <1>4, <1>5, <2>1
<1>6. CASE ~(Len(r) <= cap)
  <2>1. Len(r) > cap /\ t = SubSeq(r, Len(r) - cap + 1, Len(r))
    BY <1>2, <1>4, <1>6
  <2>2. /\ t \in Seq(S) /\ Len(t) = cap
        /\ \A i \in DOMAIN t : \E j \in DOMAIN r : t[i] = r[j]
    BY <2>1, LastOnes
  <2>3. {t[i] : i \in DOMAIN t} \subseteq {s[i] : i \in DOMAIN s} \cup {x}
    BY <1>3, <2>2
  <2>4. Len(t) <= cap
    BY <2>2
  <2> QED BY <1>1, <1>4, <2>2, <2>3, <2>4
<1> QED
  BY <1>5, <1>6

LEMMA AppendStep ==
    ASSUME DeliveryInv, NEW c \in Peers, room_add_history(c)
    PROVE  DeliveryInv'
<1> DEFINE q == <<"cast">>
<1>1. /\ StrangersInv /\ Covered /\ Types /\ Lives
      /\ plan[c] = MSG /\ Tail(plan[c]) = q
  BY Labels DEF DeliveryInv, StrangersInv, Types, room_add_history, At
<1>2. /\ plan' = [plan EXCEPT ![c] = q]
      /\ UNCHANGED <<open, fd, clients, members, item, todo, target, made, author, hist>>
  BY <1>1 DEF room_add_history, Proceed
<1>3. Moves(c, q)
  BY <1>1, <1>2 DEF hist, Moves, Plans, Resting, Sending, Before, Casting,
                    JOIN, MSG, LEAVE, disconnect_cleanup, JOIN_elsewhere, JOIN_again
<1>4. Opens(c) /\ c \in open
  BY <1>1, <1>2, OpenBefore DEF MSG
<1>5. Stays(c, q)
  BY <1>1, <1>2, <1>4 DEF Stays, Inside, Types, DeliveryTypeOK, Lives, MSG
<1>6. item[c] \in Items /\ item[c] \in 1..made
  BY <1>1, SendingItem DEF Resting, MSG
<1>7. /\ ring' \in Seq(Items) /\ Len(ring') <= RingCap
      /\ RingItems' \subseteq RingItems \cup {item[c]}
  <2>1. ring \in Seq(Items) /\ RingCap \in Nat
    BY <1>1, DeliveryAssumption DEF Types
  <2> DEFINE r == Append(ring, item[c])
             t == IF Len(r) <= RingCap THEN r ELSE SubSeq(r, Len(r) - RingCap + 1, Len(r))
  <2>2. ring' = t
    BY DEF room_add_history
  <2>3. /\ t \in Seq(Items) /\ Len(t) <= RingCap
        /\ {t[i] : i \in DOMAIN t} \subseteq {ring[i] : i \in DOMAIN ring} \cup {item[c]}
    BY <1>6, <2>1, RingAppended
  <2> HIDE DEF t
  <2> QED BY <2>2, <2>3 DEF RingItems
<1>8. Keeps
  BY <1>1, <1>2, <1>6, <1>7 DEF hist, Keeps, Types, DeliveryTypeOK
<1>9. plan[c] # <<"cast">> /\ plan[c] # <<"send">> /\ plan[c] # <<"replay", "cast">>
  BY <1>1 DEF MSG
<1>10. UNCHANGED <<members, dropped, replayed, untold>>
  BY <1>2 DEF hist
<1>11. StrangersInv'
  BY <1>1, <1>3, <1>4, <1>5, <1>8, MoveKeeps
<1>12. Covered'
  BY <1>1, <1>3, <1>4, <1>5, <1>7, <1>8, <1>9, <1>10, MoveCovers
<1> QED
  BY <1>11, <1>12 DEF DeliveryInv

LEMMA SendEndsStep ==
    ASSUME DeliveryInv, NEW c \in Peers, SendEnds(c)
    PROVE  DeliveryInv'
<1>1. PICK q : /\ \/ plan[c] = <<"send">> /\ q = <<>>
                  \/ /\ plan[c] = <<"send", "delete", "close", "end">>
                     /\ q = <<"delete", "close", "end">>
               /\ Tail(plan[c]) = q
  BY BranchLabels DEF DeliveryInv, StrangersInv, Types, SendEnds, At
<1>2. /\ plan' = [plan EXCEPT ![c] = q] /\ todo[c] = {}
      /\ UNCHANGED <<open, fd, clients, members, ring, item, todo, target, made, author, hist>>
      /\ StrangersInv /\ Covered /\ Types /\ Lives
  BY <1>1 DEF SendEnds, Proceed, DeliveryInv, StrangersInv
<1>3. Moves(c, q) /\ (c \in members => q \in Inside)
  <2>1. CASE plan[c] = <<"send">> /\ q = <<>>
    BY <1>2, <2>1 DEF hist, Moves, Plans, Resting, Sending, Before, Casting, LEAVE,
                      JOIN, MSG, disconnect_cleanup, JOIN_elsewhere, JOIN_again, Inside
  <2>2. CASE plan[c] = <<"send", "delete", "close", "end">> /\ q = <<"delete", "close", "end">>
    <3>1. Moves(c, q)
      BY <1>2, <2>2 DEF hist, Moves, Plans, Resting, Closing, Sending, Before, Casting,
                        LEAVE, JOIN, MSG, disconnect_cleanup, JOIN_elsewhere, JOIN_again
    <3>2. plan[c] \notin Inside
      BY <2>2 DEF Inside, MSG, LEAVE, disconnect_cleanup, JOIN_elsewhere, JOIN_again
    <3> QED BY <1>2, <3>1, <3>2 DEF Lives
  <2> QED BY <1>1, <2>1, <2>2
<1>4. Opens(c) /\ c \in open /\ c \in clients
  BY <1>1, <1>2, OpenBefore DEF Lives
<1>5. Stays(c, q)
  <2>1. q # <<"end">> /\ q # <<"close", "end">>
    BY <1>1
  <2> QED BY <1>2, <1>3, <1>4, <2>1 DEF Stays, Types, DeliveryTypeOK
<1>6. Keeps /\ RingItems' = RingItems /\ UNCHANGED <<dropped, replayed, untold>>
  BY <1>2, RingKept DEF hist
<1>7. plan[c] # <<"cast">> /\ plan[c] # <<"replay", "cast">>
  BY <1>1
<1>8. StrangersInv'
  BY <1>2, <1>3, <1>4, <1>5, <1>6, MoveKeeps
<1>9. Covered'
  BY <1>2, <1>3, <1>4, <1>5, <1>6, <1>7, MoveCovers
<1> QED
  BY <1>8, <1>9 DEF DeliveryInv


LEMMA BroadcastFailsStep ==
    ASSUME DeliveryInv, NEW c \in Peers, BroadcastFails(c)
    PROVE  DeliveryInv'
<1>1. PICK q : /\ \/ plan[c] \in {<<"cast">>, <<"cast_all">>} /\ q = <<>>
                  \/ /\ plan[c] = <<"cast", "delete", "close", "end">>
                     /\ q = <<"delete", "close", "end">>
               /\ Tail(plan[c]) = q
  <2>1. plan[c] \in Casting
    BY CastLabels DEF DeliveryInv, StrangersInv, Types, BroadcastFails, At
  <2>2. Tail(<<"cast", "delete", "close", "end">>) = <<"delete", "close", "end">>
    OBVIOUS
  <2> QED BY <2>1, <2>2, OneStep DEF Casting
<1>2. /\ plan' = [plan EXCEPT ![c] = q] /\ untold' = untold \cup {item[c]}
      /\ UNCHANGED <<open, fd, clients, members, ring, item, todo, target, made, author,
                     heard, replayed, meant, known, private, dropped>>
      /\ StrangersInv /\ Covered /\ Types /\ Lives
  BY <1>1 DEF BroadcastFails, Proceed, DeliveryInv, StrangersInv
<1>3. Moves(c, q) /\ (c \in members => q \in Inside)
  <2>1. CASE plan[c] \in {<<"cast">>, <<"cast_all">>} /\ q = <<>>
    BY <1>2, <2>1 DEF Moves, Plans, Resting, Sending, Before, Casting, LEAVE, JOIN, MSG,
                      disconnect_cleanup, JOIN_elsewhere, JOIN_again, Inside
  <2>2. CASE /\ plan[c] = <<"cast", "delete", "close", "end">>
             /\ q = <<"delete", "close", "end">>
    <3>1. Moves(c, q)
      BY <1>2, <2>2 DEF Moves, Plans, Resting, Closing, Sending, Before, Casting,
                        LEAVE, JOIN, MSG, disconnect_cleanup, JOIN_elsewhere, JOIN_again
    <3>2. plan[c] \notin Inside
      BY <2>2 DEF Inside, MSG, LEAVE, disconnect_cleanup, JOIN_elsewhere, JOIN_again
    <3> QED BY <1>2, <3>1, <3>2 DEF Lives
  <2> QED BY <1>1, <2>1, <2>2
<1>4. Opens(c) /\ c \in open /\ c \in clients
  BY <1>1, <1>2, OpenBefore DEF Lives
<1>5. Stays(c, q)
  <2>1. q # <<"end">> /\ q # <<"close", "end">>
    BY <1>1
  <2> QED BY <1>2, <1>3, <1>4, <2>1 DEF Stays, Types, DeliveryTypeOK
<1>6. item[c] \in Items
  <2>1. plan[c] \notin Resting
    BY <1>1 DEF Resting
  <2> QED BY <1>2, <2>1, SendingItem
<1>7. Keeps /\ RingItems' = RingItems
  BY <1>2, <1>6 DEF Keeps, RingItems, Types, DeliveryTypeOK
<1>8. plan[c] # <<"send">> /\ plan[c] # <<"replay", "cast">>
  BY <1>1
<1>9. StrangersInv'
  BY <1>2, <1>3, <1>4, <1>5, <1>7, MoveKeeps
<1>10. item[c] \in untold' /\ untold \subseteq untold' /\ UNCHANGED <<members, dropped, replayed>>
  BY <1>2
<1>11. Covered'
  BY <1>2, <1>3, <1>4, <1>5, <1>7, <1>8, <1>10, MoveCovers
<1> QED
  BY <1>9, <1>11 DEF DeliveryInv

-------------------------------------------------------------------------------
(* Commands that begin: each makes an item of its own. *)

\* What is recorded when an item is made: of a PM its recipient.
Records(c, steps) ==
    \/ steps # <<"pm">> /\ UNCHANGED <<target, meant, known, private>>
    \/ \E d \in clients : /\ steps = <<"pm">>
                          /\ target' = [target EXCEPT ![c] = d]
                          /\ meant' = [meant EXCEPT ![made'] = {d}]
                          /\ known' = [known EXCEPT ![made'] = Accepted]
                          /\ private' = private \cup {made'}

\* The new item is in nobody's hands: no plan, no history variable has it.
LEMMA BeginKeeps ==
    ASSUME DeliveryInv, NEW c \in Peers, NEW steps, Begin(c, steps),
           steps \in Plans \ (Resting \cup Sending \cup {<<"close", "end">>}),
           c \in members => steps \in Inside,
           UNCHANGED <<open, fd, clients, members, ring, todo, heard, replayed, dropped, untold>>,
           Records(c, steps)
    PROVE  DeliveryInv'
<1>1. /\ StrangersInv /\ Covered /\ Types /\ Lives /\ Owns /\ Recorded /\ Snapshots
      /\ OnlyLateStrangers /\ DeliveryTypeOK
  BY DEF DeliveryInv, StrangersInv, Types
<1>2. /\ plan[c] = <<>> /\ made \in Nat /\ made' = made + 1 /\ made' \in Items
      /\ item' = [item EXCEPT ![c] = made']
      /\ author' = [author EXCEPT ![made'] = c]
      /\ plan' = [plan EXCEPT ![c] = steps]
      /\ 1..made \subseteq Items /\ made' \in 0..MaxItems
  BY <1>1, DeliveryAssumption DEF Begin, Idle, DeliveryTypeOK, Items
<1>3. /\ plan'[c] = steps /\ \A d \in Peers \ {c} : plan'[d] = plan[d]
      /\ item'[c] = made' /\ \A d \in Peers \ {c} : item'[d] = item[d]
      /\ author'[made'] = c /\ \A i \in Items \ {made'} : author'[i] = author[i]
      /\ made' \notin 1..made /\ 1..made \subseteq 1..made' /\ made' \in 1..made'
  BY <1>1, <1>2 DEF Types, DeliveryTypeOK
<1>4. \A i \in Items \ {made'} :
         /\ meant'[i] = meant[i] /\ known'[i] = known[i]
         /\ i \in private' <=> i \in private
  BY <1>1, <1>2 DEF Types, Records
<1>5. /\ \A d \in Peers \ {c} : target'[d] = target[d]
      /\ steps # <<"pm">> => UNCHANGED <<meant, known, private>>
      /\ steps = <<"pm">> => \E d \in clients : /\ target'[c] = d
                                                /\ meant'[made'] = {d}
                                                /\ known'[made'] = Accepted
                                                /\ made' \in private'
  BY <1>1, <1>2 DEF Types, Records
<1>6. steps \in Plans /\ steps \notin Resting /\ steps \notin Sending
      /\ steps # <<"accept">> /\ steps # <<"end">> /\ steps # <<"close", "end">>
  BY DEF Resting
<1>7. Types'
  <2>1. DeliveryTypeOK'
    BY <1>1, <1>2 DEF DeliveryTypeOK
  <2>2. RingItems' \subseteq 1..made' /\ ring' \in Seq(Items)
    BY <1>1, <1>3 DEF Types, RingItems
  <2>3. /\ plan' \in [Peers -> Plans] /\ author' \in [Items -> Peers \cup {Nobody}]
    BY <1>1, <1>2, <1>6 DEF Types
  <2>4. Accepted \subseteq Peers /\ clients \subseteq Peers
    BY <1>1 DEF Accepted, DeliveryTypeOK
  <2>5. /\ target' \in [Peers -> Peers \cup {Nobody}]
        /\ meant' \in [Items -> SUBSET Peers] /\ known' \in [Items -> SUBSET Peers]
        /\ private' \subseteq 1..made'
    <3>1. /\ target \in [Peers -> Peers \cup {Nobody}]
          /\ meant \in [Items -> SUBSET Peers] /\ known \in [Items -> SUBSET Peers]
          /\ private \subseteq 1..made
      BY <1>1 DEF Types
    <3>2. CASE UNCHANGED <<target, meant, known, private>>
      BY <1>3, <3>1, <3>2
    <3>3. ASSUME NEW d \in clients,
                 target' = [target EXCEPT ![c] = d],
                 meant' = [meant EXCEPT ![made'] = {d}],
                 known' = [known EXCEPT ![made'] = Accepted],
                 private' = private \cup {made'}
          PROVE  /\ target' \in [Peers -> Peers \cup {Nobody}]
                 /\ meant' \in [Items -> SUBSET Peers] /\ known' \in [Items -> SUBSET Peers]
                 /\ private' \subseteq 1..made'
      BY <1>3, <2>4, <3>1, <3>3
    <3> QED BY <3>2, <3>3 DEF Records
  <2> QED BY <2>1, <2>2, <2>3, <2>5 DEF Types
<1>8. Lives'
  BY <1>1, <1>2, <1>3, <1>6 DEF Lives
<1>9. Owns'
  <2>1. ASSUME NEW d \in Peers \ {c}, plan[d] \notin Resting
        PROVE  /\ item'[d] \in 1..made' /\ author'[item'[d]] = d
               /\ item'[d] \in private' <=> plan[d] = <<"pm">>
    <3>1. item[d] \in 1..made /\ author[item[d]] = d /\ item'[d] = item[d]
          /\ (item[d] \in private <=> plan[d] = <<"pm">>)
      BY <1>1, <1>3, <2>1 DEF Owns
    <3>2. item[d] \in Items \ {made'}
      BY <1>2, <1>3, <3>1
    <3> QED BY <1>3, <1>4, <3>1, <3>2
  <2>2. made' \in private' <=> steps = <<"pm">>
    BY <1>1, <1>3, <1>5 DEF Types
  <2>3. ASSUME NEW d \in Peers, plan'[d] \in Before \cup Casting \cup {<<"pm">>}, NEW e \in Peers
        PROVE  item'[d] \notin heard[e]
    BY <1>1, <1>3, <2>3 DEF Owns
  <2>4. \A d \in Peers : heard[d] \subseteq 1..made'
    BY <1>1, <1>3 DEF Owns
  <2> QED BY <1>3, <2>1, <2>2, <2>3, <2>4 DEF Owns
<1>10. Recorded'
  <2>1. \A d \in Peers : plan[d] # <<"accept">> => plan'[d] # <<"accept">>
    BY <1>3, <1>6
  <2>2. ASSUME NEW i \in Items, NEW d \in meant'[i] \cup known'[i] PROVE plan'[d] # <<"accept">>
    <3>1. CASE i # made' \/ steps # <<"pm">>
      BY <1>1, <1>4, <1>5, <2>1, <2>2, <3>1 DEF Recorded, Types
    <3>2. CASE i = made' /\ steps = <<"pm">>
      <4>1. d \in clients \cup Accepted
        BY <1>5, <2>2, <3>2
      <4> QED BY <1>1, <2>1, <4>1 DEF Lives, Accepted, DeliveryTypeOK
    <3> QED BY <3>1, <3>2
  <2>3. ASSUME NEW a \in Peers, plan'[a] = <<"pm">>
        PROVE  target'[a] \in Peers /\ meant'[item'[a]] = {target'[a]}
    <3>1. CASE a = c
      BY <1>1, <1>3, <1>5, <2>3, <3>1 DEF DeliveryTypeOK
    <3>2. CASE a # c
      <4>1. plan[a] = <<"pm">> /\ plan[a] \notin Resting
        BY <1>3, <2>3, <3>2 DEF Resting
      <4>2. item[a] \in Items \ {made'}
        BY <1>1, <1>2, <1>3, <4>1 DEF Owns
      <4> QED BY <1>1, <1>3, <1>4, <1>5, <3>2, <4>1, <4>2 DEF Recorded
    <3> QED BY <3>1, <3>2
  <2> QED BY <2>2, <2>3 DEF Recorded
<1>11. Snapshots'
  <2> SUFFICES ASSUME NEW a \in Peers, plan'[a] \in Sending
               PROVE  /\ todo'[a] \subseteq {fd'[d] : d \in meant'[item'[a]]}
                      /\ \A d \in meant'[item'[a]] : \A e \in known'[item'[a]] \cap open' :
                            fd'[d] = fd'[e] => d = e
    BY DEF Snapshots
  <2>1. a # c /\ plan[a] \in Sending /\ item'[a] = item[a]
    BY <1>3, <1>6
  <2>2. item[a] \in Items \ {made'}
    <3>1. item[a] \in 1..made
      BY <1>1, <2>1, DistinctPlans DEF Owns
    <3> QED BY <1>2, <1>3, <3>1
  <2> QED BY <1>1, <1>4, <2>1, <2>2 DEF Snapshots
<1>12. OnlyLateStrangers'
  <2>1. \A a \in Peers : \A i \in heard[a] : i \in Items \ {made'}
    BY <1>1, <1>2, <1>3 DEF Owns
  <2> QED BY <1>1, <1>4, <2>1 DEF OnlyLateStrangers
<1>13. Covered'
  <2> SUFFICES ASSUME NEW d \in members, d \notin dropped, plan'[d] # <<"replay", "cast">>,
                      NEW i \in RingItems, author'[i] # d,
                      i \notin replayed[d], i \notin heard[d], i \notin untold
               PROVE  OnTheWay(i, d)'
    BY DEF Covered, RingItems
  <2>1. d \in Peers /\ i \in Items \ {made'} /\ author[i] # d
    BY <1>1, <1>2, <1>3 DEF Types, DeliveryTypeOK
  <2>2. plan[d] # <<"replay", "cast">>
    BY <1>2, <1>3, <2>1, DistinctPlans
  <2>3. PICK a \in Peers : /\ author[i] = a /\ item[a] = i
                           /\ \/ plan[a] = <<"cast">>
                              \/ plan[a] = <<"send">> /\ fd[d] \in todo[a]
    BY <1>1, <2>1, <2>2 DEF Covered, OnTheWay
  <2>4. a # c
    BY <1>2, <2>3, DistinctPlans
  <2> QED BY <1>3, <2>1, <2>3, <2>4 DEF OnTheWay
<1> QED
  BY <1>7, <1>8, <1>9, <1>10, <1>11, <1>12, <1>13 DEF DeliveryInv, StrangersInv

LEMMA CommandStep ==
    ASSUME DeliveryInv, NEW c \in Peers, Command(c)
    PROVE  DeliveryInv'
<1>1. PICK s : /\ Begin(c, s)
               /\ \/ c \in members /\ s \in {MSG, LEAVE, JOIN_elsewhere, JOIN_again,
                                             disconnect_cleanup, NotifyOthers, NotifyAll}
                  \/ c \notin members /\ s \in {JOIN, disconnect_outside}
  BY DEF Command
<1>2. /\ s \in Plans /\ s \notin Resting /\ s \notin Sending
      /\ s # <<"close", "end">> /\ s # <<"pm">>
  BY <1>1 DEF Plans, Resting, Closing, Sending, Casting, Before, JOIN, MSG, LEAVE,
              disconnect_cleanup, JOIN_elsewhere, JOIN_again, disconnect_outside, NotifyOthers,
              NotifyAll
<1>3. c \in members => s \in Inside
  BY <1>1 DEF Inside, NotifyOthers, NotifyAll
<1>4. UNCHANGED <<open, fd, clients, members, ring, todo, heard, replayed, dropped, untold>>
      /\ Records(c, s)
  BY <1>2 DEF Command, Records, hist
<1> QED
  BY <1>1, <1>2, <1>3, <1>4, BeginKeeps

LEMMA PMStep ==
    ASSUME DeliveryInv, NEW c \in Peers, NEW d \in Peers, PM(c, d)
    PROVE  DeliveryInv'
<1>1. /\ <<"pm">> \in Plans /\ <<"pm">> \notin Resting /\ <<"pm">> \notin Sending
      /\ <<"pm">> # <<"close", "end">> /\ <<"pm">> \in Inside
  BY DEF Plans, Resting, Sending, Inside
<1>2. /\ UNCHANGED <<open, fd, clients, members, ring, todo, heard, replayed, dropped, untold>>
      /\ Begin(c, <<"pm">>) /\ Records(c, <<"pm">>)
  BY DEF PM, Records
<1> QED
  BY <1>1, <1>2, BeginKeeps

-------------------------------------------------------------------------------
(* Broadcasts and private messages. *)

LEMMA OtherItems ==
    ASSUME Owns, NEW a \in Peers, NEW c \in Peers, a # c,
           plan[a] \notin Resting, plan[c] \notin Resting
    PROVE  item[a] # item[c]
  BY DEF Owns

LEMMA SnapshotStep ==
    ASSUME DeliveryInv, NEW c \in Peers, Snapshot(c)
    PROVE  DeliveryInv'
<1>1. /\ StrangersInv /\ Covered /\ Types /\ Lives /\ Owns /\ Recorded /\ Snapshots
      /\ OnlyLateStrangers /\ DeliveryTypeOK
  BY DEF DeliveryInv, StrangersInv, Types
<1>2. plan[c] \in Casting /\ (plan[c] = <<"cast_all">> \/ At(c, "cast"))
  BY <1>1, CastLabels DEF Types, Snapshot, At
<1>3. PICK q \in Sending :
         /\ plan' = [plan EXCEPT ![c] = q]
         /\ plan[c] = <<"cast">> => q = <<"send">>
         /\ plan[c] = <<"cast_all">> => q = <<"send">>
         /\ plan[c] = <<"cast", "delete", "close", "end">> =>
               q = <<"send", "delete", "close", "end">>
  <2>1. plan[c] \in Plans /\ plan[c] # <<>> /\ Head(plan[c]) \in {"cast", "cast_all"}
    BY <1>1 DEF Types, Snapshot, At
  <2>2. plan' = [plan EXCEPT ![c] = <<"send">> \o Tail(plan[c])]
    BY <1>1 DEF Snapshot, Types
  <2> QED BY <1>2, <2>1, <2>2, CastLabels DEF Casting, Sending
<1>4. PICK R \in SUBSET members :
         /\ todo' = [todo EXCEPT ![c] = {fd[d] : d \in R}]
         /\ meant' = [meant EXCEPT ![item[c]] = R]
         /\ \A d \in members : d # c => d \in R
  BY DEF Snapshot, Recipients
<1>5. /\ known' = [known EXCEPT ![item[c]] = Accepted]
      /\ UNCHANGED <<open, fd, clients, members, ring, item, target, made, author, heard,
                     replayed, private, dropped, untold>>
  BY DEF Snapshot
<1>6. PICK i \in Items : i = item[c] /\ author[i] = c /\ i \in 1..made
  BY <1>1, <1>2, SendingItem, DistinctPlans
<1>7. /\ plan'[c] = q /\ \A d \in Peers \ {c} : plan'[d] = plan[d]
      /\ todo'[c] = {fd[d] : d \in R} /\ \A d \in Peers \ {c} : todo'[d] = todo[d]
      /\ meant'[i] = R /\ known'[i] = Accepted
      /\ \A j \in Items \ {i} : meant'[j] = meant[j] /\ known'[j] = known[j]
  BY <1>1, <1>3, <1>4, <1>5, <1>6 DEF Types, DeliveryTypeOK
<1>8. /\ R \subseteq Peers /\ \A d \in R : plan[d] # <<"accept">> /\ d \in open /\ fd[d] \in Fds
  BY <1>1, <1>4, MemberPlans DEF DeliveryTypeOK
<1>9. q \in Plans /\ q \notin Resting /\ q \notin Before \cup Casting \cup {<<"pm">>}
      /\ q # <<"accept">> /\ q # <<"end">> /\ q # <<"close", "end">>
      /\ q # <<"replay", "cast">>
  BY DEF Plans, Sending, Resting, Before, Casting, JOIN, MSG, LEAVE, disconnect_cleanup,
         JOIN_elsewhere, JOIN_again
<1>10. Types'
  <2>1. {fd[d] : d \in R} \in SUBSET Fds
    BY <1>8
  <2>2. todo' \in [Peers -> SUBSET Fds]
    BY <1>1, <1>4, <2>1 DEF DeliveryTypeOK
  <2>3. DeliveryTypeOK'
    BY <1>1, <1>5, <2>2 DEF DeliveryTypeOK
  <2>4. /\ plan' \in [Peers -> Plans]
        /\ meant' \in [Items -> SUBSET Peers] /\ known' \in [Items -> SUBSET Peers]
    BY <1>1, <1>3, <1>4, <1>5, <1>6, <1>8, <1>9 DEF Types, Accepted
  <2> QED BY <1>1, <1>5, <2>3, <2>4 DEF Types, RingItems
<1>11. Lives'
  <2>1. c \in open /\ c \in clients /\ fd[c] \in Fds
    BY <1>1, <1>2 DEF Lives, Casting
  <2>2. c \in members => q \in Inside
    <3>1. c \in members => plan[c] # <<"cast", "delete", "close", "end">>
      <4>1. <<"cast", "delete", "close", "end">> \notin Inside
        BY DEF Inside, MSG, LEAVE, disconnect_cleanup, JOIN_elsewhere, JOIN_again
      <4> QED BY <1>1, <4>1 DEF Lives
    <3> QED BY <1>2, <1>3, <3>1 DEF Casting, Inside
  <2> QED BY <1>1, <1>5, <1>7, <1>9, <2>1, <2>2 DEF Lives
<1>12. Owns'
  <2>1. c \in Peers /\ item[c] \in 1..made /\ author[item[c]] = c /\ item[c] \notin private
    BY <1>1, <1>2, DistinctPlans DEF Owns, Casting
  <2> QED BY <1>1, <1>5, <1>7, <1>9, <2>1 DEF Owns
<1>13. \A d \in Peers : plan[d] # <<"accept">> => plan'[d] # <<"accept">>
  BY <1>7, <1>9
<1>14. Recorded'
  <2>1. ASSUME NEW j \in Items, NEW d \in meant'[j] \cup known'[j]
        PROVE  plan'[d] # <<"accept">>
    <3>1. CASE j = i
      BY <1>7, <1>8, <1>13, <2>1, <3>1 DEF Accepted
    <3>2. CASE j # i
      BY <1>1, <1>7, <1>13, <2>1, <3>2 DEF Recorded, Types
    <3> QED BY <3>1, <3>2
  <2>2. ASSUME NEW a \in Peers, plan'[a] = <<"pm">>
        PROVE  target[a] \in Peers /\ meant'[item[a]] = {target[a]}
    <3>1. a # c /\ plan[a] = <<"pm">>
      BY <1>7, <1>9, <2>2
    <3>2. item[a] \in Items \ {i}
      BY <1>1, <1>2, <1>6, <3>1, OtherItems, SendingItem, DistinctPlans
    <3> QED BY <1>1, <1>7, <3>1, <3>2 DEF Recorded
  <2> QED BY <1>5, <2>1, <2>2 DEF Recorded
<1>15. Snapshots'
  <2> SUFFICES ASSUME NEW a \in Peers, plan'[a] \in Sending
               PROVE  /\ todo'[a] \subseteq {fd[d] : d \in meant'[item[a]]}
                      /\ \A d \in meant'[item[a]] : \A e \in known'[item[a]] \cap open :
                            fd[d] = fd[e] => d = e
    BY <1>5 DEF Snapshots
  <2>1. CASE a = c
    BY <1>1, <1>6, <1>7, <1>8, <2>1 DEF DeliveryTypeOK
  <2>2. CASE a # c
    <3>1. plan[a] \in Sending
      BY <1>7, <2>2
    <3>2. item[a] \in Items \ {i}
      BY <1>1, <1>2, <1>6, <2>2, <3>1, OtherItems, SendingItem, DistinctPlans
    <3> QED BY <1>1, <1>7, <2>2, <3>1, <3>2 DEF Snapshots
  <2> QED BY <2>1, <2>2
<1>16. OnlyLateStrangers'
  <2>1. \A a \in Peers : \A j \in heard[a] : j \in Items \ {i}
    BY <1>1, <1>2, <1>6 DEF Owns, DeliveryTypeOK
  <2> QED BY <1>1, <1>5, <1>7, <2>1 DEF OnlyLateStrangers
<1>17. Covered'
  <2> SUFFICES ASSUME NEW d \in members, d \notin dropped, plan'[d] # <<"replay", "cast">>,
                      NEW j \in RingItems, author[j] # d,
                      j \notin replayed[d], j \notin heard[d], j \notin untold
               PROVE  OnTheWay(j, d)'
    BY <1>5 DEF Covered, RingItems
  <2>1. d \in Peers /\ plan[d] # <<"replay", "cast">>
    <3>1. plan[c] # <<"replay", "cast">>
      BY <1>2 DEF Casting
    <3> QED BY <1>1, <1>7, <3>1 DEF DeliveryTypeOK
  <2>2. PICK a \in Peers : /\ author[j] = a /\ item[a] = j
                           /\ \/ plan[a] = <<"cast">>
                              \/ plan[a] = <<"send">> /\ fd[d] \in todo[a]
    BY <1>1, <2>1 DEF Covered, OnTheWay
  <2>3. CASE a # c
    BY <1>5, <1>7, <2>2, <2>3 DEF OnTheWay
  <2>4. CASE a = c
    <3>1. plan[c] = <<"cast">>
      BY <1>2, <2>2, <2>4 DEF Casting
    <3>2. plan'[c] = <<"send">> /\ fd[d] \in todo'[c]
      BY <1>3, <1>4, <1>7, <2>2, <2>4, <3>1
    <3> QED BY <1>5, <2>2, <2>4, <3>2 DEF OnTheWay
  <2> QED BY <2>3, <2>4
<1> QED
  BY <1>10, <1>11, <1>12, <1>14, <1>15, <1>16, <1>17 DEF DeliveryInv, StrangersInv


\* send reaches the one connection that has the descriptor now, if any.
LEMMA SentTo ==
    ASSUME Types, NEW f, NEW i \in Items, SendTo(f, i)
    PROVE  /\ heard' \in [Peers -> SUBSET Items]
           /\ dropped' \subseteq Peers /\ dropped \subseteq dropped'
           /\ \A d \in Peers : \/ heard'[d] = heard[d]
                               \/ heard'[d] = heard[d] \cup {i} /\ d \in open /\ fd[d] = f
           /\ \A d \in open : fd[d] = f => d \in dropped' \/ i \in heard'[d]
<1>1. /\ heard \in [Peers -> SUBSET Items] /\ dropped \subseteq Peers /\ open \subseteq Peers
      /\ \A d, e \in open : fd[d] = fd[e] => d = e
  BY DEF Types, DeliveryTypeOK
<1>2. CASE (\A d \in open : fd[d] # f) /\ UNCHANGED <<heard, dropped>>
  BY <1>1, <1>2
<1>3. ASSUME NEW d \in open, fd[d] = f, heard' = [heard EXCEPT ![d] = @ \cup {i}],
             UNCHANGED dropped
      PROVE  /\ heard' \in [Peers -> SUBSET Items]
             /\ \A e \in Peers : \/ heard'[e] = heard[e]
                                 \/ heard'[e] = heard[e] \cup {i} /\ e \in open /\ fd[e] = f
             /\ \A e \in open : fd[e] = f => i \in heard'[e]
  <2>1. d \in Peers /\ heard[d] \cup {i} \in SUBSET Items
    BY <1>1
  <2>2. heard' \in [Peers -> SUBSET Items]
    BY <1>1, <1>3, <2>1
  <2>3. heard'[d] = heard[d] \cup {i} /\ \A e \in Peers \ {d} : heard'[e] = heard[e]
    BY <1>1, <1>3, <2>1
  <2> QED BY <1>1, <1>3, <2>2, <2>3
<1>4. ASSUME NEW d \in open, fd[d] = f, dropped' = dropped \cup {d}, UNCHANGED heard
      PROVE  \A e \in open : fd[e] = f => e \in dropped'
  BY <1>1, <1>4
<1> QED
  BY <1>1, <1>2, <1>3, <1>4 DEF SendTo

\* A command that has an item is not at rest.
LEMMA BusyPlans ==
    \A p : p \in Before \cup Casting \cup {<<"pm">>} => p \notin Resting
<1>1. \A p \in Before : p \notin Resting
  BY DEF Before, Resting, JOIN, MSG, LEAVE, disconnect_cleanup, JOIN_elsewhere, JOIN_again
<1>2. \A p \in Casting : p \notin Resting
  BY DEF Casting, Resting, JOIN, MSG, LEAVE, disconnect_cleanup, JOIN_elsewhere, JOIN_again
<1>3. <<"pm">> \notin Resting
  BY DEF Resting, JOIN, MSG, LEAVE, disconnect_cleanup, JOIN_elsewhere, JOIN_again
<1> QED
  BY <1>1, <1>2, <1>3

\* An item that is sent to one more connection.
LEMMA HeardKeeps ==
    ASSUME StrangersInv, NEW c \in Peers, plan[c] \notin Resting, NEW f, SendTo(f, item[c]),
           \A d \in open : fd[d] = f =>
              \/ d \in meant[item[c]]
              \/ item[c] \notin private /\ meant[item[c]] \ open # {} /\ d \notin known[item[c]]
              \/ item[c] \in private /\ meant[item[c]] \cap clients = {},
           UNCHANGED <<open, clients, meant, known, private, made, item>>,
           \A a \in Peers : plan'[a] # plan[a] => a = c,
           plan'[c] \notin Before \cup Casting \cup {<<"pm">>}
    PROVE  /\ OnlyLateStrangers'
           /\ \A a \in Peers : plan'[a] \in Before \cup Casting \cup {<<"pm">>} =>
                 \A d \in Peers : item[a] \notin heard'[d]
           /\ \A d \in Peers : heard'[d] \subseteq 1..made
<1>1. PICK i \in Items : i = item[c] /\ i \in 1..made
  BY SendingItem
<1>2. Types
  BY DEF StrangersInv
<1>3. \A d \in Peers : \/ heard'[d] = heard[d]
                       \/ heard'[d] = heard[d] \cup {i} /\ d \in open /\ fd[d] = f
  BY <1>1, <1>2, SentTo
<1>4. OnlyLateStrangers'
  BY <1>1, <1>3 DEF StrangersInv, OnlyLateStrangers
<1>5. ASSUME NEW a \in Peers, plan'[a] \in Before \cup Casting \cup {<<"pm">>}, NEW d \in Peers
      PROVE  item[a] \notin heard'[d]
  <2>1. a # c /\ plan[a] \in Before \cup Casting \cup {<<"pm">>}
    BY <1>5
  <2>2. plan[a] \notin Resting
    BY <2>1, BusyPlans
  <2>3. item[a] # i /\ item[a] \notin heard[d]
    BY <1>1, <2>1, <2>2, OtherItems DEF StrangersInv, Owns
  <2> QED BY <1>3, <2>3
<1>6. \A d \in Peers : heard'[d] \subseteq 1..made
  BY <1>1, <1>3 DEF StrangersInv, Owns
<1> QED
  BY <1>4, <1>5, <1>6

LEMMA SendNextStep ==
    ASSUME DeliveryInv, NEW c \in Peers, SendNext(c)
    PROVE  DeliveryInv'
<1>1. /\ StrangersInv /\ Covered /\ Types /\ Lives /\ Owns /\ Recorded /\ Snapshots
      /\ OnlyLateStrangers /\ DeliveryTypeOK
  BY DEF DeliveryInv, StrangersInv, Types
<1>2. plan[c] \in Sending /\ plan[c] \notin Resting
  BY <1>1, BranchLabels, DistinctPlans DEF Types, SendNext, At, Sending
<1>3. PICK f \in todo[c] : todo' = [todo EXCEPT ![c] = @ \ {f}] /\ SendTo(f, item[c])
  BY DEF SendNext
<1>4. UNCHANGED <<open, fd, clients, members, ring, plan, item, target, made, author,
                  replayed, meant, known, private, untold>>
  BY DEF SendNext
<1>5. PICK i \in Items : i = item[c] /\ i \in 1..made /\ author[i] = c /\ i \notin private
  <2>1. item[c] \notin private
    BY <1>1, <1>2 DEF Owns, Sending
  <2> QED BY <1>1, <1>2, <2>1, SendingItem
<1>6. ASSUME NEW d \in open, fd[d] = f
      PROVE  d \in meant[i] \/ (meant[i] \ open # {} /\ d \notin known[i])
  <2>1. PICK e \in meant[i] : f = fd[e]
    BY <1>1, <1>2, <1>3, <1>5 DEF Snapshots
  <2>2. d \in known[i] => d = e
    BY <1>1, <1>2, <1>5, <1>6, <2>1 DEF Snapshots
  <2>3. e \in open => d = e
    BY <1>1, <1>6, <2>1 DEF DeliveryTypeOK
  <2> QED BY <2>1, <2>2, <2>3
<1>7. /\ heard' \in [Peers -> SUBSET Items]
      /\ dropped' \subseteq Peers /\ dropped \subseteq dropped'
      /\ \A d \in Peers : heard[d] \subseteq heard'[d]
      /\ \A d \in open : fd[d] = f => d \in dropped' \/ i \in heard'[d]
  BY <1>1, <1>3, <1>5, SentTo
<1>8. /\ OnlyLateStrangers'
      /\ \A a \in Peers : plan[a] \in Before \cup Casting \cup {<<"pm">>} =>
            \A d \in Peers : item[a] \notin heard'[d]
      /\ \A d \in Peers : heard'[d] \subseteq 1..made
  <2>1. plan'[c] \notin Before \cup Casting \cup {<<"pm">>}
    BY <1>2, <1>4 DEF Sending, Before, Casting, JOIN, MSG, LEAVE, disconnect_cleanup,
                      JOIN_elsewhere, JOIN_again
  <2> QED BY <1>1, <1>2, <1>3, <1>4, <1>5, <1>6, <2>1, HeardKeeps
<1>9. /\ todo'[c] = todo[c] \ {f} /\ \A a \in Peers \ {c} : todo'[a] = todo[a]
      /\ todo' \in [Peers -> SUBSET Fds]
  BY <1>1, <1>3 DEF DeliveryTypeOK
<1>10. Types'
  <2>1. DeliveryTypeOK'
    BY <1>1, <1>4, <1>7, <1>9 DEF DeliveryTypeOK
  <2> QED BY <1>1, <1>4, <2>1 DEF Types, RingItems
<1>11. Lives' /\ Recorded'
  BY <1>1, <1>4 DEF Lives, Recorded
<1>12. Owns'
  BY <1>1, <1>4, <1>8 DEF Owns
<1>13. Snapshots'
  BY <1>1, <1>4, <1>9 DEF Snapshots
<1>14. Covered'
  <2> SUFFICES ASSUME NEW d \in members, d \notin dropped', plan[d] # <<"replay", "cast">>,
                      NEW j \in RingItems, author[j] # d,
                      j \notin replayed[d], j \notin heard'[d], j \notin untold
               PROVE  OnTheWay(j, d)'
    BY <1>4 DEF Covered, RingItems
  <2>1. d \in Peers /\ d \in open /\ d \notin dropped /\ j \notin heard[d]
    BY <1>1, <1>7, MemberPlans DEF DeliveryTypeOK
  <2>2. PICK a \in Peers : /\ author[j] = a /\ item[a] = j
                           /\ \/ plan[a] = <<"cast">>
                              \/ plan[a] = <<"send">> /\ fd[d] \in todo[a]
    BY <1>1, <2>1 DEF Covered, OnTheWay
  <2>3. a = c => fd[d] # f
    BY <1>5, <1>7, <2>1, <2>2
  <2>4. fd[d] \in todo[a] => fd[d] \in todo'[a]
    BY <1>9, <2>3
  <2> QED BY <1>4, <2>2, <2>4 DEF OnTheWay
<1> QED
  BY <1>8, <1>10, <1>11, <1>12, <1>13, <1>14 DEF DeliveryInv, StrangersInv

LEMMA SendPMStep ==
    ASSUME DeliveryInv, NEW c \in Peers, SendPM(c)
    PROVE  DeliveryInv'
<1>1. /\ StrangersInv /\ Covered /\ Types /\ Lives /\ Owns /\ Recorded /\ Snapshots
      /\ OnlyLateStrangers /\ DeliveryTypeOK
  BY DEF DeliveryInv, StrangersInv, Types
<1>2. plan[c] = <<"pm">> /\ Tail(plan[c]) = <<>>
  BY <1>1, Labels DEF Types, SendPM, At
<1>3. /\ plan' = [plan EXCEPT ![c] = <<>>] /\ target' = [target EXCEPT ![c] = Nobody]
      /\ UNCHANGED <<open, fd, clients, members, ring, item, todo, made, author, replayed,
                     meant, known, private, untold>>
  BY <1>2 DEF SendPM, Proceed
<1>4. PICK f : /\ SendTo(f, item[c])
               /\ target[c] \in clients => f = fd[target[c]]
  BY DEF SendPM
<1>5. PICK i \in Items : i = item[c] /\ i \in 1..made /\ author[i] = c /\ i \in private
  <2>1. item[c] \in private
    BY <1>1, <1>2, DistinctPlans DEF Owns
  <2> QED BY <1>1, <1>2, <2>1, SendingItem, DistinctPlans
<1>6. ASSUME NEW d \in open, fd[d] = f
      PROVE  d \in meant[i] \/ meant[i] \cap clients = {}
  <2>1. meant[i] = {target[c]} /\ target[c] \in Peers
    BY <1>1, <1>2, <1>5 DEF Recorded
  <2>2. target[c] \in clients => target[c] \in open
    BY <1>1, <2>1 DEF Lives
  <2>3. target[c] \in clients => d = target[c]
    BY <1>1, <1>4, <1>6, <2>2 DEF DeliveryTypeOK
  <2> QED BY <2>1, <2>3
<1>7. /\ heard' \in [Peers -> SUBSET Items]
      /\ dropped' \subseteq Peers /\ dropped \subseteq dropped'
      /\ \A d \in Peers : heard[d] \subseteq heard'[d]
  BY <1>1, <1>4, <1>5, SentTo
<1>8. /\ plan'[c] = <<>> /\ \A d \in Peers \ {c} : plan'[d] = plan[d]
      /\ \A d \in Peers \ {c} : target'[d] = target[d]
  BY <1>1, <1>3 DEF Types
<1>9. /\ <<>> \in Plans /\ <<>> \in Resting /\ <<>> \in Inside /\ <<>> \notin Sending
      /\ <<>> \notin Before \cup Casting \cup {<<"pm">>}
      /\ <<>> # <<"accept">> /\ <<>> # <<"end">> /\ <<>> # <<"close", "end">>
  BY DEF Plans, Resting, Inside, Sending, Before, Casting, JOIN, MSG, LEAVE,
         disconnect_cleanup, JOIN_elsewhere, JOIN_again
<1>10. /\ OnlyLateStrangers'
       /\ \A a \in Peers : plan'[a] \in Before \cup Casting \cup {<<"pm">>} =>
             \A d \in Peers : item[a] \notin heard'[d]
       /\ \A d \in Peers : heard'[d] \subseteq 1..made
  <2>1. plan[c] \notin Resting
    BY <1>2, BusyPlans
  <2>2. \A a \in Peers : plan'[a] # plan[a] => a = c
    BY <1>8
  <2>3. plan'[c] \notin Before \cup Casting \cup {<<"pm">>}
    BY <1>8, <1>9
  <2>4. \A d \in open : fd[d] = f =>
            \/ d \in meant[item[c]]
            \/ item[c] \notin private /\ meant[item[c]] \ open # {} /\ d \notin known[item[c]]
            \/ item[c] \in private /\ meant[item[c]] \cap clients = {}
    BY <1>5, <1>6
  <2>5. UNCHANGED <<open, clients, meant, known, private, made, item>>
    BY <1>3
  <2>6. SendTo(f, item[c]) /\ StrangersInv
    BY <1>1, <1>4
  <2> QED BY <2>1, <2>2, <2>3, <2>4, <2>5, <2>6, HeardKeeps
<1>11. Types'
  <2>1. DeliveryTypeOK'
    BY <1>1, <1>3, <1>7 DEF DeliveryTypeOK
  <2>2. plan' \in [Peers -> Plans] /\ target' \in [Peers -> Peers \cup {Nobody}]
    BY <1>1, <1>3, <1>9 DEF Types
  <2> QED BY <1>1, <1>3, <2>1, <2>2 DEF Types, RingItems
<1>12. Lives'
  <2>1. c \in open /\ c \in clients /\ fd[c] \in Fds
    BY <1>1, <1>2 DEF Lives
  <2> QED BY <1>1, <1>3, <1>8, <1>9, <2>1 DEF Lives
<1>13. Owns'
  BY <1>1, <1>3, <1>8, <1>9, <1>10 DEF Owns
<1>14. Recorded'
  BY <1>1, <1>3, <1>8, <1>9 DEF Recorded, Types
<1>15. Snapshots'
  BY <1>1, <1>3, <1>8, <1>9 DEF Snapshots
<1>16. Covered'
  <2> SUFFICES ASSUME NEW d \in members, d \notin dropped', plan'[d] # <<"replay", "cast">>,
                      NEW j \in RingItems, author[j] # d,
                      j \notin replayed[d], j \notin heard'[d], j \notin untold
               PROVE  OnTheWay(j, d)'
    BY <1>3 DEF Covered, RingItems
  <2>1. /\ d \in Peers /\ d \notin dropped /\ j \notin heard[d]
        /\ plan[d] # <<"replay", "cast">>
    BY <1>1, <1>2, <1>7, <1>8, DistinctPlans DEF DeliveryTypeOK
  <2>2. PICK a \in Peers : /\ author[j] = a /\ item[a] = j
                           /\ \/ plan[a] = <<"cast">>
                              \/ plan[a] = <<"send">> /\ fd[d] \in todo[a]
    BY <1>1, <2>1 DEF Covered, OnTheWay
  <2>3. a # c
    BY <1>2, <2>2
  <2> QED BY <1>3, <1>8, <2>2, <2>3 DEF OnTheWay
<1> QED
  BY <1>10, <1>11, <1>12, <1>13, <1>14, <1>15, <1>16 DEF DeliveryInv, StrangersInv

-------------------------------------------------------------------------------
(* The invariant, and what follows from it. *)

LEMMA InitDelivery == DeliveryInit => DeliveryInv
<1> SUFFICES ASSUME DeliveryInit PROVE DeliveryInv
  OBVIOUS
<1>1. \A c \in Peers : plan[c] = <<"accept">>
  BY DEF DeliveryInit
<1>2. RingItems = {} /\ ring \in Seq(Items) /\ Len(ring) = 0
  BY DEF DeliveryInit, RingItems
<1>3. DeliveryTypeOK
  BY <1>2, DeliveryAssumption DEF DeliveryInit, DeliveryTypeOK
<1>4. Types
  <2>1. <<"accept">> \in Plans
    BY DEF Plans, Resting
  <2> QED BY <1>2, <1>3, <2>1 DEF DeliveryInit, Types
<1>5. <<"accept">> \in Resting /\ <<"accept">> # <<"pm">> /\ <<"accept">> \notin Sending
      /\ <<"accept">> \notin Before \cup Casting
  BY DEF Resting, Sending, Before, Casting, JOIN, MSG, LEAVE, disconnect_cleanup,
         JOIN_elsewhere, JOIN_again
<1>6. Lives /\ Owns /\ Recorded /\ Snapshots
  BY <1>1, <1>5 DEF DeliveryInit, Lives, Owns, Recorded, Snapshots
<1>7. OnlyLateStrangers /\ Covered
  BY <1>1, <1>2 DEF DeliveryInit, OnlyLateStrangers, Covered
<1> QED
  BY <1>4, <1>6, <1>7 DEF DeliveryInv, StrangersInv

LEMMA NextDelivery ==
    ASSUME DeliveryInv, [DeliveryNext]_deliveryVars
    PROVE  DeliveryInv'
<1>1. CASE UNCHANGED deliveryVars
  <2> USE <1>1 DEF deliveryVars
  <2>1. Types' /\ Lives'
    BY DEF DeliveryInv, StrangersInv, Types, DeliveryTypeOK, RingItems, Lives
  <2>2. Owns' /\ Recorded' /\ Snapshots' /\ OnlyLateStrangers'
    BY DEF DeliveryInv, StrangersInv, Owns, Recorded, Snapshots, OnlyLateStrangers
  <2>3. Covered'
    BY DEF DeliveryInv, Covered, RingItems, OnTheWay
  <2> QED BY <2>1, <2>2, <2>3 DEF DeliveryInv, StrangersInv
<1> QED
  BY <1>1, AcceptStep, CommandStep, PMStep, AddStep, RemoveStep, ReplayStep, AppendStep,
     DeleteStep, CloseStep, SnapshotStep, BroadcastFailsStep, SendNextStep, SendEndsStep, SendPMStep
     DEF DeliveryNext

\* The invariant of commands, broadcasts and descriptors (registry.c, room_broadcast
\* and room_send_history; client_handler.c, JOIN, MSG, PM, disconnect_cleanup).
THEOREM DeliveryInvariant == DeliverySpec => []DeliveryInv
<1>1. DeliveryInit => DeliveryInv
  BY InitDelivery
<1>2. DeliveryInv /\ [DeliveryNext]_deliveryVars => DeliveryInv'
  BY NextDelivery
<1> QED
  BY <1>1, <1>2, PTL DEF DeliverySpec

\* NothingMissed: for any number of members that join, speak, leave and are cut off,
\* no message of the ring falls between a joiner's replay and the broadcasts: JOIN
\* adds the member before it replays the ring, and MSG enters the ring before it
\* copies the descriptors, so a message is in the ring when the replay is sent or
\* its broadcast still comes.
THEOREM NoMessageMissed == DeliverySpec => []NothingMissed
<1>1. DeliveryInv => NothingMissed
  <2> SUFFICES ASSUME DeliveryInv PROVE NothingMissed
    OBVIOUS
  <2>1. DeliveryTypeOK
    BY DEF DeliveryInv, StrangersInv, Types
  <2>2. NoGap
    <3> SUFFICES ASSUME \A c \in Accepted : plan[c] \in {<<>>, <<"end">>},
                        NEW c \in members \ dropped, NEW i \in DOMAIN ring,
                        author[ring[i]] # c
                 PROVE  ring[i] \in heard[c] \cup replayed[c] \cup untold
      BY DEF NoGap
    <3>1. \A a \in Peers : plan[a] \in Resting
      BY DEF Accepted, Resting
    <3>2. \A a \in Peers : /\ plan[a] # <<"cast">> /\ plan[a] # <<"send">>
                           /\ plan[a] # <<"replay", "cast">>
      BY <3>1 DEF Resting
    <3>3. c \in Peers /\ ring[i] \in RingItems
      BY <2>1 DEF DeliveryTypeOK, RingItems
    <3>4. ~OnTheWay(ring[i], c)
      BY <3>2 DEF OnTheWay
    <3> QED BY <3>2, <3>3, <3>4 DEF DeliveryInv, Covered
  <2> QED BY <2>1, <2>2 DEF NothingMissed
<1> QED
  BY <1>1, DeliveryInvariant, PTL

\* OnlyLateStrangers: whatever closes and is accepted while a broadcast works off its
\* copy of the descriptors, an item reaches those it is meant for, or a connection
\* accepted since the copy was made, after a recipient closed; a PM reaches
\* somebody else only if its target was freed since it was found.
THEOREM StrangersAreLate == DeliverySpec => []OnlyLateStrangers
<1>1. DeliveryInv => OnlyLateStrangers
  BY DEF DeliveryInv, StrangersInv
<1> QED
  BY <1>1, DeliveryInvariant, PTL

(****************************** Lists in pages *****************************)

\* The types of the list.
ListTypes ==
    /\ array \in Seq(Entries) /\ listed \in Seq(Entries) /\ offset = Len(listed)
    /\ stayed \subseteq Entries /\ changes \in 0..MaxChanges

\* What is still to be shown was not shown, unless an entry was put back.
Unshown ==
    returned \/ /\ IsInjective(listed)
                /\ \A k \in DOMAIN array : k > offset => array[k] \notin ToSet(listed)

\* What stayed is in the array, and what of it is before the offset was shown or
\* has moved there.
Beginning ==
    /\ reading = "start" => listed = <<>>
    /\ reading = "list" =>
          /\ stayed \subseteq ToSet(array)
          /\ \A k \in DOMAIN array : k <= offset /\ array[k] \in stayed =>
                array[k] \in ToSet(listed) \cup skipped
    /\ reading = "listed" => stayed \subseteq ToSet(listed) \cup skipped

ListInv == ListTypes /\ IsInjective(array) /\ Unshown /\ Beginning

-------------------------------------------------------------------------------
LEMMA MinOfTwo ==
    ASSUME NEW a \in Int, NEW b \in Int
    PROVE  Min({a, b}) = IF a <= b THEN a ELSE b
  BY DEF Min

LEMMA MaxOfTwo ==
    ASSUME NEW a \in Int, NEW b \in Int
    PROVE  Max({a, b}) = IF a >= b THEN a ELSE b
  BY DEF Max

\* A page has the entries that follow the offset, and is empty only past the end.
LEMMA PageShown ==
    ASSUME array \in Seq(Entries), NEW o \in Nat, NEW n \in Int, n > 0,
           NEW page \in Shortened(ListPage(o, n))
    PROVE  /\ page \in Seq(Entries)
           /\ Len(page) > 0 => o + Len(page) <= Len(array)
           /\ \A k \in 1..Len(page) : page[k] = array[o + k]
           /\ page = <<>> <=> o >= Len(array)
           /\ page = <<>> <=> Len(page) = 0
<1> DEFINE from == Min({o, Len(array)})
           most == Min({Max({n, 0}), MaxList})
           to == Min({from + most, Len(array)})
<1>1. Len(array) \in Nat
  OBVIOUS
<1>2. from = IF o <= Len(array) THEN o ELSE Len(array)
  BY <1>1, MinOfTwo
<1>3. most \in Nat \ {0}
  BY MinOfTwo, MaxOfTwo, PagingAssumption
<1>4. to \in from..Len(array) /\ (from < Len(array) => to > from)
  <2> HIDE DEF from, most
  <2> QED BY <1>1, <1>2, <1>3, MinOfTwo
<1> DEFINE whole == SubSeq(array, from + 1, to)
<1>5. ListPage(o, n) = whole
  BY DEF ListPage
<1> HIDE DEF from, most, to
<1>6. /\ whole \in Seq(Entries) /\ Len(whole) = to - from
      /\ \A k \in 1..(to - from) : whole[k] = array[from + k]
  <2>1. /\ from \in Nat /\ to \in Nat /\ from + 1 \in 1..(Len(array) + 1)
        /\ to \in (from + 1) - 1 .. Len(array)
    BY <1>1, <1>2, <1>4
  <2>2. /\ whole \in Seq(Entries)
        /\ Len(whole) = IF from + 1 <= to THEN to - (from + 1) + 1 ELSE 0
        /\ \A k \in 1..(to - (from + 1) + 1) : whole[k] = array[(from + 1) + k - 1]
    BY <2>1, SubSeqProperties
  <2>3. to - (from + 1) + 1 = to - from
        /\ \A k \in 1..(to - from) : (from + 1) + k - 1 = from + k
    BY <2>1
  <2>4. Len(whole) = to - from
    BY <1>4, <2>1, <2>2
  <2>5. \A k \in 1..(to - from) : whole[k] = array[from + k]
    BY <2>2, <2>3
  <2> QED BY <2>2, <2>4, <2>5
<1> HIDE DEF whole
<1>7. PICK m \in Min({1, Len(whole)})..Len(whole) : page = SubSeq(whole, 1, m)
  BY <1>5 DEF Shortened
<1>8. m \in 0..Len(whole) /\ (Len(whole) > 0 => m > 0)
  <2>1. Len(whole) \in Nat
    BY <1>6
  <2>2. Min({1, Len(whole)}) = IF 1 <= Len(whole) THEN 1 ELSE Len(whole)
    BY <2>1, MinOfTwo
  <2> QED BY <1>7, <2>1, <2>2
<1>9. /\ page \in Seq(Entries) /\ Len(page) = m
      /\ \A k \in 1..m : page[k] = whole[k]
  BY <1>6, <1>7, <1>8
<1>10. page = <<>> <=> Len(page) = 0
  BY <1>9, EmptySeq
<1>11. \A k \in 1..m : page[k] = array[from + k]
  <2>1. \A k \in 1..m : k \in 1..(to - from)
    BY <1>2, <1>4, <1>6, <1>8
  <2> QED BY <1>6, <1>9, <2>1
<1>12. m > 0 => from = o /\ o + m <= Len(array)
  BY <1>1, <1>2, <1>4, <1>6, <1>8
<1>13. m = 0 <=> o >= Len(array)
  BY <1>1, <1>2, <1>4, <1>6, <1>8
<1> QED
  BY <1>9, <1>10, <1>11, <1>12, <1>13

\* Removal closes the gap.
LEMMA Removed ==
    ASSUME NEW S, NEW s \in Seq(S), NEW i \in 1..Len(s)
    PROVE  /\ RemoveAt(s, i) \in Seq(S) /\ Len(RemoveAt(s, i)) = Len(s) - 1
           /\ \A k \in 1..(Len(s) - 1) :
                 RemoveAt(s, i)[k] = IF k < i THEN s[k] ELSE s[k + 1]
<1> DEFINE a == SubSeq(s, 1, i - 1)
           b == SubSeq(s, i + 1, Len(s))
<1>1. /\ a \in Seq(S) /\ Len(a) = i - 1
      /\ \A k \in 1..(i - 1) : a[k] = s[k]
  OBVIOUS
<1>2. /\ b \in Seq(S) /\ Len(b) = Len(s) - i
      /\ \A k \in 1..(Len(s) - i) : b[k] = s[i + k]
  OBVIOUS
<1>3. RemoveAt(s, i) = a \o b
  BY DEF RemoveAt
<1> HIDE DEF a, b
<1>4. /\ a \o b \in Seq(S) /\ Len(a \o b) = Len(a) + Len(b)
      /\ \A k \in 1..(Len(a) + Len(b)) : (a \o b)[k] = IF k <= Len(a) THEN a[k] ELSE b[k - Len(a)]
  BY <1>1, <1>2, ConcatProperties
<1> QED
  BY <1>1, <1>2, <1>3, <1>4

-------------------------------------------------------------------------------
LEMMA ListInitInv == PagingInit => ListInv
<1> SUFFICES ASSUME PagingInit PROVE ListInv
  OBVIOUS
<1>1. <<>> \in Seq(Entries) /\ Len(<<>>) = 0 /\ DOMAIN <<>> = {}
  BY EmptySeq
<1>2. ListTypes
  BY <1>1, PagingAssumption DEF PagingInit, ListTypes
<1>3. IsInjective(array) /\ Unshown
  BY <1>1 DEF PagingInit, IsInjective, Unshown
<1>4. Beginning
  BY DEF PagingInit, Beginning
<1> QED
  BY <1>2, <1>3, <1>4 DEF ListInv

\* HISTORY leaves the list alone.
LEMMA HistoryStep ==
    ASSUME ListInv,
           \/ \E here \in BOOLEAN : SaveMessage(here)
           \/ \E n \in Limits : HISTORY(n)
           \/ HistoryFails
    PROVE  ListInv'
<1>1. UNCHANGED <<array, offset, listed, stayed, skipped, returned, changes>>
  BY DEF SaveMessage, HISTORY, HistoryFails, listVars
<1>2. reading' = reading \/ reading' \in {"history", "shown", "end"}
  BY DEF SaveMessage, HISTORY, HistoryFails
<1>3. ListTypes' /\ IsInjective(array)' /\ Unshown'
  BY <1>1 DEF ListInv, ListTypes, Unshown, IsInjective
<1>4. Beginning'
  BY <1>1, <1>2 DEF ListInv, Beginning
<1> QED
  BY <1>3, <1>4 DEF ListInv

\* An entry is added at the end.
LEMMA AddEntryStep ==
    ASSUME ListInv, NEW e \in Entries, AddEntry(e)
    PROVE  ListInv'
<1>1. /\ array \in Seq(Entries) /\ listed \in Seq(Entries) /\ offset = Len(listed)
      /\ stayed \subseteq Entries /\ IsInjective(array)
  BY DEF ListInv, ListTypes
<1>2. /\ array' = Append(array, e) /\ UNCHANGED <<offset, listed, stayed, skipped, reading>>
      /\ returned' = (returned \/ Contains(listed, e)) /\ ~Contains(array, e)
  BY DEF AddEntry, historyVars
<1>3. /\ array' \in Seq(Entries) /\ Len(array') = Len(array) + 1 /\ Len(array) \in Nat
      /\ array'[Len(array) + 1] = e
      /\ \A k \in 1..Len(array) : array'[k] = array[k] /\ array[k] # e
  BY <1>1, <1>2 DEF Contains
<1>4. /\ DOMAIN array = 1..Len(array) /\ DOMAIN array' = 1..(Len(array) + 1)
      /\ DOMAIN listed = 1..Len(listed)
  BY <1>1, <1>3
<1>5. IsInjective(array)'
  BY <1>1, <1>3, <1>4 DEF IsInjective
<1>6. Unshown'
  <2>1. Contains(listed, e) <=> e \in ToSet(listed)
    BY <1>4 DEF Contains, ToSet
  <2>2. CASE returned
    BY <1>2, <2>2 DEF Unshown
  <2>3. CASE Contains(listed, e)
    BY <1>2, <2>3 DEF Unshown
  <2>4. CASE ~returned /\ ~Contains(listed, e)
    <3>1. /\ IsInjective(listed)
          /\ \A k \in 1..Len(array) : k > offset => array[k] \notin ToSet(listed)
      BY <1>4, <2>4 DEF ListInv, Unshown
    <3>2. \A k \in 1..(Len(array) + 1) : k > offset => array'[k] \notin ToSet(listed)
      BY <1>1, <1>3, <2>1, <2>4, <3>1
    <3> QED BY <1>2, <1>4, <3>1, <3>2 DEF Unshown
  <2> QED BY <2>2, <2>3, <2>4
<1>7. ToSet(array) \subseteq ToSet(array)'
  BY <1>3, <1>4 DEF ToSet
<1>8. Beginning'
  <2>1. CASE reading = "list"
    <3>1. stayed \subseteq ToSet(array) /\ e \notin ToSet(array)
      BY <1>3, <1>4, <2>1 DEF ListInv, Beginning, ToSet
    <3>2. \A k \in 1..Len(array) : k <= offset /\ array[k] \in stayed =>
             array[k] \in ToSet(listed) \cup skipped
      BY <1>4, <2>1 DEF ListInv, Beginning
    <3>3. \A k \in 1..(Len(array) + 1) : k \in 1..Len(array) \/ k = Len(array) + 1
      BY <1>3
    <3>4. \A k \in 1..(Len(array) + 1) : k <= offset /\ array'[k] \in stayed =>
             array'[k] \in ToSet(listed) \cup skipped
      BY <1>3, <3>1, <3>2, <3>3
    <3> QED BY <1>2, <1>4, <1>7, <2>1, <3>1, <3>4 DEF Beginning
  <2>2. CASE reading # "list"
    BY <1>2, <2>2 DEF ListInv, Beginning
  <2> QED BY <2>1, <2>2
<1>9. ListTypes'
  <2>1. changes' \in 0..MaxChanges
    BY PagingAssumption DEF AddEntry, ListInv, ListTypes
  <2> QED BY <1>1, <1>2, <1>3, <2>1 DEF ListTypes
<1> QED
  BY <1>5, <1>6, <1>8, <1>9 DEF ListInv

\* An entry is removed, and the later ones move up.
LEMMA RemoveEntryStep ==
    ASSUME ListInv, NEW i \in DOMAIN array, RemoveEntry(i)
    PROVE  ListInv'
<1>1. /\ array \in Seq(Entries) /\ listed \in Seq(Entries) /\ offset = Len(listed)
      /\ stayed \subseteq Entries /\ IsInjective(array)
  BY DEF ListInv, ListTypes
<1>2. /\ array' = RemoveAt(array, i) /\ stayed' = stayed \ {array[i]}
      /\ skipped' = IF i <= offset /\ offset < Len(array)
                    THEN skipped \cup {array[offset + 1]} ELSE skipped
      /\ UNCHANGED <<offset, listed, returned, reading>>
  BY DEF RemoveEntry, historyVars
<1>3. /\ i \in 1..Len(array) /\ Len(array) \in Nat /\ DOMAIN array = 1..Len(array)
  BY <1>1
<1>4. /\ array' \in Seq(Entries) /\ Len(array') = Len(array) - 1
      /\ \A k \in 1..(Len(array) - 1) : array'[k] = IF k < i THEN array[k] ELSE array[k + 1]
  BY <1>1, <1>2, <1>3, Removed
<1>5. DOMAIN array' = 1..(Len(array) - 1)
  BY <1>3, <1>4
<1> DEFINE old(p) == IF p < i THEN p ELSE p + 1
<1>6. /\ \A k \in 1..(Len(array) - 1) : /\ old(k) \in 1..Len(array) /\ old(k) >= k
                                         /\ array'[k] = array[old(k)]
      /\ \A j, k \in 1..(Len(array) - 1) : old(j) = old(k) => j = k
  BY <1>3, <1>4
<1> HIDE DEF old
<1>7. IsInjective(array)'
  <2>1. \A j, k \in 1..Len(array) : array[j] = array[k] => j = k
    BY <1>1, <1>3 DEF IsInjective
  <2>2. \A j, k \in 1..(Len(array) - 1) : array'[j] = array'[k] => j = k
    BY <1>6, <2>1
  <2> QED BY <1>5, <2>2 DEF IsInjective
<1>8. Unshown'
  <2>1. CASE returned
    BY <1>2, <2>1 DEF Unshown
  <2>2. CASE ~returned
    <3>1. /\ IsInjective(listed)
          /\ \A k \in 1..Len(array) : k > offset => array[k] \notin ToSet(listed)
      BY <1>3, <2>2 DEF ListInv, Unshown
    <3>2. \A k \in 1..(Len(array) - 1) : k > offset => array'[k] \notin ToSet(listed)
      <4>1. \A k \in 1..(Len(array) - 1) : k > offset => old(k) > offset
        BY <1>1, <1>3, <1>6
      <4> QED BY <1>6, <3>1, <4>1
    <3> QED BY <1>2, <1>5, <3>1, <3>2 DEF Unshown
  <2> QED BY <2>1, <2>2
<1>9. ToSet(array) \ {array[i]} \subseteq ToSet(array)'
  <2> SUFFICES ASSUME NEW k \in 1..Len(array), k # i
               PROVE  \E m \in 1..(Len(array) - 1) : array'[m] = array[k]
    BY <1>3, <1>5 DEF ToSet
  <2>1. CASE k < i
    BY <1>3, <1>4, <2>1
  <2>2. CASE k > i
    <3>1. k - 1 \in 1..(Len(array) - 1) /\ ~(k - 1 < i) /\ (k - 1) + 1 = k
      BY <1>3, <2>2
    <3> QED BY <1>4, <3>1
  <2> QED BY <1>3, <2>1, <2>2
<1>10. Beginning'
  <2>1. skipped \subseteq skipped'
    BY <1>2
  <2>2. CASE reading = "list"
    <3>1. /\ stayed \subseteq ToSet(array)
          /\ \A k \in 1..Len(array) : k <= offset /\ array[k] \in stayed =>
                array[k] \in ToSet(listed) \cup skipped
      BY <1>3, <2>2 DEF ListInv, Beginning
    <3>2. ASSUME NEW k \in 1..(Len(array) - 1), k <= offset, array'[k] \in stayed
          PROVE  array'[k] \in ToSet(listed) \cup skipped'
      <4>1. CASE k < i
        BY <1>3, <1>4, <2>1, <3>1, <3>2, <4>1
      <4>2. CASE ~(k < i) /\ k < offset
        <5>1. k + 1 \in 1..Len(array) /\ k + 1 <= offset /\ array'[k] = array[k + 1]
          BY <1>1, <1>3, <1>4, <4>2
        <5> QED BY <2>1, <3>1, <3>2, <5>1
      <4>3. CASE ~(k < i) /\ k = offset
        <5>1. i <= offset /\ offset < Len(array) /\ array'[k] = array[offset + 1]
          BY <1>1, <1>3, <1>4, <4>3
        <5> QED BY <1>2, <5>1
      <4> QED BY <1>1, <3>2, <4>1, <4>2, <4>3
    <3>3. stayed' \subseteq stayed /\ stayed' \subseteq ToSet(array)'
      BY <1>2, <1>9, <3>1
    <3> QED BY <1>2, <1>5, <2>2, <3>2, <3>3 DEF Beginning
  <2>3. CASE reading # "list"
    BY <1>2, <2>1, <2>3 DEF ListInv, Beginning
  <2> QED BY <2>2, <2>3
<1>11. ListTypes'
  <2>1. changes' \in 0..MaxChanges
    BY PagingAssumption DEF RemoveEntry, ListInv, ListTypes
  <2> QED BY <1>1, <1>2, <1>4, <2>1 DEF ListTypes
<1> QED
  BY <1>7, <1>8, <1>10, <1>11 DEF ListInv

\* A page is shown.
LEMMA ListPageStep ==
    ASSUME ListInv, NEW n \in Limits, LISTPAGE(n)
    PROVE  ListInv'
<1>1. /\ array \in Seq(Entries) /\ listed \in Seq(Entries) /\ offset = Len(listed)
      /\ stayed \subseteq Entries /\ IsInjective(array)
  BY DEF ListInv, ListTypes
<1>2. PICK page \in Shortened(ListPage(offset, n)) :
         /\ reading \in {"start", "list"} /\ n > 0
         /\ listed' = listed \o page
         /\ offset' = offset + Len(page)
         /\ stayed' = IF reading = "start" THEN ToSet(array) ELSE stayed
         /\ reading' = IF page = <<>> THEN "listed" ELSE "list"
         /\ UNCHANGED <<array, skipped, returned, changes>>
  BY DEF LISTPAGE
<1>3. offset \in Nat /\ n \in Int /\ Len(array) \in Nat
  BY <1>1, PagingAssumption
<1>4. /\ page \in Seq(Entries) /\ Len(page) \in Nat
      /\ Len(page) > 0 => offset + Len(page) <= Len(array)
      /\ \A k \in 1..Len(page) : page[k] = array[offset + k]
      /\ page = <<>> <=> offset >= Len(array)
      /\ page = <<>> <=> Len(page) = 0
  BY <1>1, <1>2, <1>3, PageShown
<1>5. /\ listed' \in Seq(Entries) /\ Len(listed') = offset + Len(page)
      /\ \A k \in 1..offset : listed'[k] = listed[k]
      /\ \A k \in (offset + 1)..(offset + Len(page)) : listed'[k] = array[k]
  <2>1. /\ listed' \in Seq(Entries) /\ Len(listed') = offset + Len(page)
        /\ \A k \in 1..(offset + Len(page)) :
              listed'[k] = IF k <= offset THEN listed[k] ELSE page[k - offset]
    BY <1>1, <1>2, <1>4
  <2>2. \A k \in 1..offset : k \in 1..(offset + Len(page)) /\ k <= offset
    BY <1>3, <1>4
  <2>3. \A k \in (offset + 1)..(offset + Len(page)) :
            /\ k \in 1..(offset + Len(page)) /\ ~(k <= offset)
            /\ k - offset \in 1..Len(page) /\ offset + (k - offset) = k
    BY <1>3, <1>4
  <2>4. \A k \in 1..offset : listed'[k] = listed[k]
    BY <2>1, <2>2
  <2>5. \A k \in (offset + 1)..(offset + Len(page)) : listed'[k] = array[k]
    BY <1>4, <2>1, <2>3
  <2> QED BY <2>1, <2>4, <2>5
<1>6. /\ DOMAIN array = 1..Len(array) /\ DOMAIN listed = 1..offset
      /\ DOMAIN listed' = 1..(offset + Len(page))
  BY <1>1, <1>5
<1>7. ListTypes'
  <2>1. ToSet(array) \subseteq Entries
    BY <1>1 DEF ToSet
  <2> QED BY <1>1, <1>2, <1>5, <2>1 DEF ListInv, ListTypes
<1>8. Unshown'
  <2>1. CASE returned
    BY <1>2, <2>1 DEF Unshown
  <2>2. CASE ~returned
    <3>1. /\ \A j, k \in 1..offset : listed[j] = listed[k] => j = k
          /\ \A k \in 1..Len(array) : k > offset => \A j \in 1..offset : array[k] # listed[j]
      BY <1>6, <2>2 DEF ListInv, Unshown, IsInjective, ToSet
    <3>2. \A j, k \in 1..Len(array) : array[j] = array[k] => j = k
      BY <1>1, <1>6 DEF IsInjective
    <3>3. \A j, k \in 1..(offset + Len(page)) : listed'[j] = listed'[k] => j = k
      BY <1>3, <1>4, <1>5, <3>1, <3>2
    <3>4. \A k \in 1..Len(array) : k > offset + Len(page) =>
              \A j \in 1..(offset + Len(page)) : array[k] # listed'[j]
      BY <1>3, <1>4, <1>5, <3>1, <3>2
    <3> QED BY <1>2, <1>6, <3>3, <3>4 DEF Unshown, IsInjective, ToSet
  <2> QED BY <2>1, <2>2
<1>9. Beginning'
  <2>1. stayed' \subseteq ToSet(array)
    BY <1>2 DEF ListInv, Beginning
  <2>2. \A k \in 1..Len(array) : k <= offset /\ array[k] \in stayed' =>
           array[k] \in ToSet(listed) \cup skipped
    <3>1. CASE reading = "start"
      <4>1. offset = 0
        BY <1>1, <3>1 DEF ListInv, Beginning
      <4> QED BY <1>3, <4>1
    <3>2. CASE reading = "list"
      BY <1>2, <1>6, <3>2 DEF ListInv, Beginning
    <3> QED BY <1>2, <3>1, <3>2
  <2>3. \A k \in 1..Len(array) : k <= offset + Len(page) /\ array[k] \in stayed' =>
           array[k] \in ToSet(listed)' \cup skipped
    <3> SUFFICES ASSUME NEW k \in 1..Len(array), k <= offset + Len(page),
                        array[k] \in stayed', array[k] \notin skipped
                 PROVE  \E m \in 1..(offset + Len(page)) : listed'[m] = array[k]
      BY <1>6 DEF ToSet
    <3>1. CASE k <= offset
      <4>1. PICK m \in 1..offset : listed[m] = array[k]
        BY <1>6, <2>2, <3>1 DEF ToSet
      <4> QED BY <1>3, <1>4, <1>5, <4>1
    <3>2. CASE k > offset
      BY <1>3, <1>4, <1>5, <3>2
    <3> QED BY <1>3, <3>1, <3>2
  <2>4. CASE page # <<>>
    <3>1. reading' = "list" /\ offset' = offset + Len(page)
      BY <1>2, <2>4
    <3> QED BY <1>2, <1>6, <2>1, <2>3, <3>1 DEF Beginning
  <2>5. CASE page = <<>>
    <3>1. \A k \in 1..Len(array) : k <= offset + Len(page)
      BY <1>3, <1>4, <2>5
    <3>2. stayed' \subseteq ToSet(listed)' \cup skipped
      <4> SUFFICES ASSUME NEW x \in stayed' PROVE x \in ToSet(listed)' \cup skipped
        OBVIOUS
      <4>1. PICK k \in 1..Len(array) : array[k] = x
        BY <1>6, <2>1 DEF ToSet
      <4> QED BY <2>3, <3>1, <4>1
    <3> QED BY <1>2, <2>5, <3>2 DEF Beginning
  <2> QED BY <2>4, <2>5
<1> QED
  BY <1>1, <1>2, <1>7, <1>8, <1>9 DEF ListInv

LEMMA ListNextInv == ListInv /\ [PagingNext]_pagingVars => ListInv'
<1> SUFFICES ASSUME ListInv, [PagingNext]_pagingVars PROVE ListInv'
  OBVIOUS
<1>1. CASE UNCHANGED pagingVars
  BY <1>1 DEF pagingVars, listVars, ListInv, ListTypes, Unshown, Beginning, IsInjective
<1> QED
  BY <1>1, HistoryStep, AddEntryStep, RemoveEntryStep, ListPageStep DEF PagingNext

\* ListComplete (client_handler.c, ROOMS and WHO), for any entries, limits, sizes of
\* the page and changes between pages: nothing is shown twice unless it went and
\* came back, and what was there from the first page to the last is shown, but for
\* one entry for every removal before the offset.
THEOREM ListsComplete == PagingSpec => []ListComplete
<1>1. ListInv => ListComplete
  BY DEF ListInv, Unshown, Beginning, ListComplete
<1> QED
  BY <1>1, ListInitInv, ListNextInv, PTL DEF PagingSpec

-------------------------------------------------------------------------------
(* HISTORY. *)

Sorted(s) == \A i, j \in DOMAIN s : i < j => s[i] < s[j]

\* While a client reads, everything there was at its first page is shown or below
\* the cursor, and what is below the cursor was there.
CursorInv ==
    /\ rows \subseteq 1..lastId /\ lastId \in 0..MaxId /\ cursor \in 0..MaxId
    /\ shown \in Seq(Int) /\ ToSet(shown) \subseteq rows /\ Sorted(shown)
    /\ reading \in {"start", "history", "list", "end", "shown", "listed"}
    /\ reading = "start" => shown = <<>> /\ cursor = 0
    /\ reading = "shown" => before = ToSet(shown)
    /\ reading = "history" =>
          /\ shown # <<>> /\ cursor = shown[1]
          /\ ToSet(shown) \subseteq before /\ before \subseteq rows
          /\ \A id \in rows : id < cursor => id \in before
          /\ \A id \in before : id < cursor \/ id \in ToSet(shown)

\* A page has the highest ids below the cursor, in order, and is empty only when
\* there are none.
LEMMA PageLoaded ==
    ASSUME rows \subseteq 1..lastId, lastId \in Nat, NEW b, NEW n \in Int,
           NEW page \in db_load_history_before(b, Limit(n))
    PROVE  /\ page \in Seq(Int) /\ Sorted(page) /\ ToSet(page) \subseteq Below(b)
           /\ page # <<>> => /\ Len(page) > 0 /\ page[1] \in Below(b)
                             /\ \A id \in Below(b) : id < page[1] \/ id \in ToSet(page)
           /\ page = <<>> => Below(b) = {}
<1>1. Below(b) \subseteq rows /\ Below(b) \subseteq Int
  <2>1. \A id \in 1..lastId : id \in Int
    OBVIOUS
  <2> QED BY <2>1 DEF Below
<1>2. IsFiniteSet(Below(b))
  <2>1. IsFiniteSet(1..lastId)
    BY FS_Interval
  <2> QED BY <1>1, <2>1, FS_Subset
<1> DEFINE all == Cardinality(Below(b))
           k == Min({Limit(n), all})
<1>3. all \in Nat /\ (all = 0 => Below(b) = {})
  BY <1>2, FS_CardinalityType, FS_EmptySet
<1>4. Limit(n) \in Nat \ {0}
  BY PagingAssumption DEF Limit
<1>5. k \in Nat /\ (k = 0 => all = 0)
  <2> HIDE DEF all
  <2> QED BY <1>3, <1>4, MinOfTwo
<1>6. /\ page \in [1..k -> Below(b)] /\ Sorted(page)
      /\ \A id \in Below(b) \ ToSet(page) : \A i \in DOMAIN page : id < page[i]
  BY DEF db_load_history_before, Sorted
<1> HIDE DEF all, k
<1>7. page \in Seq(Int) /\ Len(page) = k /\ DOMAIN page = 1..k
  BY <1>1, <1>5, <1>6
<1>8. page = <<>> <=> k = 0
  BY <1>7, EmptySeq
<1>9. ToSet(page) \subseteq Below(b)
  BY <1>6, <1>7 DEF ToSet
<1>10. page # <<>> => /\ Len(page) > 0 /\ page[1] \in Below(b)
                      /\ \A id \in Below(b) : id < page[1] \/ id \in ToSet(page)
  <2> SUFFICES ASSUME page # <<>>
               PROVE  /\ Len(page) > 0 /\ page[1] \in Below(b)
                      /\ \A id \in Below(b) : id < page[1] \/ id \in ToSet(page)
    OBVIOUS
  <2>1. 1 \in 1..k /\ k > 0
    BY <1>5, <1>8
  <2> QED BY <1>6, <1>7, <2>1
<1> QED
  BY <1>3, <1>5, <1>6, <1>7, <1>8, <1>9, <1>10

\* A page in front of what was shown.
LEMMA InFront ==
    ASSUME NEW p \in Seq(Int), NEW s \in Seq(Int), Sorted(p), Sorted(s),
           \A x \in ToSet(p), y \in ToSet(s) : x < y
    PROVE  /\ p \o s \in Seq(Int) /\ Sorted(p \o s) /\ ToSet(p \o s) = ToSet(p) \cup ToSet(s)
           /\ Len(p) > 0 => p \o s # <<>> /\ (p \o s)[1] = p[1]
<1> DEFINE c == p \o s
<1>1. /\ c \in Seq(Int) /\ Len(c) = Len(p) + Len(s) /\ Len(p) \in Nat /\ Len(s) \in Nat
      /\ \A i \in 1..(Len(p) + Len(s)) : c[i] = IF i <= Len(p) THEN p[i] ELSE s[i - Len(p)]
  BY ConcatProperties
<1>2. DOMAIN c = 1..(Len(p) + Len(s)) /\ DOMAIN p = 1..Len(p) /\ DOMAIN s = 1..Len(s)
  BY <1>1
<1> HIDE DEF c
<1>3. /\ \A i \in 1..Len(p) : i \in DOMAIN c /\ c[i] = p[i]
      /\ \A i \in 1..Len(s) : i + Len(p) \in DOMAIN c /\ c[i + Len(p)] = s[i]
  <2>1. \A i \in 1..Len(p) : i \in 1..(Len(p) + Len(s)) /\ i <= Len(p)
    BY <1>1
  <2>2. \A i \in 1..Len(s) : /\ i + Len(p) \in 1..(Len(p) + Len(s))
                             /\ ~(i + Len(p) <= Len(p)) /\ (i + Len(p)) - Len(p) = i
    BY <1>1
  <2>3. \A i \in 1..Len(p) : i \in DOMAIN c /\ c[i] = p[i]
    BY <1>1, <1>2, <2>1
  <2>4. \A i \in 1..Len(s) : i + Len(p) \in DOMAIN c /\ c[i + Len(p)] = s[i]
    BY <1>1, <1>2, <2>2
  <2> QED BY <2>3, <2>4
<1>4. \A i \in DOMAIN c : \/ i \in 1..Len(p)
                          \/ i - Len(p) \in 1..Len(s) /\ c[i] = s[i - Len(p)] /\ i > Len(p)
  BY <1>1, <1>2
<1>5. ToSet(c) = ToSet(p) \cup ToSet(s)
  <2>1. ToSet(c) \subseteq ToSet(p) \cup ToSet(s)
    BY <1>2, <1>3, <1>4 DEF ToSet
  <2>2. ToSet(p) \subseteq ToSet(c)
    BY <1>2, <1>3 DEF ToSet
  <2>3. ToSet(s) \subseteq ToSet(c)
    BY <1>2, <1>3 DEF ToSet
  <2> QED BY <2>1, <2>2, <2>3
<1>6. Sorted(c)
  <2> SUFFICES ASSUME NEW i \in DOMAIN c, NEW j \in DOMAIN c, i < j
               PROVE  c[i] < c[j]
    BY DEF Sorted
  <2>1. CASE j \in 1..Len(p)
    <3>1. i \in 1..Len(p)
      BY <1>1, <1>2, <2>1
    <3> QED BY <1>2, <1>3, <2>1, <3>1 DEF Sorted
  <2>2. CASE i \in 1..Len(p) /\ j \notin 1..Len(p)
    <3>1. c[i] \in ToSet(p) /\ c[j] \in ToSet(s)
      BY <1>2, <1>3, <1>4, <2>2 DEF ToSet
    <3> QED BY <3>1
  <2>3. CASE i \notin 1..Len(p) /\ j \notin 1..Len(p)
    <3>1. /\ i - Len(p) \in 1..Len(s) /\ c[i] = s[i - Len(p)]
          /\ j - Len(p) \in 1..Len(s) /\ c[j] = s[j - Len(p)]
      BY <1>4, <2>3
    <3>2. i - Len(p) < j - Len(p)
      BY <1>1, <1>2
    <3> QED BY <1>2, <3>1, <3>2 DEF Sorted
  <2> QED BY <2>1, <2>2, <2>3
<1>7. Len(p) > 0 => c # <<>> /\ c[1] = p[1]
  <2> SUFFICES ASSUME Len(p) > 0 PROVE c # <<>> /\ c[1] = p[1]
    OBVIOUS
  <2>1. 1 \in 1..Len(p)
    BY <1>1
  <2>2. c[1] = p[1] /\ 1 \in DOMAIN c
    BY <1>3, <2>1
  <2>3. Len(c) # 0
    BY <1>1
  <2> QED BY <1>1, <2>2, <2>3, EmptySeq
<1> QED
  BY <1>1, <1>5, <1>6, <1>7 DEF c

-------------------------------------------------------------------------------
LEMMA CursorInitInv == PagingInit => CursorInv
<1> SUFFICES ASSUME PagingInit PROVE CursorInv
  OBVIOUS
<1>1. <<>> \in Seq(Int) /\ DOMAIN <<>> = {}
  BY EmptySeq
<1>2. Sorted(shown) /\ ToSet(shown) = {}
  BY <1>1 DEF PagingInit, Sorted, ToSet
<1> QED
  BY <1>1, <1>2, PagingAssumption DEF PagingInit, CursorInv

\* A message gets the highest id.
LEMMA SaveMessageStep ==
    ASSUME CursorInv, NEW here \in BOOLEAN, SaveMessage(here)
    PROVE  CursorInv'
<1>1. /\ lastId < MaxId /\ lastId' = lastId + 1
      /\ rows' = rows \/ rows' = rows \cup {lastId + 1}
      /\ UNCHANGED <<cursor, shown, before, reading>>
  BY DEF SaveMessage
<1>2. /\ rows \subseteq 1..lastId /\ lastId \in Nat /\ lastId \in 0..MaxId /\ cursor \in 0..MaxId
      /\ ToSet(shown) \subseteq rows /\ MaxId \in Nat
  BY PagingAssumption DEF CursorInv
<1>3. rows \subseteq rows' /\ rows' \subseteq 1..(lastId + 1) /\ lastId + 1 \in 0..MaxId
  <2>1. \A id \in 1..lastId : id \in 1..(lastId + 1)
    BY <1>2
  <2>2. lastId + 1 \in 1..(lastId + 1) /\ lastId + 1 \in 0..MaxId
    BY <1>1, <1>2
  <2> QED BY <1>1, <1>2, <2>1, <2>2
<1>4. ASSUME reading = "history"
      PROVE  \A id \in rows' : id < cursor => id \in before
  <2>1. shown # <<>> /\ cursor = shown[1] /\ shown \in Seq(Int)
    BY <1>4 DEF CursorInv
  <2>2. cursor \in rows
    <3>1. 1 \in DOMAIN shown
      BY <2>1, EmptySeq
    <3> QED BY <1>2, <2>1, <3>1 DEF ToSet
  <2>3. ~(lastId + 1 < cursor)
    BY <1>2, <2>2
  <2> QED BY <1>1, <1>4, <2>3 DEF CursorInv
<1> QED
  BY <1>1, <1>2, <1>3, <1>4 DEF CursorInv, Sorted

\* A page of HISTORY.
LEMMA HistoryPageStep ==
    ASSUME CursorInv, NEW n \in Limits, HISTORY(n)
    PROVE  CursorInv'
<1>1. PICK page \in db_load_history_before(cursor, Limit(n)) :
         /\ reading \in {"start", "history"}
         /\ cursor' = NextCursor(page)
         /\ shown' = page \o shown
         /\ before' = IF reading = "start" THEN rows ELSE before
         /\ reading' = IF page = <<>> THEN "shown" ELSE "history"
         /\ UNCHANGED <<rows, lastId>>
  BY DEF HISTORY
<1>2. /\ rows \subseteq 1..lastId /\ lastId \in Nat /\ lastId \in 0..MaxId /\ MaxId \in Nat
      /\ shown \in Seq(Int) /\ ToSet(shown) \subseteq rows /\ Sorted(shown) /\ n \in Int
  BY PagingAssumption DEF CursorInv
<1>3. /\ page \in Seq(Int) /\ Sorted(page) /\ ToSet(page) \subseteq Below(cursor)
      /\ page # <<>> => /\ Len(page) > 0 /\ page[1] \in Below(cursor)
                        /\ \A id \in Below(cursor) : id < page[1] \/ id \in ToSet(page)
      /\ page = <<>> => Below(cursor) = {}
  BY <1>1, <1>2, PageLoaded
<1>4. Below(cursor) \subseteq rows
  BY DEF Below
\* What the state says about the rows below the cursor, at the first page and later.
<1>5. /\ ToSet(shown) \subseteq before' /\ before' \subseteq rows /\ Below(cursor) \subseteq before'
      /\ \A id \in before' : id \in Below(cursor) \/ id \in ToSet(shown)
      /\ \A x \in Below(cursor), y \in ToSet(shown) : x < y
      /\ \A id \in rows, x \in Below(cursor) : id < x => id \in before'
  <2>1. CASE reading = "start"
    <3>1. shown = <<>> /\ cursor = 0 /\ before' = rows
      BY <1>1, <2>1 DEF CursorInv
    <3>2. ToSet(shown) = {}
      BY <3>1 DEF ToSet
    <3>3. Below(cursor) = rows
      BY <3>1 DEF Below
    <3> QED BY <3>1, <3>2, <3>3
  <2>2. CASE reading = "history"
    <3>1. /\ shown # <<>> /\ cursor = shown[1] /\ before' = before
          /\ ToSet(shown) \subseteq before /\ before \subseteq rows
          /\ \A id \in rows : id < cursor => id \in before
          /\ \A id \in before : id < cursor \/ id \in ToSet(shown)
      BY <1>1, <2>2 DEF CursorInv
    <3>2. 1 \in DOMAIN shown /\ DOMAIN shown = 1..Len(shown) /\ Len(shown) \in Nat
      BY <1>2, <3>1, EmptySeq
    <3>3. cursor \in rows /\ cursor \in Int /\ cursor # 0
      BY <1>2, <3>1, <3>2 DEF ToSet
    <3>4. Below(cursor) = {id \in rows : id < cursor}
      BY <3>3 DEF Below
    <3>5. \A y \in ToSet(shown) : y \in Int /\ cursor <= y
      <4> SUFFICES ASSUME NEW i \in 1..Len(shown)
                   PROVE  shown[i] \in Int /\ cursor <= shown[i]
        BY <3>2 DEF ToSet
      <4>1. i = 1 \/ 1 < i
        BY <3>2
      <4> QED BY <1>2, <3>1, <3>2, <3>3, <4>1 DEF Sorted
    <3>6. rows \subseteq Int
      BY <1>2
    <3>7. ASSUME NEW x \in Below(cursor)
          PROVE  x \in Int /\ x < cursor
      BY <3>4, <3>6, <3>7
    <3>8. \A x \in Below(cursor), y \in ToSet(shown) : x < y
      <4> TAKE x \in Below(cursor), y \in ToSet(shown)
      <4>1. x \in Int /\ x < cursor /\ y \in Int /\ cursor <= y /\ cursor \in Int
        BY <3>3, <3>5, <3>7
      <4> QED BY <4>1
    <3>9. \A id \in rows, x \in Below(cursor) : id < x => id < cursor
      <4> TAKE id \in rows, x \in Below(cursor)
      <4>1. x \in Int /\ x < cursor /\ id \in Int /\ cursor \in Int
        BY <3>3, <3>6, <3>7
      <4> QED BY <4>1
    <3> QED BY <3>1, <3>4, <3>8, <3>9
  <2> QED BY <1>1, <2>1, <2>2
<1>6. /\ shown' \in Seq(Int) /\ Sorted(shown)' /\ ToSet(shown)' = ToSet(page) \cup ToSet(shown)
      /\ Len(page) > 0 => shown' # <<>> /\ shown'[1] = page[1]
  <2>1. \A x \in ToSet(page), y \in ToSet(shown) : x < y
    BY <1>3, <1>5
  <2>2. /\ page \o shown \in Seq(Int) /\ Sorted(page \o shown)
        /\ ToSet(page \o shown) = ToSet(page) \cup ToSet(shown)
        /\ Len(page) > 0 => page \o shown # <<>> /\ (page \o shown)[1] = page[1]
    BY <1>2, <1>3, <2>1, InFront
  <2> QED BY <1>1, <2>2 DEF Sorted, ToSet
<1>7. cursor' \in 0..MaxId
  BY <1>1, <1>2, <1>3, <1>4 DEF NextCursor
<1>8. CASE page = <<>>
  <2>1. reading' = "shown" /\ ToSet(page) \subseteq before'
    BY <1>1, <1>3, <1>5, <1>8
  <2>2. before' = ToSet(shown)'
    BY <1>3, <1>5, <1>6, <1>8, <2>1
  <2> QED BY <1>1, <1>2, <1>3, <1>4, <1>6, <1>7, <2>1, <2>2 DEF CursorInv
<1>9. CASE page # <<>>
  <2>1. reading' = "history" /\ cursor' = page[1] /\ Len(page) > 0 /\ page[1] \in Below(cursor)
    BY <1>1, <1>3, <1>9 DEF NextCursor
  <2>2. /\ ToSet(shown)' \subseteq before'
        /\ \A id \in rows : id < page[1] => id \in before'
        /\ \A id \in before' : id < page[1] \/ id \in ToSet(shown)'
    BY <1>3, <1>5, <1>6, <1>9, <2>1
  <2> QED BY <1>1, <1>2, <1>3, <1>4, <1>5, <1>6, <1>7, <2>1, <2>2 DEF CursorInv
<1> QED
  BY <1>8, <1>9

\* A query that fails, and the list.
LEMMA CursorRest ==
    ASSUME CursorInv,
           \/ HistoryFails
           \/ \E e \in Entries : AddEntry(e)
           \/ \E i \in DOMAIN array : RemoveEntry(i)
           \/ \E n \in Limits : LISTPAGE(n)
    PROVE  CursorInv'
<1>1. UNCHANGED <<rows, lastId, cursor, shown, before>>
  BY DEF HistoryFails, AddEntry, RemoveEntry, LISTPAGE, historyVars
<1>2. reading' = reading \/ reading' \in {"end", "list", "listed"}
  BY DEF HistoryFails, AddEntry, RemoveEntry, LISTPAGE
<1> QED
  BY <1>1, <1>2 DEF CursorInv, Sorted

LEMMA CursorNextInv == CursorInv /\ [PagingNext]_pagingVars => CursorInv'
<1> SUFFICES ASSUME CursorInv, [PagingNext]_pagingVars PROVE CursorInv'
  OBVIOUS
<1>1. CASE UNCHANGED pagingVars
  BY <1>1 DEF pagingVars, historyVars, CursorInv, Sorted
<1> QED
  BY <1>1, SaveMessageStep, HistoryPageStep, CursorRest DEF PagingNext

\* PagesFit (db.c, db_load_history_before; client_handler.c, HISTORY), for any limits
\* and defaults and any number of messages that arrive meanwhile: pages by cursor
\* show nothing twice, in the order of the ids, and what there was at the first
\* page; positions and lists are in range.
THEOREM HistoryPagesFit == PagingSpec => []PagesFit
<1>1. ListInv /\ CursorInv => PagesFit
  BY DEF ListInv, ListTypes, CursorInv, Sorted, PagesFit, PagingTypeOK, HistoryComplete, ToSet
<1> QED
  BY <1>1, ListInitInv, ListNextInv, CursorInitInv, CursorNextInv, PTL DEF PagingSpec
===============================================================================
