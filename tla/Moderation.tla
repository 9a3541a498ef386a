------------------------------ MODULE Moderation -------------------------------
(***************************************************************************)
(* Roles, bans, mutes, blocks, invitations and read receipts: the tables   *)
(* of src/src/permission.c, block.c, invite.c and receipt.c, and the       *)
(* commands of src/src/client_handler.c that use them.                     *)
(*                                                                         *)
(* Each table has a connection to the database and a mutex of its own, and *)
(* each call is one SQL statement under that mutex.  A command is several  *)
(* such calls, with nothing held in between, so the commands of two        *)
(* workers interleave between any two calls.  No connection sets a busy    *)
(* timeout: a statement may fail while another connection writes.  The     *)
(* process may stop between any two calls; the tables remain.  One room    *)
(* is looked at; who is in it is the concern of Registry and RoomRace.     *)
(***************************************************************************)
EXTENDS Integers

CONSTANTS People,                \* user names
          Threads,               \* the workers that run commands
          MaxCommands,           \* bound on commands
          MayFail                \* TRUE: a statement may find the database busy

ASSUME ModerationAssumption == MaxCommands \in Nat /\ MayFail \in BOOLEAN

VARIABLES roles,                 \* room_roles: the role, ROLE_MEMBER for no row
          bans, mutes, invites,  \* the users in rows of this room
          blocks,                \* pairs <<blocker, blocked>>
          receipts,              \* readers of the message
          task,                  \* per worker: the command it is in
          commands,
          creators,              \* history: who was made owner
          overtaken,             \* history: a DEMOTE wrote after its author had
                                 \* lost the ownership it was checked for
          invited, entered,      \* history: how often a row was made for a user,
                                 \* and how often the user came in
          loose                  \* history: users whose ACCEPT did not take a
                                 \* row away

tables == <<roles, bans, mutes, invites, blocks, receipts>>
memory == <<creators, overtaken, invited, entered, loose>>
moderationVars == <<tables, task, commands, memory>>

Member == 0
Admin == 2
Owner == 3

Idle == [cmd |-> "none"]

\* The commands of several statements, before the second one, and DEMOTE before
\* the last one, with the role it has read.
Tasks == {Idle} \cup [cmd : {"demote", "mute", "ban", "invite"}, by : People, on : People]
                \cup [cmd : {"accept"}, on : People]
                \cup [cmd : {"lower"}, by : People, on : People,
                      seen : (Member + 1)..Owner, stale : BOOLEAN]

ModerationInit ==
    /\ roles = [u \in People |-> Member]
    /\ bans = {} /\ mutes = {} /\ invites = {} /\ blocks = {} /\ receipts = {}
    /\ task = [w \in Threads |-> Idle] /\ commands = 0
    /\ creators = {} /\ overtaken = FALSE /\ loose = {}
    /\ invited = [u \in People |-> 0] /\ entered = [u \in People |-> 0]

-------------------------------------------------------------------------------
(***************************************************************************)
(* The statements.  Those that read have a value, those that write one or  *)
(* none; a statement that fails reads nothing and writes nothing.          *)
(***************************************************************************)
\* Mutant: without a row, the highest role.
permission_get_role_DefaultOwner(u) ==
    {IF roles[u] = Member THEN Owner ELSE roles[u]} \cup (IF MayFail THEN {Member} ELSE {})

\* The roles the statement may return: without a row, or when it fails, MEMBER.
permission_get_role(u) == {roles[u]} \cup (IF MayFail THEN {Member} ELSE {})

permission_check(u, needed) == \E r \in permission_get_role(u) : r >= needed

permission_set_role(u, r) ==
    \/ roles' = [roles EXCEPT ![u] = r]
    \/ MayFail /\ UNCHANGED roles

\* INSERT OR IGNORE, INSERT OR REPLACE: one row per user and room.
Insert(table, row) == {table \cup {row}} \cup (IF MayFail THEN {table} ELSE {})

Remove(table, row) == {table \ {row}} \cup (IF MayFail THEN {table} ELSE {})

-------------------------------------------------------------------------------
(***************************************************************************)
(* The commands.  A worker starts one, going through the first check, ...  *)
(***************************************************************************)
Take(w, t) ==
    /\ task[w] = Idle /\ commands < MaxCommands
    /\ commands' = commands + 1
    /\ task' = [task EXCEPT ![w] = t]
    /\ UNCHANGED <<tables, memory>>

Done(w) == task' = [task EXCEPT ![w] = Idle]

Running(w, cmd) == task[w].cmd = cmd

\* Mutant: an owner may demote itself.
DEMOTE_Self(w, u, v) ==
    /\ permission_check(u, Owner)
    /\ Take(w, [cmd |-> "demote", by |-> u, on |-> v])

DEMOTE(w, u, v) ==
    /\ permission_check(u, Owner)
    /\ u # v
    /\ Take(w, [cmd |-> "demote", by |-> u, on |-> v])

MUTE(w, u, v) ==
    permission_check(u, Admin) /\ Take(w, [cmd |-> "mute", by |-> u, on |-> v])

BAN(w, u, v) ==
    permission_check(u, Owner) /\ Take(w, [cmd |-> "ban", by |-> u, on |-> v])

INVITE(w, u, v) ==
    permission_check(u, Admin) /\ Take(w, [cmd |-> "invite", by |-> u, on |-> v])

ACCEPT(w, u) ==
    /\ u \in invites                                          \* invite_find
    /\ Take(w, [cmd |-> "accept", on |-> u])

\* ... and goes on with the next calls.
\* Mutant: an ordinary member can be demoted too.
DemoteRead_NoFloor(w) ==
    /\ Running(w, "demote")
    /\ \E r \in permission_get_role(task[w].on) :
          task' = [task EXCEPT ![w] =
             [cmd |-> "lower", by |-> task[w].by, on |-> task[w].on,
              seen |-> r, stale |-> FALSE]]
    /\ UNCHANGED <<tables, commands, memory>>

\* DEMOTE reads the role ...
DemoteRead(w) ==
    /\ Running(w, "demote")
    /\ \E r \in permission_get_role(task[w].on) :
          task' = [task EXCEPT ![w] =
             IF r <= Member THEN Idle
             ELSE [cmd |-> "lower", by |-> task[w].by, on |-> task[w].on,
                   seen |-> r, stale |-> FALSE]]
    /\ UNCHANGED <<tables, commands, memory>>

\* A write to the role of u makes what other workers have read of it stale.
Outdate(w, u) ==
    task' = [x \in Threads |->
        IF x = w THEN Idle
        ELSE IF task[x].cmd = "lower" /\ task[x].on = u THEN [task[x] EXCEPT !.stale = TRUE]
        ELSE task[x]]

\* ... and writes the one below.
DemoteWrite(w) ==
    /\ Running(w, "lower")
    /\ permission_set_role(task[w].on, task[w].seen - 1)
    /\ Outdate(w, task[w].on)
    /\ overtaken' = (overtaken \/ roles[task[w].by] # Owner)
    /\ UNCHANGED <<bans, mutes, invites, blocks, receipts, commands, creators, invited,
                   entered, loose>>

\* The creator of a private room becomes its owner, some time after the room can
\* be found.  A name may be used again once its room is gone, and the roles of
\* the old room are still there.
CREATE_PRIVATE(w, u) ==
    /\ task[w] = Idle /\ commands < MaxCommands
    /\ commands' = commands + 1
    /\ permission_set_role(u, Owner)
    /\ creators' = IF roles'[u] = Owner THEN creators \cup {u} ELSE creators
    /\ Outdate(w, u)
    /\ UNCHANGED <<bans, mutes, invites, blocks, receipts, overtaken, invited, entered, loose>>

MuteAdd(w) ==
    /\ Running(w, "mute")
    /\ mutes' \in Insert(mutes, task[w].on)
    /\ Done(w)
    /\ UNCHANGED <<roles, bans, invites, blocks, receipts, commands, memory>>

BanAdd(w) ==
    /\ Running(w, "ban")
    /\ bans' \in Insert(bans, task[w].on)
    /\ Done(w)
    /\ UNCHANGED <<roles, mutes, invites, blocks, receipts, commands, memory>>

invite_create(w) ==
    /\ Running(w, "invite")
    /\ invites' \in Insert(invites, task[w].on)
    /\ invited' = [invited EXCEPT ![task[w].on] = IF invites' = invites THEN @ ELSE @ + 1]
    /\ Done(w)
    /\ UNCHANGED <<roles, bans, mutes, blocks, receipts, commands, creators, overtaken,
                   entered, loose>>

\* Mutant: the invitation is kept.
invite_accept_Keep(w) ==
    /\ Running(w, "accept")
    /\ entered' = [entered EXCEPT ![task[w].on] = @ + 1]
    /\ Done(w)
    /\ UNCHANGED <<tables, commands, creators, overtaken, invited, loose>>

\* ACCEPT takes the invitation away, whether or not there still is one, and goes
\* in if the room exists.
invite_accept(w) ==
    LET u == task[w].on IN
    /\ Running(w, "accept")
    /\ invites' \in Remove(invites, u)
    /\ \E n \in {0, 1} : entered' = [entered EXCEPT ![u] = @ + n]
    /\ loose' = IF invites' = invites THEN loose \cup {u} ELSE loose
    /\ Done(w)
    /\ UNCHANGED <<roles, bans, mutes, blocks, receipts, commands, creators, overtaken, invited>>

\* The commands of one statement.  UNMUTE asks for no role; READ for no message.
DECLINE(u) ==
    /\ invites' \in Remove(invites, u)
    /\ UNCHANGED <<roles, bans, mutes, blocks, receipts, task, commands, memory>>

UNMUTE(u) ==
    /\ mutes' \in Remove(mutes, u)
    /\ UNCHANGED <<roles, bans, invites, blocks, receipts, task, commands, memory>>

BLOCK(u, v) ==
    /\ u # v
    /\ blocks' \in Insert(blocks, <<u, v>>)
    /\ UNCHANGED <<roles, bans, mutes, invites, receipts, task, commands, memory>>

UNBLOCK(u, v) ==
    /\ blocks' \in Remove(blocks, <<u, v>>)
    /\ UNCHANGED <<roles, bans, mutes, invites, receipts, task, commands, memory>>

READ(u) ==
    /\ receipts' \in Insert(receipts, u)
    /\ UNCHANGED <<roles, bans, mutes, invites, blocks, task, commands, memory>>

\* The process stops and starts again.
Restarted ==
    /\ \E w \in Threads : task[w] # Idle
    /\ task' = [w \in Threads |-> Idle]
    /\ UNCHANGED <<tables, commands, memory>>

ModerationNext ==
    \/ \E w \in Threads, u, v \in People : DEMOTE(w, u, v)
    \/ \E w \in Threads, u, v \in People : MUTE(w, u, v)
    \/ \E w \in Threads, u, v \in People : BAN(w, u, v)
    \/ \E w \in Threads, u, v \in People : INVITE(w, u, v)
    \/ \E w \in Threads, u \in People : ACCEPT(w, u)
    \/ \E w \in Threads, u \in People : CREATE_PRIVATE(w, u)
    \/ \E w \in Threads : DemoteRead(w)
    \/ \E w \in Threads : DemoteWrite(w)
    \/ \E w \in Threads : MuteAdd(w)
    \/ \E w \in Threads : BanAdd(w)
    \/ \E w \in Threads : invite_create(w)
    \/ \E w \in Threads : invite_accept(w)
    \/ \E u \in People : DECLINE(u)
    \/ \E u \in People : UNMUTE(u)
    \/ \E u, v \in People : BLOCK(u, v)
    \/ \E u, v \in People : UNBLOCK(u, v)
    \/ \E u \in People : READ(u)
    \/ Restarted

ModerationSpec == ModerationInit /\ [][ModerationNext]_moderationVars

-------------------------------------------------------------------------------
(***************************************************************************)
(* Properties.                                                             *)
(***************************************************************************)
\* The type of every variable; nobody has a role above MEMBER who did not create
\* the room.
ModerationTypeOK ==
    /\ roles \in [People -> Member..Owner]
    /\ \A u \in People : roles[u] > Member => u \in creators
    /\ bans \subseteq People /\ mutes \subseteq People /\ invites \subseteq People
    /\ blocks \subseteq People \X People /\ receipts \subseteq People
    /\ task \in [Threads -> Tasks]
    /\ commands \in 0..MaxCommands
    /\ creators \subseteq People /\ loose \subseteq People /\ overtaken \in BOOLEAN
    /\ invited \in [People -> Nat] /\ entered \in [People -> Nat]

\* A room that ever had an owner has one, unless a DEMOTE was overtaken by a
\* DEMOTE of its author: two owners can demote each other at the same time,
\* one after the other they cannot (permission_check, permission_set_role).
OwnerRemains ==
    creators # {} /\ ~overtaken => \E u \in People : roles[u] = Owner

\* DEMOTE never raises a role, unless the role changed between its read and its
\* write (permission_get_role, permission_set_role).
NeverRaised ==
    [][\A u \in People : roles'[u] > roles[u] =>
          \/ u \in creators' /\ roles'[u] = Owner
          \/ \E w \in Threads : /\ task[w].cmd = "lower" /\ task[w].on = u
                                /\ task[w].stale /\ task'[w] = Idle]_moderationVars

\* An invitation lets its user in once, however commands overlap, fail and are
\* cut off by a restart, unless an ACCEPT did not take it away: because another
\* ACCEPT of the user had, or because the statement failed (invite_accept).
InvitedOnce ==
    \A u \in People \ loose :
       entered[u] + (IF u \in invites THEN 1 ELSE 0) <= invited[u]
===============================================================================
