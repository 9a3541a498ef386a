------------------------------- MODULE Sessions --------------------------------
(***************************************************************************)
(* Session tokens: the users and sessions tables (src/src/db.c,            *)
(* src/src/session.c) and the commands that make, check, rotate and revoke *)
(* tokens (REGISTER, LOGIN, RECONNECT, LOGOUT, LOGOUT_ALL and              *)
(* REVOKE_SESSION of process_line in src/src/client_handler.c).            *)
(*                                                                         *)
(* Each use of a lock is a step.  A RECONNECT takes seven: clean up, check *)
(* the token, check its user, look for a client of that name, create one,  *)
(* delete the old token, insert the new one.  They interleave with the     *)
(* commands of other connections, with the clock and with a stop of the    *)
(* server, which the tables survive.  Tokens are random and never repeat:  *)
(* the n-th token made is n.  A token is a bearer secret: whoever knows    *)
(* one may use it on any connection.                                       *)
(***************************************************************************)
EXTENDS Integers, FiniteSets

CONSTANTS Conns, Users, Nobody,
          MaxClients,      \* capacity of client_list
          Ttl,             \* SESSION_EXPIRE_SEC
          MaxNow,          \* bound on the clock
          MaxTokens,       \* bound on the number of tokens made
          MaxBusy,         \* how many commands may be in progress at once
          DbFails,         \* TRUE: a statement may fail (SQLITE_BUSY, I/O error)
          Restarts         \* TRUE: the server may stop and start again

ASSUME SessionAssumption ==
    /\ Nobody \notin Users
    /\ MaxClients \in Nat /\ Ttl \in Nat /\ MaxNow \in Nat
    /\ MaxTokens \in Nat /\ MaxBusy \in Nat
    /\ DbFails \in BOOLEAN /\ Restarts \in BOOLEAN

Tokens == 1..MaxTokens

VARIABLES now,
          users,           \* the rows of the users table
          sessions,        \* its rows: a function from tokens to user and expiry
          made,            \* how many tokens were made
          auth,            \* conn->me: the user a connection is logged in as
          pc, arg, who,    \* per connection: where its command is, the token it
                           \* presented (0: none), the user
          owner, until,    \* history: for whom each token was made, its lifetime
          used,            \* history: RECONNECTs each token authenticated (up to 2)
          revoked          \* history: tokens revoked by REVOKE_SESSION

vars == <<now, users, sessions, made, auth, pc, arg, who,
          owner, until, used, revoked>>
conn == <<auth, pc, arg, who>>
tokens == <<sessions, made, owner, until>>
hist == <<used, revoked>>

Active == {c \in Conns : auth[c] # Nobody}
InProgress == {c \in Conns : pc[c] # "idle"}
Online(u) == \E c \in Conns : auth[c] = u

Init ==
    /\ now = 0 /\ made = 0 /\ users = {}
    /\ sessions = [t \in {} |-> Nobody]
    /\ auth = [c \in Conns |-> Nobody]
    /\ pc = [c \in Conns |-> "idle"]
    /\ arg = [c \in Conns |-> 0] /\ who = [c \in Conns |-> Nobody]
    /\ owner = [t \in Tokens |-> Nobody] /\ until = [t \in Tokens |-> 0]
    /\ revoked = {}
    /\ used = [t \in Tokens |-> 0]

-------------------------------------------------------------------------------
(***************************************************************************)
(* db.c: the sessions table.                                               *)
(***************************************************************************)
Without(s, gone) == [t \in DOMAIN s \ gone |-> s[t]]

\* expires_at < now: the last second of a token's life is still good.
Expired == {t \in DOMAIN sessions : sessions[t].expires < now}

\* A statement that fails changes nothing.
Failed == DbFails /\ UNCHANGED sessions

db_cleanup_expired_sessions == sessions' = Without(sessions, Expired) \/ Failed

db_delete_session(t) == sessions' = Without(sessions, {t})

\* Mutant: the row is made for the user of the row before.
db_create_session_Stale(u) ==
    /\ made < MaxTokens
    /\ made' = made + 1
    /\ owner' = [owner EXCEPT ![made'] = u]
    /\ until' = [until EXCEPT ![made'] = now + Ttl]
    /\ sessions' = [t \in DOMAIN sessions \cup {made'} |->
                      IF t # made' THEN sessions[t]
                      ELSE [user |-> IF made = 0 THEN u ELSE owner[made],
                            expires |-> now + Ttl]]

db_create_session(u) ==
    /\ made < MaxTokens
    /\ made' = made + 1
    /\ owner' = [owner EXCEPT ![made'] = u]
    /\ until' = [until EXCEPT ![made'] = now + Ttl]
    /\ sessions' = [t \in DOMAIN sessions \cup {made'} |->
                      IF t = made' THEN [user |-> u, expires |-> now + Ttl]
                                   ELSE sessions[t]]

-------------------------------------------------------------------------------
(***************************************************************************)
(* The three ways in.                                                      *)
(***************************************************************************)
\* A command that ends forgets its token and its user.
End(c) ==
    /\ pc' = [pc EXCEPT ![c] = "idle"]
    /\ arg' = [arg EXCEPT ![c] = 0]
    /\ who' = [who EXCEPT ![c] = Nobody]

Begin(c, step) ==
    /\ auth[c] = Nobody /\ pc[c] = "idle"
    /\ Cardinality(InProgress) < MaxBusy
    /\ pc' = [pc EXCEPT ![c] = step]

db_register_user(u) == u \notin users /\ users' = users \cup {u}

db_verify_user(u) == u \in users

\* REGISTER: a new name goes into the users table; a known one is refused.
REGISTER(c, u) ==
    /\ Begin(c, "findnew")
    /\ db_register_user(u)
    /\ who' = [who EXCEPT ![c] = u]
    /\ UNCHANGED <<now, tokens, auth, arg, hist>>

\* LOGIN: the right password of a known user; others are refused.
LOGIN(c, u) ==
    /\ Begin(c, "find")
    /\ db_verify_user(u)
    /\ who' = [who EXCEPT ![c] = u]
    /\ UNCHANGED <<now, users, tokens, auth, arg, hist>>

\* RECONNECT cleans the table up, ...
RECONNECT(c, t) ==
    /\ Begin(c, "validate")
    /\ db_cleanup_expired_sessions
    /\ arg' = [arg EXCEPT ![c] = t]
    /\ UNCHANGED <<now, users, made, owner, until, auth, who, hist>>

\* ... looks the token up: unknown, expired since (and then deleted), not to be
\* read, or good, ...
db_validate_session(c) ==
    LET t == arg[c] IN
    /\ pc[c] = "validate"
    /\ \/ t \notin DOMAIN sessions /\ End(c) /\ UNCHANGED sessions
       \/ t \in Expired /\ db_delete_session(t) /\ End(c)
       \/ Failed /\ End(c)
       \/ /\ t \in DOMAIN sessions \ Expired
          /\ pc' = [pc EXCEPT ![c] = "exists"]
          /\ who' = [who EXCEPT ![c] = sessions[t].user]
          /\ UNCHANGED <<sessions, arg>>
    /\ UNCHANGED <<now, users, made, owner, until, auth, hist>>

\* ... looks its user up: a failed query reads as "no such user", and the token
\* is deleted.
db_user_exists(c) ==
    /\ pc[c] = "exists"
    /\ \/ /\ who[c] \in users
          /\ pc' = [pc EXCEPT ![c] = "find"]
          /\ UNCHANGED <<sessions, arg, who>>
       \/ /\ DbFails \/ who[c] \notin users
          /\ db_delete_session(arg[c]) \/ Failed
          /\ End(c)
    /\ UNCHANGED <<now, users, made, owner, until, auth, hist>>

\* All three look for a client of the name: REGISTER then gives up, the others
\* create a second client of that name.
find_client(c) ==
    /\ pc[c] \in {"find", "findnew"}
    /\ IF pc[c] = "findnew" /\ Online(who[c])
       THEN End(c)
       ELSE /\ pc' = [pc EXCEPT ![c] = IF Online(who[c]) THEN "force" ELSE "create"]
            /\ UNCHANGED <<arg, who>>
    /\ UNCHANGED <<now, users, tokens, auth, hist>>

\* create_client refuses a name that came online since; both it and
\* create_client_force refuse when the list is full.  The token then stays.
create_client(c) ==
    /\ pc[c] \in {"create", "force"}
    /\ \/ /\ Cardinality(Active) < MaxClients
          /\ pc[c] = "force" \/ ~Online(who[c])
          /\ auth' = [auth EXCEPT ![c] = who[c]]
          /\ used' = [t \in Tokens |-> IF t = arg[c] /\ used[t] < 2 THEN used[t] + 1 ELSE used[t]]
          /\ pc' = [pc EXCEPT ![c] = IF arg[c] = 0 THEN "issue" ELSE "rotate"]
          /\ UNCHANGED <<arg, who>>
       \/ /\ \/ Cardinality(Active) >= MaxClients
             \/ pc[c] = "create" /\ Online(who[c])
          /\ End(c)
          /\ UNCHANGED <<auth, used>>
    /\ UNCHANGED <<now, users, tokens, revoked>>

\* RECONNECT deletes the old token, whether or not the deletion succeeds, ...
RotateDelete(c) ==
    /\ pc[c] = "rotate"
    /\ db_delete_session(arg[c]) \/ Failed
    /\ pc' = [pc EXCEPT ![c] = "issue"]
    /\ UNCHANGED <<now, users, made, owner, until, auth, arg, who, hist>>

\* ... and all three end by inserting a token and sending it; without one the
\* command succeeds all the same.
Issue(c) ==
    /\ pc[c] = "issue"
    /\ db_create_session(who[c]) \/ (DbFails /\ UNCHANGED tokens)
    /\ End(c)
    /\ UNCHANGED <<now, users, auth, hist>>

-------------------------------------------------------------------------------
\* LOGOUT, and a disconnect, leave the token in the table.
LOGOUT(c) ==
    /\ c \in Active /\ pc[c] = "idle"
    /\ auth' = [auth EXCEPT ![c] = Nobody]
    /\ UNCHANGED <<now, users, tokens, pc, arg, who, hist>>

\* It deletes the expired rows, whoever they belong to.
session_revoke_all == db_cleanup_expired_sessions

LOGOUT_ALL(c) ==
    /\ c \in Active /\ pc[c] = "idle"
    /\ session_revoke_all
    /\ auth' = [auth EXCEPT ![c] = Nobody]
    /\ UNCHANGED <<now, users, made, owner, until, pc, arg, who, hist>>

\* Mutant: only the expired rows go.
REVOKE_SESSION_Cleanup(c, t) ==
    /\ c \in Active /\ pc[c] = "idle"
    /\ db_cleanup_expired_sessions
    /\ revoked' = revoked \cup {t}
    /\ UNCHANGED <<now, users, made, owner, until, conn, used>>

session_revoke(t) == db_delete_session(t)

\* Nothing ties the token to the user that revokes it.  A deletion that fails is
\* reported as an error and changes nothing.
REVOKE_SESSION(c, t) ==
    /\ c \in Active /\ pc[c] = "idle"
    /\ session_revoke(t)
    /\ revoked' = revoked \cup {t}
    /\ UNCHANGED <<now, users, made, owner, until, conn, used>>

Tick ==
    /\ now < MaxNow
    /\ now' = now + 1
    /\ UNCHANGED <<users, tokens, conn, hist>>

\* Connections and commands in progress are lost, the tables are not.
Restart ==
    /\ Restarts
    /\ auth' = [c \in Conns |-> Nobody]
    /\ pc' = [c \in Conns |-> "idle"]
    /\ arg' = [c \in Conns |-> 0] /\ who' = [c \in Conns |-> Nobody]
    /\ UNCHANGED <<now, users, tokens, hist>>

Next ==
    \/ \E c \in Conns, u \in Users : REGISTER(c, u)
    \/ \E c \in Conns, u \in Users : LOGIN(c, u)
    \/ \E c \in Conns : \E t \in 1..made : RECONNECT(c, t)
    \/ \E c \in Conns : db_validate_session(c)
    \/ \E c \in Conns : db_user_exists(c)
    \/ \E c \in Conns : find_client(c)
    \/ \E c \in Conns : create_client(c)
    \/ \E c \in Conns : RotateDelete(c)
    \/ \E c \in Conns : Issue(c)
    \/ \E c \in Conns : LOGOUT(c)
    \/ \E c \in Conns : LOGOUT_ALL(c)
    \/ \E c \in Conns : \E t \in 1..made : REVOKE_SESSION(c, t)
    \/ Tick
    \/ Restart

Spec == Init /\ [][Next]_vars

-------------------------------------------------------------------------------
(***************************************************************************)
(* Properties.                                                             *)
(***************************************************************************)
\* The type of every variable; the client list never exceeds its capacity.
TypeOK ==
    /\ now \in 0..MaxNow /\ made \in 0..MaxTokens /\ users \subseteq Users
    /\ DOMAIN sessions \subseteq 1..made
    /\ \A t \in DOMAIN sessions :
          sessions[t] \in [user : Users, expires : 0..MaxNow + Ttl]
    /\ auth \in [Conns -> Users \cup {Nobody}]
    /\ pc \in [Conns -> {"idle", "validate", "exists", "find", "findnew",
                         "create", "force", "rotate", "issue"}]
    /\ Cardinality(Active) <= MaxClients
    /\ revoked \subseteq 1..made

\* However commands overlap, fail or are cut off, a connection is logged in as
\* the user for whom the token it presented was made (RECONNECT).
TokenBindsUser ==
    \A c \in Conns : arg[c] # 0 /\ pc[c] \in {"rotate", "issue"} =>
                         auth[c] = owner[arg[c]]

\* RECONNECT logs in the owner of the token, and never more clients than there
\* are places (create_client).
TokensSound == TypeOK /\ TokenBindsUser

\* RECONNECT rotates: "old token deleted" (README.md), "old token should be
\* invalid now" (tests/integration_test.py): no token logs in twice.
TokenUsedOnce == \A t \in Tokens : used[t] <= 1

\* The check of a token (db_validate_session) never passes after REVOKE_SESSION
\* revoked it, whatever was rotated in between, nor after the lifetime given to
\* it when it was made, however long the command waited.
RefusedAfterEnd ==
    [][\A c \in Conns : pc[c] = "validate" /\ pc'[c] = "exists" =>
          arg[c] \notin revoked /\ now <= until[arg[c]]]_vars
===============================================================================
