---------------------------- MODULE Sessions_proofs ----------------------------
(***************************************************************************)
(* Proofs about session tokens, for any connections, users, capacity,      *)
(* lifetime and bounds, with and without failing statements and restarts.  *)
(***************************************************************************)
EXTENDS Sessions, FiniteSetTheorems, TLAPS

\* Where a command has its user: every place but the first two.
Chosen == {"exists", "find", "findnew", "create", "force", "rotate", "issue"}

\* The types TypeOK leaves out.  Active is finite whatever Conns is: each login
\* adds one connection to it.
CommandTypes ==
    /\ arg \in [Conns -> 0..made] /\ who \in [Conns -> Users \cup {Nobody}]
    /\ owner \in [Tokens -> Users \cup {Nobody}] /\ until \in [Tokens -> Nat]
    /\ IsFiniteSet(Active)

\* A row says what was decided when its token was made.
RowsAsMade ==
    \A t \in DOMAIN sessions :
        sessions[t].user = owner[t] /\ sessions[t].expires = until[t]

\* No statement puts a revoked row back.
RevokedGone == \A t \in revoked : t \notin DOMAIN sessions

\* A command that presented a token has, from the check on, the user for whom
\* the token was made, even when the row has gone since.
WhoIsOwner ==
    \A c \in Conns : pc[c] \in Chosen =>
        /\ who[c] \in Users
        /\ arg[c] # 0 => who[c] = owner[arg[c]]

\* Between create_client and the end of the command nothing logs the
\* connection out.
LoggedInAsWho ==
    \A c \in Conns : pc[c] \in {"rotate", "issue"} => auth[c] = who[c]

\* Only RECONNECT brings a token along.
IdleHasNone == \A c \in Conns : pc[c] = "idle" => arg[c] = 0

SessionInv ==
    /\ TypeOK /\ CommandTypes /\ RowsAsMade /\ RevokedGone
    /\ WhoIsOwner /\ LoggedInAsWho /\ IdleHasNone

-------------------------------------------------------------------------------
(* What the statements on the sessions table do. *)

\* The rows' half of the invariant, and the connections' half.
TableInv ==
    /\ now \in 0..MaxNow /\ made \in 0..MaxTokens /\ users \subseteq Users
    /\ DOMAIN sessions \subseteq 1..made
    /\ \A t \in DOMAIN sessions :
          sessions[t] \in [user : Users, expires : 0..MaxNow + Ttl]
    /\ revoked \subseteq 1..made
    /\ owner \in [Tokens -> Users \cup {Nobody}] /\ until \in [Tokens -> Nat]
    /\ RowsAsMade /\ RevokedGone

ConnInv ==
    /\ auth \in [Conns -> Users \cup {Nobody}]
    /\ pc \in [Conns -> {"idle", "validate"} \cup Chosen]
    /\ arg \in [Conns -> 0..made] /\ who \in [Conns -> Users \cup {Nobody}]
    /\ WhoIsOwner /\ LoggedInAsWho /\ IdleHasNone

Places == IsFiniteSet(Active) /\ Cardinality(Active) <= MaxClients

LEMMA Halves == /\ SessionInv => TableInv /\ ConnInv /\ Places
                /\ TableInv' /\ ConnInv' /\ Places' => SessionInv'
  BY DEF SessionInv, TypeOK, CommandTypes, TableInv, ConnInv, Places, Chosen

\* Every statement but the insertion only takes rows away.
RowsGo == DOMAIN sessions' \subseteq DOMAIN sessions
          /\ \A t \in DOMAIN sessions' : sessions'[t] = sessions[t]

LEMMA DeletesTake ==
    ASSUME \/ \E gone : sessions' = Without(sessions, gone)
           \/ UNCHANGED sessions
    PROVE  RowsGo
  BY DEF Without, RowsGo

LEMMA CleanupTakes == db_cleanup_expired_sessions => RowsGo
  BY DeletesTake DEF db_cleanup_expired_sessions, Failed

LEMMA DeleteTakes ==
    ASSUME NEW t, db_delete_session(t) \/ Failed
    PROVE  RowsGo
  BY DeletesTake DEF db_delete_session, Failed

\* A step that only takes rows away keeps the rows' half.
LEMMA TableKept ==
    ASSUME TableInv, RowsGo, UNCHANGED <<made, owner, until, revoked>>,
           now' \in 0..MaxNow, users' \subseteq Users
    PROVE  TableInv'
  BY DEF TableInv, RowsGo, RowsAsMade, RevokedGone

\* The insertion adds the row of the token it makes, and nothing about an
\* earlier token changes.
LEMMA TableGrows ==
    ASSUME TableInv, NEW u \in Users, db_create_session(u),
           UNCHANGED <<now, users, revoked>>
    PROVE  /\ TableInv' /\ made' \in Nat /\ made <= made'
           /\ \A t \in 1..made : owner'[t] = owner[t]
<1> USE SessionAssumption DEF TableInv, db_create_session, Tokens
<1>1. made' \in 1..MaxTokens /\ made' = made + 1 /\ now + Ttl \in 0..MaxNow + Ttl
  OBVIOUS
<1>2. /\ owner' \in [Tokens -> Users \cup {Nobody}] /\ until' \in [Tokens -> Nat]
      /\ owner'[made'] = u /\ until'[made'] = now + Ttl
      /\ \A t \in 1..made : owner'[t] = owner[t] /\ until'[t] = until[t]
  BY <1>1
<1>3. /\ DOMAIN sessions' = DOMAIN sessions \cup {made'}
      /\ sessions'[made'] = [user |-> u, expires |-> now + Ttl]
      /\ \A t \in DOMAIN sessions : t # made' /\ sessions'[t] = sessions[t]
  BY <1>1
<1>4. /\ DOMAIN sessions' \subseteq 1..made' /\ revoked' \subseteq 1..made'
      /\ \A t \in DOMAIN sessions' :
            sessions'[t] \in [user : Users, expires : 0..MaxNow + Ttl]
  BY <1>1, <1>3
<1>5. RowsAsMade'
  BY <1>2, <1>3 DEF RowsAsMade
<1>6. RevokedGone'
  BY <1>1, <1>3 DEF RevokedGone
<1> QED
  BY <1>1, <1>2, <1>4, <1>5, <1>6

-------------------------------------------------------------------------------
(* What the steps of a command do to its connection. *)

LEMMA EndKeeps ==
    ASSUME ConnInv, made \in Nat, NEW c \in Conns, End(c),
           UNCHANGED <<auth, made, owner>>
    PROVE  ConnInv'
<1> USE DEF ConnInv, End, Chosen
<1>1. /\ arg' \in [Conns -> 0..made'] /\ who' \in [Conns -> Users \cup {Nobody}]
      /\ pc' \in [Conns -> {"idle", "validate"} \cup Chosen]
  OBVIOUS
<1>2. WhoIsOwner'
  BY DEF WhoIsOwner
<1>3. LoggedInAsWho' /\ IdleHasNone'
  BY DEF LoggedInAsWho, IdleHasNone
<1> QED
  BY <1>1, <1>2, <1>3

\* A command goes on with the token and the user it has; it gets past
\* create_client only with the connection logged in.
LEMMA GoesOn ==
    ASSUME ConnInv, NEW c \in Conns, pc[c] \in Chosen,
           NEW step \in Chosen, pc' = [pc EXCEPT ![c] = step],
           step \in {"rotate", "issue"} => auth'[c] = who[c],
           auth' \in [Conns -> Users \cup {Nobody}],
           \A d \in Conns \ {c} : auth'[d] = auth[d],
           UNCHANGED <<made, owner, arg, who>>
    PROVE  ConnInv'
<1> USE DEF ConnInv, Chosen
<1>1. pc' \in [Conns -> {"idle", "validate"} \cup Chosen]
  OBVIOUS
<1>2. WhoIsOwner'
  BY DEF WhoIsOwner
<1>3. LoggedInAsWho' /\ IdleHasNone'
  BY DEF LoggedInAsWho, IdleHasNone
<1> QED
  BY <1>1, <1>2, <1>3

\* The commands that log out do so between commands.
LEMMA LogsOut ==
    ASSUME ConnInv, NEW c \in Conns, pc[c] = "idle",
           auth' = [auth EXCEPT ![c] = Nobody],
           UNCHANGED <<made, owner, pc, arg, who>>
    PROVE  ConnInv'
  BY DEF ConnInv, WhoIsOwner, LoggedInAsWho, IdleHasNone, Chosen

\* Fewer connections logged in take no more places.
LEMMA PlacesKept ==
    ASSUME Places, Active' \subseteq Active
    PROVE  Places'
<1>1. IsFiniteSet(Active') /\ Cardinality(Active') <= Cardinality(Active)
  BY FS_Subset DEF Places
<1> QED
  BY <1>1, FS_CardinalityType, SessionAssumption DEF Places

LEMMA OnePlaceTaken ==
    ASSUME Places, Cardinality(Active) < MaxClients, NEW c \in Conns,
           Active' \subseteq Active \cup {c}
    PROVE  Places'
<1>1. /\ IsFiniteSet(Active \cup {c}) /\ Cardinality(Active) \in Nat
      /\ Cardinality(Active \cup {c}) <= Cardinality(Active) + 1
  BY FS_AddElement, FS_CardinalityType DEF Places
<1>2. IsFiniteSet(Active') /\ Cardinality(Active') <= Cardinality(Active \cup {c})
  BY <1>1, FS_Subset
<1>3. Cardinality(Active') \in Nat /\ Cardinality(Active \cup {c}) \in Nat
  BY <1>1, <1>2, FS_CardinalityType
<1> QED
  BY <1>1, <1>2, <1>3, SessionAssumption DEF Places

-------------------------------------------------------------------------------
(* The inductive step, one lemma per action. *)

LEMMA InitSession == Init => SessionInv
<1> SUFFICES ASSUME Init PROVE SessionInv
  OBVIOUS
<1> USE SessionAssumption DEF Init
<1>1. Active = {} /\ Places
  <2>1. Active = {}
    BY DEF Active
  <2>2. IsFiniteSet({}) /\ Cardinality({}) = 0
    BY FS_EmptySet
  <2>3. 0 <= MaxClients
    OBVIOUS
  <2> HIDE DEF Init
  <2> QED BY <2>1, <2>2, <2>3 DEF Places
<1>2. ConnInv
  BY DEF ConnInv, WhoIsOwner, LoggedInAsWho, IdleHasNone, Chosen
<1>3. TableInv
  BY DEF TableInv, RowsAsMade, RevokedGone
<1> QED
  BY <1>1, <1>2, <1>3
     DEF SessionInv, TypeOK, CommandTypes, TableInv, ConnInv, Places, Chosen

LEMMA RegisterStep ==
    ASSUME SessionInv, NEW c \in Conns, NEW u \in Users,
           REGISTER(c, u) \/ LOGIN(c, u)
    PROVE  SessionInv'
<1> USE Halves
<1> USE DEF REGISTER, LOGIN, Begin, tokens, hist
<1>1. TableInv'
  <2>1. RowsGo
    BY DEF RowsGo
  <2>2. users' \subseteq Users /\ now' \in 0..MaxNow
    BY DEF TableInv, db_register_user
  <2> QED BY <2>1, <2>2, TableKept
<1>2. ConnInv'
  <2> USE DEF ConnInv, Chosen
  <2>1. /\ who' \in [Conns -> Users \cup {Nobody}]
        /\ pc' \in [Conns -> {"idle", "validate"} \cup Chosen]
    OBVIOUS
  <2>2. arg[c] = 0
    BY DEF IdleHasNone
  <2>3. WhoIsOwner'
    BY <2>2 DEF WhoIsOwner
  <2>4. LoggedInAsWho' /\ IdleHasNone'
    BY DEF LoggedInAsWho, IdleHasNone
  <2> QED BY <2>1, <2>3, <2>4
<1>3. Places'
  BY PlacesKept DEF Active
<1> QED
  BY <1>1, <1>2, <1>3

LEMMA ReconnectStep ==
    ASSUME SessionInv, NEW c \in Conns, NEW t \in 1..made, RECONNECT(c, t)
    PROVE  SessionInv'
<1> USE Halves
<1> USE DEF RECONNECT, Begin, hist
<1>1. TableInv'
  <2>1. users' \subseteq Users /\ now' \in 0..MaxNow
    BY DEF TableInv
  <2> QED BY <2>1, CleanupTakes, TableKept
<1>2. ConnInv'
  <2> USE DEF ConnInv, Chosen
  <2>1. /\ arg' \in [Conns -> 0..made']
        /\ pc' \in [Conns -> {"idle", "validate"} \cup Chosen]
    BY DEF TableInv
  <2>2. WhoIsOwner'
    BY DEF WhoIsOwner
  <2>3. LoggedInAsWho' /\ IdleHasNone'
    BY DEF LoggedInAsWho, IdleHasNone
  <2> QED BY <2>1, <2>2, <2>3
<1>3. Places'
  BY PlacesKept DEF Active
<1> QED
  BY <1>1, <1>2, <1>3

\* The check gives the command the user of the row, for whom it was made.
LEMMA ValidateStep ==
    ASSUME SessionInv, NEW c \in Conns, db_validate_session(c)
    PROVE  SessionInv'
<1> USE Halves
<1> USE DEF db_validate_session, hist
<1>1. TableInv'
  <2>1. users' \subseteq Users /\ now' \in 0..MaxNow
    BY DEF TableInv
  <2>2. RowsGo
    BY DeletesTake DEF db_delete_session, Failed
  <2> QED BY <2>1, <2>2, TableKept
<1>2. made \in Nat
  BY SessionAssumption DEF TableInv
<1>3. ConnInv'
  <2>1. CASE End(c)
    BY <1>2, <2>1, EndKeeps
  <2>2. CASE /\ arg[c] \in DOMAIN sessions \ Expired
             /\ pc' = [pc EXCEPT ![c] = "exists"]
             /\ who' = [who EXCEPT ![c] = sessions[arg[c]].user]
             /\ UNCHANGED <<sessions, arg>>
    <3>1. sessions[arg[c]].user \in Users /\ sessions[arg[c]].user = owner[arg[c]]
      BY <2>2 DEF TableInv, RowsAsMade
    <3> USE <2>2, <3>1 DEF ConnInv, Chosen
    <3>2. /\ who' \in [Conns -> Users \cup {Nobody}]
          /\ pc' \in [Conns -> {"idle", "validate"} \cup Chosen]
      OBVIOUS
    <3>3. WhoIsOwner'
      BY DEF WhoIsOwner
    <3>4. LoggedInAsWho' /\ IdleHasNone'
      BY DEF LoggedInAsWho, IdleHasNone
    <3> QED BY <3>2, <3>3, <3>4
  <2> QED BY <2>1, <2>2
<1>4. Places'
  BY PlacesKept DEF Active
<1> QED
  BY <1>1, <1>3, <1>4

LEMMA ExistsStep ==
    ASSUME SessionInv, NEW c \in Conns, db_user_exists(c)
    PROVE  SessionInv'
<1> USE Halves
<1> USE DEF db_user_exists, hist
<1>1. TableInv'
  <2>1. users' \subseteq Users /\ now' \in 0..MaxNow
    BY DEF TableInv
  <2>2. RowsGo
    BY DeletesTake DEF db_delete_session, Failed
  <2> QED BY <2>1, <2>2, TableKept
<1>2. made \in Nat
  BY SessionAssumption DEF TableInv
<1>3. ConnInv'
  <2>1. CASE End(c)
    BY <1>2, <2>1, EndKeeps
  <2>2. CASE pc' = [pc EXCEPT ![c] = "find"] /\ UNCHANGED <<arg, who>>
    BY <2>2, GoesOn DEF ConnInv, Chosen
  <2> QED BY <2>1, <2>2
<1>4. Places'
  BY PlacesKept DEF Active
<1> QED
  BY <1>1, <1>3, <1>4

LEMMA FindStep ==
    ASSUME SessionInv, NEW c \in Conns, find_client(c)
    PROVE  SessionInv'
<1> USE Halves
<1> USE DEF find_client, hist, tokens
<1>1. TableInv'
  <2>1. users' \subseteq Users /\ now' \in 0..MaxNow
    BY DEF TableInv
  <2>2. RowsGo
    BY DeletesTake
  <2> QED BY <2>1, <2>2, TableKept
<1>2. made \in Nat
  BY SessionAssumption DEF TableInv
<1>3. ConnInv'
  <2>1. CASE End(c)
    BY <1>2, <2>1, EndKeeps
  <2>2. CASE /\ pc' = [pc EXCEPT ![c] = IF Online(who[c]) THEN "force" ELSE "create"]
             /\ UNCHANGED <<arg, who>>
    <3> DEFINE step == IF Online(who[c]) THEN "force" ELSE "create"
    <3>1. step \in {"force", "create"} /\ pc' = [pc EXCEPT ![c] = step]
      BY <2>2
    <3> HIDE DEF step
    <3> QED BY <2>2, <3>1, GoesOn DEF ConnInv, Chosen
  <2> QED BY <2>1, <2>2
<1>4. Places'
  BY PlacesKept DEF Active
<1> QED
  BY <1>1, <1>3, <1>4

LEMMA CreateStep ==
    ASSUME SessionInv, NEW c \in Conns, create_client(c)
    PROVE  SessionInv'
<1> USE Halves
<1> USE DEF create_client, tokens
<1>1. TableInv'
  <2>1. users' \subseteq Users /\ now' \in 0..MaxNow
    BY DEF TableInv
  <2>2. RowsGo
    BY DeletesTake
  <2> QED BY <2>1, <2>2, TableKept
<1>2. made \in Nat
  BY SessionAssumption DEF TableInv
<1>3. CASE /\ Cardinality(Active) < MaxClients
           /\ auth' = [auth EXCEPT ![c] = who[c]]
           /\ pc' = [pc EXCEPT ![c] = IF arg[c] = 0 THEN "issue" ELSE "rotate"]
           /\ UNCHANGED <<arg, who>>
  <2> DEFINE step == IF arg[c] = 0 THEN "issue" ELSE "rotate"
  <2>1. step \in {"issue", "rotate"} /\ pc' = [pc EXCEPT ![c] = step]
    BY <1>3
  <2> HIDE DEF step
  <2>2. /\ auth' \in [Conns -> Users \cup {Nobody}] /\ auth'[c] = who[c]
        /\ \A d \in Conns \ {c} : auth'[d] = auth[d]
    BY <1>3 DEF ConnInv
  <2>3. ConnInv'
    BY <1>3, <2>1, <2>2, GoesOn DEF Chosen
  <2>4. Active' \subseteq Active \cup {c}
    BY <2>2 DEF Active
  <2> QED BY <1>1, <1>3, <2>3, <2>4, OnePlaceTaken
<1>4. CASE End(c) /\ UNCHANGED <<auth, used>>
  <2>1. ConnInv'
    BY <1>2, <1>4, EndKeeps
  <2>2. Places'
    BY <1>4, PlacesKept DEF Active
  <2> QED BY <1>1, <2>1, <2>2
<1> QED
  BY <1>3, <1>4

LEMMA RotateStep ==
    ASSUME SessionInv, NEW c \in Conns, RotateDelete(c)
    PROVE  SessionInv'
<1> USE Halves
<1> USE DEF RotateDelete, hist
<1>1. TableInv'
  <2>1. users' \subseteq Users /\ now' \in 0..MaxNow
    BY DEF TableInv
  <2>2. RowsGo
    BY DeletesTake DEF db_delete_session, Failed
  <2> QED BY <2>1, <2>2, TableKept
<1>2. ConnInv'
  <2>1. auth[c] = who[c]
    BY DEF ConnInv, LoggedInAsWho
  <2> QED BY <2>1, GoesOn DEF ConnInv, Chosen
<1>3. Places'
  BY PlacesKept DEF Active
<1> QED
  BY <1>1, <1>2, <1>3

LEMMA IssueStep ==
    ASSUME SessionInv, NEW c \in Conns, Issue(c)
    PROVE  SessionInv'
<1> USE Halves
<1> USE DEF Issue, hist
<1>1. who[c] \in Users
  BY DEF ConnInv, WhoIsOwner, Chosen
<1>2. Places'
  BY PlacesKept DEF Active
<1>3. made \in Nat
  BY SessionAssumption DEF TableInv
<1>4. CASE db_create_session(who[c])
  <2>1. /\ TableInv' /\ made' \in Nat /\ made <= made'
        /\ \A t \in 1..made : owner'[t] = owner[t]
    BY <1>1, <1>4, TableGrows
  <2> USE DEF ConnInv, End, Chosen
  <2>2. /\ arg' \in [Conns -> 0..made'] /\ who' \in [Conns -> Users \cup {Nobody}]
        /\ pc' \in [Conns -> {"idle", "validate"} \cup Chosen]
    BY <1>3, <2>1
  <2>3. WhoIsOwner'
    BY <1>3, <2>1 DEF WhoIsOwner
  <2>4. LoggedInAsWho' /\ IdleHasNone'
    BY DEF LoggedInAsWho, IdleHasNone
  <2> QED BY <1>2, <2>1, <2>2, <2>3, <2>4
<1>5. CASE UNCHANGED tokens
  <2> USE <1>5 DEF tokens
  <2>1. users' \subseteq Users /\ now' \in 0..MaxNow
    BY DEF TableInv
  <2>2. RowsGo
    BY DeletesTake
  <2> QED BY <1>2, <1>3, <2>1, <2>2, TableKept, EndKeeps
<1> QED
  BY <1>4, <1>5

LEMMA LogoutStep ==
    ASSUME SessionInv, NEW c \in Conns, LOGOUT(c) \/ LOGOUT_ALL(c)
    PROVE  SessionInv'
<1> USE Halves
<1> USE DEF LOGOUT, LOGOUT_ALL, hist, tokens
<1>1. TableInv'
  <2>1. users' \subseteq Users /\ now' \in 0..MaxNow
    BY DEF TableInv
  <2>2. RowsGo
    BY DeletesTake, CleanupTakes DEF session_revoke_all
  <2> QED BY <2>1, <2>2, TableKept
<1>2. ConnInv'
  BY LogsOut
<1>3. Active' \subseteq Active
  BY DEF Active, ConnInv
<1> QED
  BY <1>1, <1>2, <1>3, PlacesKept

\* The token revoked is not in the table any more, and the others are as gone
\* as they were.
LEMMA RevokeStep ==
    ASSUME SessionInv, NEW c \in Conns, NEW t \in 1..made, REVOKE_SESSION(c, t)
    PROVE  SessionInv'
<1> USE Halves
<1> USE DEF REVOKE_SESSION, session_revoke, db_delete_session, conn
<1>1. RowsGo
  BY DeletesTake
<1>2. revoked' = revoked \cup {t} /\ t \notin DOMAIN sessions'
  BY DEF Without
<1>3. TableInv'
  BY <1>1, <1>2 DEF TableInv, RowsGo, RowsAsMade, RevokedGone
<1>4. ConnInv'
  BY DEF ConnInv, WhoIsOwner, LoggedInAsWho, IdleHasNone
<1>5. Places'
  BY PlacesKept DEF Active
<1> QED
  BY <1>3, <1>4, <1>5

LEMMA TickStep ==
    ASSUME SessionInv, Tick \/ UNCHANGED vars
    PROVE  SessionInv'
<1> USE Halves
<1> USE DEF Tick, vars, tokens, conn, hist
<1>1. TableInv'
  <2>1. users' \subseteq Users /\ now' \in 0..MaxNow
    BY SessionAssumption DEF TableInv
  <2>2. RowsGo
    BY DeletesTake
  <2> QED BY <2>1, <2>2, TableKept
<1>2. ConnInv'
  BY DEF ConnInv, WhoIsOwner, LoggedInAsWho, IdleHasNone
<1>3. Places'
  BY PlacesKept DEF Active
<1> QED
  BY <1>1, <1>2, <1>3

LEMMA RestartStep ==
    ASSUME SessionInv, Restart
    PROVE  SessionInv'
<1> USE Halves
<1> USE DEF Restart, tokens, hist
<1>1. TableInv'
  <2>1. users' \subseteq Users /\ now' \in 0..MaxNow
    BY DEF TableInv
  <2>2. RowsGo
    BY DeletesTake
  <2> QED BY <2>1, <2>2, TableKept
<1>2. made \in Nat
  BY SessionAssumption DEF TableInv
<1>3. ConnInv'
  BY <1>2 DEF ConnInv, WhoIsOwner, LoggedInAsWho, IdleHasNone, Chosen
<1>4. Active' \subseteq Active
  BY DEF Active
<1> QED
  BY <1>1, <1>3, <1>4, PlacesKept

LEMMA SessionStep == SessionInv /\ [Next]_vars => SessionInv'
<1> SUFFICES ASSUME SessionInv, [Next]_vars PROVE SessionInv'
  OBVIOUS
<1> USE DEF Next
<1> QED
  BY RegisterStep, ReconnectStep, ValidateStep, ExistsStep, FindStep, CreateStep,
     RotateStep, IssueStep, LogoutStep, RevokeStep, TickStep, RestartStep

-------------------------------------------------------------------------------
\* The invariant holds of every behaviour.
THEOREM SessionInvariant == Spec => []SessionInv
  BY InitSession, SessionStep, PTL DEF Spec

\* TokensSound: a RECONNECT logs a connection in as the user for whom the token
\* it presented was made, whatever other connections rotate, revoke or clean up
\* between its seven steps, and the client list never exceeds MAX_CLIENTS.
THEOREM TokensAreSound == Spec => []TokensSound
<1>1. SessionInv => TokensSound
  BY DEF SessionInv, TokensSound, TokenBindsUser, WhoIsOwner, LoggedInAsWho, Chosen
<1> QED
  BY <1>1, SessionInvariant, PTL

\* The check of one token.
LEMMA ValidateRefuses ==
    ASSUME SessionInv, NEW c \in Conns, [Next]_vars,
           pc[c] = "validate", pc'[c] = "exists"
    PROVE  arg[c] \notin revoked /\ now <= until[arg[c]]
<1>1. db_validate_session(c)
  BY DEF SessionInv, TypeOK, Next, vars, REGISTER, LOGIN, RECONNECT, Begin, End,
         db_validate_session, db_user_exists, find_client, create_client,
         RotateDelete, Issue, LOGOUT, LOGOUT_ALL, REVOKE_SESSION, Tick, Restart, conn
<1>2. arg[c] \in DOMAIN sessions \ Expired
  BY <1>1 DEF db_validate_session, End, SessionInv, TypeOK
<1>3. sessions[arg[c]].expires = until[arg[c]] /\ ~(sessions[arg[c]].expires < now)
  BY <1>2 DEF SessionInv, RowsAsMade, Expired
<1>4. sessions[arg[c]].expires \in Nat /\ now \in Nat
  BY <1>2, SessionAssumption DEF SessionInv, TypeOK
<1> QED
  BY <1>2, <1>3, <1>4 DEF SessionInv, RevokedGone

\* RefusedAfterEnd: a token that REVOKE_SESSION revoked, or whose lifetime is
\* over, never passes the check of db_validate_session again.
THEOREM TokensRefusedAfterEnd == Spec => RefusedAfterEnd
<1>1. SessionInv /\ [Next]_vars =>
        [\A c \in Conns : pc[c] = "validate" /\ pc'[c] = "exists" =>
            arg[c] \notin revoked /\ now <= until[arg[c]]]_vars
  BY ValidateRefuses
<1> QED
  BY <1>1, SessionInvariant, PTL DEF Spec, RefusedAfterEnd
===============================================================================
