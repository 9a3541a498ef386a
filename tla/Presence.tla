------------------------------- MODULE Presence --------------------------------
(***************************************************************************)
(* Typing indicators: src/src/presence.c, the TYPING, STOP_TYPING and      *)
(* LOGOUT commands of src/src/client_handler.c that use it, and the sweep  *)
(* of the event loop (src/src/server.c).                                   *)
(*                                                                         *)
(* presence_typing_start and presence_cleanup_stale read the clock before  *)
(* they take typing_lock, so the value they work with may be older than    *)
(* the value another thread already stored.  Both are therefore two steps. *)
(* Two connections of one user are served by two workers.                  *)
(***************************************************************************)
EXTENDS Integers, Sequences, FiniteSets

CONSTANTS Typists,               \* user names
          Workers,               \* the threads that run commands
          MAX_TYPING_USERS,
          TYPING_RATE_LIMIT_SEC,
          TYPING_DEBOUNCE_SEC,
          SweepEvery,            \* seconds between two sweeps (5)
          LoopLate,              \* how late the event loop may start a sweep
          Lag,                   \* how long a thread may wait for typing_lock
          Start, Horizon         \* first and last second that are explored

ASSUME PresenceAssumption ==
    /\ MAX_TYPING_USERS \in Nat /\ LoopLate \in Nat /\ Lag \in Nat
    /\ TYPING_RATE_LIMIT_SEC \in Nat \ {0}
    /\ TYPING_DEBOUNCE_SEC \in Nat \ {0}
    /\ SweepEvery \in Nat \ {0}
    /\ Lag < TYPING_DEBOUNCE_SEC /\ 2 * Lag <= SweepEvery
    /\ Start \in Nat \ {0} /\ Horizon \in Nat /\ Start <= Horizon

VARIABLES now,                   \* time(NULL)
          typing_states,         \* the entries in use: a sequence of records
          present,               \* users that are in a room
          call,                  \* per worker: the TYPING it is in
          last_presence_cleanup,
          sweep,                 \* where the loop is: "none", "due", "reading"
          swept_at,              \* the time presence_cleanup_stale read
          told,                  \* history: when each user's last TYPING went
                                 \* out (0: none since a stop or a sweep)
          crowded                \* history: a TYPING went out too soon after the
                                 \* one before

presenceVars == <<now, typing_states, present, call,
                  last_presence_cleanup, sweep, swept_at, told, crowded>>

NoCall == [user |-> "none", at |-> 0]

Entry(u) == [username |-> u, active |-> FALSE,
             last_typed_at |-> 0, started_at |-> 0]

PresenceInit ==
    /\ now = Start
    /\ typing_states = <<>>
    /\ present = {}
    /\ call = [w \in Workers |-> NoCall]
    /\ last_presence_cleanup = Start
    /\ sweep = "none" /\ swept_at = 0
    /\ told = [u \in Typists |-> 0] /\ crowded = FALSE

-------------------------------------------------------------------------------
(***************************************************************************)
(* The table, under typing_lock.                                           *)
(***************************************************************************)
Slots(table, u) == {i \in DOMAIN table : table[i].username = u}

\* The table once u was looked for: u has an entry, unless the table is full.
\* Entries are never given back.
find_typing_state(u) ==
    IF Slots(typing_states, u) # {} \/ Len(typing_states) = MAX_TYPING_USERS
    THEN typing_states
    ELSE Append(typing_states, Entry(u))

\* Mutant: no interval between two broadcasts.
MayBroadcast_Always(e, t) == TRUE

\* Mutant: the interval is applied to a user that stopped, too.
MayBroadcast_Strict(e, t) == t - e.last_typed_at >= TYPING_RATE_LIMIT_SEC

\* The condition under which presence_typing_start changes entry e and returns
\* 1, in a call that read time t.
MayBroadcast(e, t) ==
    ~e.active \/ t - e.last_typed_at >= TYPING_RATE_LIMIT_SEC

Started(e, t) ==
    [e EXCEPT !.active = TRUE, !.last_typed_at = t,
              !.started_at = IF e.started_at = 0 THEN t ELSE e.started_at]

\* Mutant: started_at is not cleared.
Stopped_KeepStart(e) == [e EXCEPT !.active = FALSE]

Stopped(e) == [e EXCEPT !.active = FALSE, !.started_at = 0]

-------------------------------------------------------------------------------
(***************************************************************************)
(* The commands.                                                           *)
(***************************************************************************)
\* TYPING of a user in a room reads the clock ...
TYPING(w, u) ==
    /\ call[w] = NoCall
    /\ u \in present
    /\ call' = [call EXCEPT ![w] = [user |-> u, at |-> now]]
    /\ UNCHANGED <<now, typing_states, present, last_presence_cleanup, sweep, swept_at, told, crowded>>

\* ... and then, under the lock, starts the entry or suppresses the broadcast.
presence_typing_start(w) ==
    /\ call[w] # NoCall
    /\ LET u == call[w].user
           t == call[w].at
           table == find_typing_state(u)
           go == {i \in Slots(table, u) : MayBroadcast(table[i], t)} IN
       /\ typing_states' = [i \in DOMAIN table |->
              IF i \in go THEN Started(table[i], t) ELSE table[i]]
       /\ told' = IF go = {} THEN told ELSE [told EXCEPT ![u] = now]
       /\ crowded' = (crowded \/ /\ go # {} /\ told[u] # 0
                                 /\ now - told[u] < TYPING_RATE_LIMIT_SEC - Lag)
    /\ call' = [call EXCEPT ![w] = NoCall]
    /\ UNCHANGED <<now, present, last_presence_cleanup, sweep, swept_at>>

\* An entry is made even for a user that never typed.
presence_typing_stop(u) ==
    /\ LET table == find_typing_state(u) IN
       typing_states' = [i \in DOMAIN table |->
           IF i \in Slots(table, u) THEN Stopped(table[i]) ELSE table[i]]
    /\ told' = [told EXCEPT ![u] = 0]

\* STOP_TYPING needs no room.
STOP_TYPING(w, u) ==
    /\ call[w] = NoCall
    /\ presence_typing_stop(u)
    /\ UNCHANGED <<now, present, call, last_presence_cleanup, sweep, swept_at, crowded>>

\* LOGOUT and LOGOUT_ALL leave the room and stop the indicator.
LogoutStops(w, u) ==
    /\ call[w] = NoCall
    /\ present' = present \ {u}
    /\ presence_typing_stop(u)
    /\ UNCHANGED <<now, call, last_presence_cleanup, sweep, swept_at, crowded>>

\* JOIN, CREATE and ACCEPT; LEAVE, KICK, BAN and a lost connection.  None of
\* them, and no MSG, touches the indicator.
MoveRoom(u) ==
    /\ present' = IF u \in present THEN present \ {u} ELSE present \cup {u}
    /\ UNCHANGED <<now, typing_states, call, last_presence_cleanup, sweep, swept_at, told, crowded>>

-------------------------------------------------------------------------------
(***************************************************************************)
(* The sweep of the event loop.                                            *)
(***************************************************************************)
SweepDue == now - last_presence_cleanup >= SweepEvery

\* The loop sees that the sweep is due.  The next one is counted from here.
BeginSweep ==
    /\ sweep = "none"
    /\ SweepDue
    /\ sweep' = "due"
    /\ last_presence_cleanup' = now
    /\ UNCHANGED <<now, typing_states, present, call, swept_at, told, crowded>>

\* presence_cleanup_stale reads the clock once more, ...
ReadSweepTime ==
    /\ sweep = "due"
    /\ sweep' = "reading"
    /\ swept_at' = now
    /\ UNCHANGED <<now, typing_states, present, call, last_presence_cleanup, told, crowded>>

\* Mutant: the last second of the debounce period is not stale yet.
Stale_LastSecond(e, t) == e.active /\ t - e.started_at > TYPING_DEBOUNCE_SEC

Stale(e, t) == e.active /\ t - e.started_at >= TYPING_DEBOUNCE_SEC

\* ... and under the lock stops the stale entries, silently: nothing is
\* broadcast.
presence_cleanup_stale ==
    /\ sweep = "reading"
    /\ typing_states' = [i \in DOMAIN typing_states |->
           IF Stale(typing_states[i], swept_at) THEN Stopped(typing_states[i])
                                                ELSE typing_states[i]]
    /\ told' = [u \in Typists |->
           IF \E i \in Slots(typing_states, u) : Stale(typing_states[i], swept_at)
           THEN 0 ELSE told[u]]
    /\ sweep' = "none"
    /\ swept_at' = 0
    /\ UNCHANGED <<now, present, call, last_presence_cleanup, crowded>>

\* A second passes.  The loop wakes up at least every 500 ms, so a sweep starts
\* at most LoopLate after it is due; a thread that is about to take a lock, which
\* is only ever held for a loop over the table, gets it within Lag.
Tick ==
    /\ now < Horizon
    /\ sweep = "none" => now - last_presence_cleanup < SweepEvery + LoopLate
    /\ sweep = "due" => now - last_presence_cleanup < Lag
    /\ sweep = "reading" => now - swept_at < Lag
    /\ \A w \in Workers : call[w] # NoCall => now - call[w].at < Lag
    /\ now' = now + 1
    /\ UNCHANGED <<typing_states, present, call, last_presence_cleanup,
                   sweep, swept_at, told, crowded>>

PresenceNext ==
    \/ \E w \in Workers, u \in Typists : TYPING(w, u)
    \/ \E w \in Workers : presence_typing_start(w)
    \/ \E w \in Workers, u \in Typists : STOP_TYPING(w, u)
    \/ \E w \in Workers, u \in Typists : LogoutStops(w, u)
    \/ \E u \in Typists : MoveRoom(u)
    \/ BeginSweep
    \/ ReadSweepTime
    \/ presence_cleanup_stale
    \/ Tick

PresenceSpec == PresenceInit /\ [][PresenceNext]_presenceVars

-------------------------------------------------------------------------------
(***************************************************************************)
(* Properties.                                                             *)
(***************************************************************************)
\* The type of every variable; the table (presence.c, typing_states) has at
\* most one entry for a user and never more than its capacity.
PresenceTypeOK ==
    /\ now \in Start..Horizon
    /\ typing_states \in Seq([username : Typists, active : BOOLEAN,
                              last_typed_at : 0..Horizon, started_at : 0..Horizon])
    /\ Len(typing_states) <= MAX_TYPING_USERS
    /\ \A i, j \in DOMAIN typing_states :
          typing_states[i].username = typing_states[j].username => i = j
    /\ present \subseteq Typists
    /\ call \in [Workers -> {NoCall} \cup [user : Typists, at : Start..Horizon]]
    /\ last_presence_cleanup \in Start..Horizon
    /\ sweep \in {"none", "due", "reading"} /\ swept_at \in 0..Horizon
    /\ told \in [Typists -> {0} \cup Start..Horizon] /\ crowded \in BOOLEAN

\* However starts, stops and the sweep cross, an indicator is on exactly while
\* its start is recorded, and it started no later than it was last refreshed:
\* the sweep (presence_cleanup_stale) never measures from a stopped period.
StartedWhileActive ==
    \A i \in DOMAIN typing_states :
       LET e == typing_states[i] IN
       /\ e.active <=> e.started_at # 0
       /\ e.active => e.started_at <= e.last_typed_at

\* The entries of typing_states, one for a user and in range, have their two
\* fields in agreement (find_typing_state, presence_typing_start and _stop, and
\* presence_cleanup_stale).
TypingTableSound == PresenceTypeOK /\ StartedWhileActive

\* presence.h: "After a debounce period (3s), we auto-send STOP_TYPING".  What
\* the code guarantees: nobody is shown as typing for longer than the debounce
\* period, plus the interval of the sweep, plus the delays of the threads.
StaleBound ==
    \A i \in DOMAIN typing_states :
       typing_states[i].active =>
          now - typing_states[i].started_at <=
             TYPING_DEBOUNCE_SEC - 1 + SweepEvery + LoopLate + 2 * Lag

\* presence.h: "max 1 TYPING per 2 seconds per user".  What the code guarantees:
\* two broadcasts for a user (presence_typing_start) with no stop or sweep
\* between them are that far apart, less the time a thread may wait for the lock.
TypingSpaced == ~crowded

\* A user who stopped, or was swept, is shown again at the next TYPING, at
\* once: presence_typing_start suppresses a broadcast only for a user without
\* an entry in a full table, or less than the interval after a broadcast.
SuppressedForCause ==
    [][\A w \in Workers :
          LET u == call[w].user IN
          call[w] # NoCall /\ call'[w] = NoCall /\ told'[u] # now =>
             \/ /\ Slots(typing_states, u) = {}
                /\ Len(typing_states) = MAX_TYPING_USERS
             \/ /\ told[u] # 0
                /\ call[w].at - told[u] < TYPING_RATE_LIMIT_SEC]_presenceVars
===============================================================================
