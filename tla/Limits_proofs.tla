---------------------------- MODULE Limits_proofs -----------------------------
(***************************************************************************)
(* Proofs about the typing indicators, the tables of moderation and the    *)
(* token bucket, three components that share no state.                     *)
(*                                                                         *)
(* Presence, for any number of users, workers and entries and any values   *)
(* of the intervals.  None of its properties is inductive alone.  The      *)
(* bound on how long an indicator stays on needs where the sweep is and    *)
(* how old the times it and the callers hold can be (ClockOK, CallsFresh,  *)
(* RecentlySwept); the spacing of broadcasts needs that a user was told of *)
(* exactly while the entry is on, at most Lag after the time the entry     *)
(* holds (ToldOK).                                                         *)
(*                                                                         *)
(* Moderation, for any users and any number of workers and commands.       *)
(* OwnerRemains is not inductive: DemoteWrite keeps an owner because its   *)
(* author is one and is not the user it demotes, which was checked two     *)
(* steps earlier (DemotesOK).                                              *)
(*                                                                         *)
(* RateLimit, for any burst, refill, cost and resolution.  The level of a  *)
(* bucket is at most what each interval has left and equals it for one     *)
(* (LevelOK); both move alike when time passes and when a charge is paid.  *)
(***************************************************************************)
EXTENDS Presence, RateLimit, Moderation, SequenceTheorems, TLAPS

(***************************** Typing indicators ***************************)

EntryType == [username : Typists, active : BOOLEAN,
              last_typed_at : 0..Horizon, started_at : 0..Horizon]

\* The conjuncts of PresenceTypeOK that concern the table.
Table(s) ==
    /\ s \in Seq(EntryType)
    /\ Len(s) <= MAX_TYPING_USERS
    /\ \A i, j \in DOMAIN s : s[i].username = s[j].username => i = j

\* The conjuncts that do not.
RestOK ==
    /\ now \in Start..Horizon
    /\ present \subseteq Typists
    /\ call \in [Workers -> {NoCall} \cup [user : Typists, at : Start..Horizon]]
    /\ last_presence_cleanup \in Start..Horizon
    /\ sweep \in {"none", "due", "reading"} /\ swept_at \in 0..Horizon
    /\ told \in [Typists -> {0} \cup Start..Horizon] /\ crowded \in BOOLEAN

\* A caller read the clock at most Lag ago.
CallsFresh ==
    \A w \in Workers : call[w] # NoCall =>
       call[w].at <= now /\ now <= call[w].at + Lag

\* How far the sweep is behind, in each of its phases.
ClockOK ==
    /\ last_presence_cleanup <= now
    /\ sweep = "none" => now <= last_presence_cleanup + SweepEvery + LoopLate
    /\ sweep = "due" => now <= last_presence_cleanup + Lag
    /\ sweep = "reading" =>
          /\ last_presence_cleanup <= swept_at
          /\ swept_at <= last_presence_cleanup + Lag
          /\ swept_at <= now /\ now <= swept_at + Lag

\* The oldest start that the sweep has left behind.
Oldest ==
    IF sweep = "none" THEN last_presence_cleanup - TYPING_DEBOUNCE_SEC + 1
    ELSE last_presence_cleanup - SweepEvery - LoopLate - TYPING_DEBOUNCE_SEC + 1

EntryOK(e) ==
    /\ e.active <=> e.started_at # 0
    /\ e.active => /\ e.started_at <= e.last_typed_at
                   /\ Oldest <= e.started_at
                   /\ e.last_typed_at <= told[e.username]
                   /\ told[e.username] <= now
                   /\ told[e.username] <= e.last_typed_at + Lag
    /\ e.active <=> told[e.username] # 0

\* Every entry is in order, and nobody without an entry was told of.
EntriesOK ==
    /\ \A i \in DOMAIN typing_states : EntryOK(typing_states[i])
    /\ \A u \in Typists : Slots(typing_states, u) = {} => told[u] = 0

\* The inductive invariant.
PresenceInv ==
    /\ Table(typing_states) /\ RestOK
    /\ CallsFresh /\ ClockOK /\ EntriesOK /\ TypingSpaced

-------------------------------------------------------------------------------
(***************************************************************************)
(* The table.                                                              *)
(***************************************************************************)
\* A table written entry by entry is a sequence of the same length.
LEMMA Rewritten ==
    ASSUME NEW s \in Seq(EntryType), NEW t,
           t = [i \in DOMAIN s |-> t[i]],
           \A i \in DOMAIN s : t[i] \in EntryType
    PROVE  t \in Seq(EntryType) /\ DOMAIN t = DOMAIN s /\ Len(t) = Len(s)
  <1>1. Len(s) \in Nat /\ DOMAIN s = 1..Len(s)
    OBVIOUS
  <1>2. t \in [1..Len(s) -> EntryType]
    BY <1>1
  <1>3. t \in Seq(EntryType)
    BY <1>1, <1>2, SeqDef
  <1>4. DOMAIN t = DOMAIN s
    BY <1>1, <1>2
  <1> QED
    BY <1>1, <1>3, <1>4

\* find_typing_state leaves the entries there are, adds at most an idle one for
\* the user looked for, and fails to only when the table is full.
LEMMA Found ==
    ASSUME PresenceAssumption, Table(typing_states), NEW u \in Typists, Horizon \in Nat
    PROVE  /\ Table(find_typing_state(u))
           /\ DOMAIN typing_states \subseteq DOMAIN find_typing_state(u)
           /\ \A i \in DOMAIN find_typing_state(u) :
                 \/ /\ i \in DOMAIN typing_states
                    /\ find_typing_state(u)[i] = typing_states[i]
                 \/ /\ i \notin DOMAIN typing_states
                    /\ find_typing_state(u)[i] = Entry(u)
                    /\ Slots(typing_states, u) = {}
           /\ Slots(find_typing_state(u), u) = {} =>
                 /\ Slots(typing_states, u) = {}
                 /\ Len(typing_states) = MAX_TYPING_USERS
                 /\ find_typing_state(u) = typing_states
  <1> DEFINE s == typing_states
             n == Len(s)
  <1>0. s \in Seq(EntryType) /\ n \in Nat /\ DOMAIN s = 1..n
        /\ MAX_TYPING_USERS \in Nat /\ n <= MAX_TYPING_USERS
    BY DEF Table, PresenceAssumption
  <1>1. CASE Slots(s, u) # {} \/ n = MAX_TYPING_USERS
    BY <1>1 DEF find_typing_state, Table, Slots
  <1>2. CASE Slots(s, u) = {} /\ n # MAX_TYPING_USERS
    <2> DEFINE t == Append(s, Entry(u))
    <2>1. find_typing_state(u) = t
      BY <1>2 DEF find_typing_state
    <2>2. Entry(u) \in EntryType /\ Entry(u).username = u
      BY DEF Entry, EntryType
    <2>3. /\ t \in Seq(EntryType) /\ Len(t) = n + 1 /\ DOMAIN t = 1..(n + 1)
          /\ \A i \in 1..n : t[i] = s[i]
          /\ t[n + 1] = Entry(u)
      BY <1>0, <2>2, AppendProperties
    <2> HIDE DEF t
    <2>4. \A i \in 1..n : s[i].username # u
      BY <1>0, <1>2 DEF Slots
    <2>5. ASSUME NEW i \in DOMAIN t, NEW j \in DOMAIN t, t[i].username = t[j].username
          PROVE  i = j
      <3>1. i \in 1..n \/ i = n + 1
        BY <1>0, <2>3
      <3>2. j \in 1..n \/ j = n + 1
        BY <1>0, <2>3
      <3> QED
        BY <1>0, <2>2, <2>3, <2>4, <2>5, <3>1, <3>2 DEF Table
    <2>6. Len(t) <= MAX_TYPING_USERS
      <3>1. n # MAX_TYPING_USERS
        BY <1>2
      <3> HIDE DEF n, s
      <3> QED
        BY <1>0, <2>3, <3>1
    <2>7. Table(t)
      BY <2>3, <2>5, <2>6 DEF Table
    <2>8. n + 1 \in Slots(t, u)
      BY <1>0, <2>2, <2>3 DEF Slots
    <2>9. \A i \in DOMAIN t : \/ i \in DOMAIN s /\ t[i] = s[i]
                              \/ i \notin DOMAIN s /\ t[i] = Entry(u)
      BY <1>0, <2>3
    <2>10. DOMAIN s \subseteq DOMAIN t
      BY <1>0, <2>3
    <2> QED
      BY <1>2, <2>1, <2>7, <2>8, <2>9, <2>10
  <1> QED
    BY <1>1, <1>2

\* Rewriting entries without touching the names keeps a table a table.
LEMMA SameNames ==
    ASSUME NEW s, Table(s), NEW t,
           t = [i \in DOMAIN s |-> t[i]],
           \A i \in DOMAIN s : t[i] \in EntryType /\ t[i].username = s[i].username
    PROVE  Table(t) /\ DOMAIN t = DOMAIN s
  <1>1. s \in Seq(EntryType) /\ Len(s) <= MAX_TYPING_USERS
    BY DEF Table
  <1>2. t \in Seq(EntryType) /\ DOMAIN t = DOMAIN s /\ Len(t) = Len(s)
    BY <1>1, Rewritten
  <1>3. \A i, j \in DOMAIN t : t[i].username = t[j].username => i = j
    BY <1>2 DEF Table
  <1> QED
    BY <1>1, <1>2, <1>3 DEF Table

\* What an entry of a table is, and that changing its state keeps it one.
LEMMA EntryFacts ==
    ASSUME NEW e \in EntryType, NEW t \in 0..Horizon, PresenceAssumption
    PROVE  /\ e.username \in Typists /\ e.active \in BOOLEAN
           /\ e.last_typed_at \in 0..Horizon /\ e.started_at \in 0..Horizon
           /\ Stopped(e) \in EntryType
           /\ Stopped(e).username = e.username
           /\ ~Stopped(e).active /\ Stopped(e).started_at = 0
           /\ Started(e, t) \in EntryType
           /\ Started(e, t).username = e.username
           /\ Started(e, t).active
           /\ Started(e, t).last_typed_at = t
           /\ Started(e, t).started_at = IF e.started_at = 0 THEN t ELSE e.started_at
  <1>1. /\ e.username \in Typists /\ e.active \in BOOLEAN
        /\ e.last_typed_at \in 0..Horizon /\ e.started_at \in 0..Horizon
    BY DEF EntryType
  <1>2. /\ Stopped(e).username = e.username
        /\ ~Stopped(e).active /\ Stopped(e).started_at = 0
    BY DEF EntryType, Stopped
  <1>3. /\ Started(e, t).username = e.username
        /\ Started(e, t).active /\ Started(e, t).last_typed_at = t
        /\ Started(e, t).started_at = IF e.started_at = 0 THEN t ELSE e.started_at
    BY DEF EntryType, Started
  <1>4. 0 \in 0..Horizon
    BY DEF PresenceAssumption
  <1>5. (IF e.started_at = 0 THEN t ELSE e.started_at) \in 0..Horizon
    BY <1>1
  <1>6. Stopped(e) \in EntryType
    BY <1>4 DEF EntryType, Stopped
  <1>7. Started(e, t) \in EntryType
    BY <1>5 DEF EntryType, Started
  <1> QED
    BY <1>1, <1>2, <1>3, <1>6, <1>7

-------------------------------------------------------------------------------
(***************************************************************************)
(* The invariant holds and is kept by every step.                          *)
(***************************************************************************)
LEMMA PresenceInitInv == PresenceInit => PresenceInv
  <1> SUFFICES ASSUME PresenceInit PROVE PresenceInv
    OBVIOUS
  <1> USE PresenceAssumption DEF PresenceAssumption
  <1>1. typing_states = <<>>
    BY DEF PresenceInit
  <1>2. Table(typing_states)
    BY <1>1 DEF Table
  <1>3. EntriesOK
    BY <1>1 DEF EntriesOK, PresenceInit
  <1>4. RestOK
    <2>1. now \in Start..Horizon /\ last_presence_cleanup \in Start..Horizon
          /\ swept_at \in 0..Horizon
      BY DEF PresenceInit
    <2>2. call \in [Workers -> {NoCall} \cup [user : Typists, at : Start..Horizon]]
      BY DEF PresenceInit
    <2>3. told \in [Typists -> {0} \cup Start..Horizon]
      BY DEF PresenceInit
    <2> QED
      BY <2>1, <2>2, <2>3 DEF RestOK, PresenceInit
  <1>5. CallsFresh /\ ClockOK
    BY DEF CallsFresh, ClockOK, PresenceInit
  <1> QED
    BY <1>2, <1>3, <1>4, <1>5 DEF PresenceInv, TypingSpaced, PresenceInit

\* The part of the invariant that looks at the table and at who was told only.
LEMMA TableUnchanged ==
    ASSUME PresenceInv, UNCHANGED <<typing_states, told>>, Oldest' <= Oldest, now <= now',
           Oldest \in Int, Oldest' \in Int, now \in Int, now' \in Int
    PROVE  Table(typing_states)' /\ EntriesOK'
  <1>1. Table(typing_states)'
    BY DEF PresenceInv, Table
  <1>2. ASSUME NEW i \in DOMAIN typing_states
        PROVE  EntryOK(typing_states[i])'
    <2> DEFINE e == typing_states[i]
    <2>1. EntryOK(e)
      BY DEF PresenceInv, EntriesOK
    <2>2. e \in EntryType
      BY DEF PresenceInv, Table
    <2>3. e.username \in Typists /\ e.started_at \in Int
      BY <2>2, PresenceAssumption DEF EntryType, PresenceAssumption
    <2>4. told \in [Typists -> Int]
      BY PresenceAssumption DEF PresenceInv, RestOK, PresenceAssumption
    <2>5. told[e.username] \in Int
      BY <2>3, <2>4
    <2>6. typing_states'[i] = e /\ told'[e.username] = told[e.username]
      OBVIOUS
    <2>7. e.active => Oldest' <= e.started_at /\ told[e.username] <= now'
      BY <2>1, <2>3, <2>5 DEF EntryOK
    <2> HIDE DEF e
    <2> QED
      BY <2>1, <2>6, <2>7 DEF EntryOK
  <1> QED
    BY <1>1, <1>2 DEF PresenceInv, EntriesOK, Slots

\* The variables are of their types, as integers.
LEMMA Numbers ==
    ASSUME PresenceInv
    PROVE  /\ now \in Int /\ last_presence_cleanup \in Int /\ swept_at \in Int
           /\ Oldest \in Int
           /\ \A u \in Typists : told[u] \in Int
           /\ SweepEvery \in Nat /\ LoopLate \in Nat /\ Lag \in Nat
           /\ TYPING_DEBOUNCE_SEC \in Nat /\ TYPING_RATE_LIMIT_SEC \in Nat
           /\ Lag < TYPING_DEBOUNCE_SEC /\ Lag + Lag <= SweepEvery /\ 0 < Start /\ Start \in Nat /\ Horizon \in Nat
  <1> USE PresenceAssumption DEF PresenceAssumption
  <1>1. now \in Int /\ last_presence_cleanup \in Int /\ swept_at \in Int
    BY DEF PresenceInv, RestOK
  <1>2. Oldest \in Int
    BY <1>1 DEF Oldest
  <1>3. told \in [Typists -> Int]
    BY DEF PresenceInv, RestOK
  <1>4. \A u \in Typists : told[u] \in Int
    BY <1>3
  <1>5. Lag + Lag <= SweepEvery
    OBVIOUS
  <1> QED
    BY <1>1, <1>2, <1>4, <1>5

\* A call in progress has a user and the time it read.
LEMMA CallFacts ==
    ASSUME PresenceInv, NEW w \in Workers, call[w] # NoCall
    PROVE  /\ call[w].user \in Typists /\ call[w].at \in 1..Horizon
           /\ call[w].at <= now /\ now <= call[w].at + Lag
  <1>1. call[w] \in [user : Typists, at : Start..Horizon]
    BY DEF PresenceInv, RestOK
  <1>2. call[w].user \in Typists /\ call[w].at \in Start..Horizon
    BY <1>1
  <1>3. call[w].at \in 1..Horizon
    BY <1>2, Numbers
  <1> QED
    BY <1>2, <1>3 DEF PresenceInv, CallsFresh

\* Once u was looked for, the entries are in order as before.
LEMMA FoundOK ==
    ASSUME PresenceInv, NEW u \in Typists
    PROVE  /\ \A i \in DOMAIN find_typing_state(u) : EntryOK(find_typing_state(u)[i])
           /\ \A v \in Typists : Slots(find_typing_state(u), v) = {} =>
                 Slots(typing_states, v) = {}
  <1> DEFINE t == find_typing_state(u)
  <1>1. /\ Table(t) /\ DOMAIN typing_states \subseteq DOMAIN t
        /\ \A i \in DOMAIN t :
              \/ i \in DOMAIN typing_states /\ t[i] = typing_states[i]
              \/ /\ i \notin DOMAIN typing_states /\ t[i] = Entry(u)
                 /\ Slots(typing_states, u) = {}
    BY Found, Numbers, PresenceAssumption DEF PresenceInv
  <1> HIDE DEF t
  <1>2. ASSUME NEW i \in DOMAIN t PROVE EntryOK(t[i])
    <2>1. CASE i \in DOMAIN typing_states /\ t[i] = typing_states[i]
      BY <2>1 DEF PresenceInv, EntriesOK
    <2>2. CASE t[i] = Entry(u) /\ Slots(typing_states, u) = {}
      <3>1. told[u] = 0
        BY <2>2 DEF PresenceInv, EntriesOK
      <3>2. Entry(u).username = u /\ ~Entry(u).active /\ Entry(u).started_at = 0
        BY DEF Entry
      <3> QED
        BY <2>2, <3>1, <3>2 DEF EntryOK
    <2> QED
      BY <1>1, <2>1, <2>2
  <1>3. ASSUME NEW v \in Typists, Slots(t, v) = {} PROVE Slots(typing_states, v) = {}
    <2> SUFFICES ASSUME NEW i \in Slots(typing_states, v) PROVE FALSE
      OBVIOUS
    <2>1. i \in DOMAIN typing_states /\ typing_states[i].username = v
      BY DEF Slots
    <2>2. i \in DOMAIN t /\ t[i] = typing_states[i]
      BY <1>1, <2>1
    <2> QED
      BY <1>3, <2>1, <2>2 DEF Slots
  <1> QED
    BY <1>2, <1>3 DEF t

\* What a start writes is in order: it takes the time the call read, which is
\* recent enough for the sweep.
LEMMA StartedOK ==
    ASSUME PresenceInv, NEW e \in EntryType, NEW t \in 1..Horizon,
           EntryOK(e), MayBroadcast(e, t), t <= now, now <= t + Lag,
           UNCHANGED <<now, sweep, last_presence_cleanup>>, told'[e.username] = now
    PROVE  EntryOK(Started(e, t))'
  <1> DEFINE d == Started(e, t)
  <1>1. /\ e.started_at \in Int /\ e.last_typed_at \in Int
        /\ d.username = e.username /\ d.active /\ d.last_typed_at = t
        /\ d.started_at = IF e.started_at = 0 THEN t ELSE e.started_at
        /\ t \in Int /\ t > 0
    <2>1. t \in 0..Horizon /\ t \in Int /\ t > 0
      BY Numbers
    <2>2. e.started_at \in 0..Horizon /\ e.last_typed_at \in 0..Horizon
      BY <2>1, EntryFacts, PresenceAssumption
    <2>3. /\ d.username = e.username /\ d.active /\ d.last_typed_at = t
          /\ d.started_at = IF e.started_at = 0 THEN t ELSE e.started_at
      BY <2>1, EntryFacts, PresenceAssumption
    <2> HIDE DEF d
    <2> QED
      BY <2>1, <2>2, <2>3, Numbers
  <1> HIDE DEF d
  <1>2. Oldest' = Oldest
    BY DEF Oldest
  <1>3. CASE e.started_at = 0
    <2>1. Oldest <= last_presence_cleanup - TYPING_DEBOUNCE_SEC + 1
      BY Numbers DEF Oldest
    <2>2. Oldest <= t
      BY <1>1, <2>1, Numbers DEF PresenceInv, ClockOK
    <2>3. d.started_at = t /\ now # 0
      BY <1>1, <1>3, Numbers
    <2> QED
      BY <1>1, <1>2, <2>2, <2>3, Numbers DEF EntryOK, d
  <1>4. CASE e.started_at # 0
    <2>1. e.active /\ e.started_at <= e.last_typed_at /\ Oldest <= e.started_at
      BY <1>4 DEF EntryOK
    <2>2. e.last_typed_at <= t
      BY <1>1, <2>1, Numbers DEF MayBroadcast
    <2>3. d.started_at = e.started_at /\ d.started_at <= t /\ now # 0
      BY <1>1, <1>4, <2>1, <2>2, Numbers
    <2> QED
      BY <1>1, <1>2, <1>4, <2>1, <2>3, Numbers DEF EntryOK, d
  <1> QED
    BY <1>3, <1>4

\* presence_typing_start keeps the invariant, and no broadcast is too early.
LEMMA StartStep ==
    ASSUME PresenceInv, NEW w \in Workers, presence_typing_start(w)
    PROVE  PresenceInv'
  <1> DEFINE u == call[w].user
             t == call[w].at
             s == find_typing_state(u)
             go == {i \in Slots(s, u) : MayBroadcast(s[i], t)}
  <1>1. call[w] # NoCall
    BY DEF presence_typing_start
  <1>2. u \in Typists /\ t \in 1..Horizon /\ t <= now /\ now <= t + Lag
    BY <1>1, CallFacts
  <1>3. /\ typing_states' = [i \in DOMAIN s |-> IF i \in go THEN Started(s[i], t) ELSE s[i]]
        /\ told' = IF go = {} THEN told ELSE [told EXCEPT ![u] = now]
        /\ crowded' = (crowded \/ /\ go # {} /\ told[u] # 0
                                  /\ now - told[u] < TYPING_RATE_LIMIT_SEC - Lag)
        /\ call' = [call EXCEPT ![w] = NoCall]
        /\ UNCHANGED <<now, present, last_presence_cleanup, sweep, swept_at>>
    BY DEF presence_typing_start
  <1>4. Table(s)
    BY <1>2, Found, Numbers, PresenceAssumption DEF PresenceInv
  <1>5. \A i \in DOMAIN s : EntryOK(s[i])
    BY <1>2, FoundOK
  <1>6. \A v \in Typists : Slots(s, v) = {} => Slots(typing_states, v) = {}
    BY <1>2, FoundOK
  <1>7. \A i \in go : i \in DOMAIN s /\ s[i].username = u /\ MayBroadcast(s[i], t)
    BY DEF Slots
  <1>8. \A i \in DOMAIN s : s[i].username = u /\ i \notin go => go = {}
    BY <1>4, <1>7 DEF Table
  <1>9. t \in 0..Horizon /\ t \in Int
    BY <1>2, Numbers
  <1>10. \A i \in DOMAIN s : s[i] \in EntryType
    BY <1>4 DEF Table
  <1>11. told \in [Typists -> {0} \cup Start..Horizon] /\ now \in Start..Horizon
    BY DEF PresenceInv, RestOK
  <1>12. /\ \A v \in Typists : v # u => told'[v] = told[v]
         /\ go = {} => told' = told
         /\ go # {} => told'[u] = now
         /\ told' \in [Typists -> {0} \cup Start..Horizon]
    BY <1>2, <1>3, <1>11
  <1> HIDE DEF s, go, u, t
  <1>13. Table(typing_states)' /\ DOMAIN typing_states' = DOMAIN s
    <2>1. \A i \in DOMAIN s : /\ typing_states'[i] \in EntryType
                              /\ typing_states'[i].username = s[i].username
      BY <1>3, <1>9, <1>10, EntryFacts, PresenceAssumption
    <2>2. typing_states' = [i \in DOMAIN s |-> typing_states'[i]]
      BY <1>3
    <2> QED
      BY <1>4, <2>1, <2>2, SameNames
  <1>14. ASSUME NEW i \in DOMAIN s PROVE EntryOK(typing_states[i])'
    <2>0. s[i] \in EntryType /\ EntryOK(s[i]) /\ s[i].username \in Typists
      BY <1>5, <1>9, <1>10, EntryFacts, PresenceAssumption
    <2>1. CASE i \in go
      <3>1. typing_states'[i] = Started(s[i], t)
        BY <1>3, <2>1
      <3>2. MayBroadcast(s[i], t) /\ told'[s[i].username] = now
        BY <1>7, <1>12, <2>1
      <3>3. PICK e, c : e = s[i] /\ c = t
        OBVIOUS
      <3>4. EntryOK(Started(e, c))'
        BY <1>2, <1>3, <2>0, <3>2, <3>3, StartedOK
      <3>5. typing_states'[i] = Started(e, c)
        BY <3>1, <3>3
      <3> QED
        BY <3>4, <3>5
    <2>2. CASE i \notin go
      <3>1. typing_states'[i] = s[i]
        BY <1>3, <2>2
      <3>2. told'[s[i].username] = told[s[i].username]
        BY <1>8, <1>12, <2>0, <2>2
      <3>3. Oldest' = Oldest /\ now' = now
        BY <1>3 DEF Oldest
      <3> QED
        BY <2>0, <3>1, <3>2, <3>3 DEF EntryOK
    <2> QED
      BY <2>1, <2>2
  <1>15. ASSUME NEW v \in Typists, Slots(typing_states, v)' = {} PROVE told'[v] = 0
    <2>1. \A i \in DOMAIN s : typing_states'[i].username = s[i].username
      BY <1>3, <1>9, <1>10, EntryFacts, PresenceAssumption
    <2>2. Slots(s, v) = {}
      BY <1>13, <1>15, <2>1 DEF Slots
    <2>3. told[v] = 0
      BY <1>6, <2>2 DEF PresenceInv, EntriesOK
    <2>4. v = u => go = {}
      BY <1>7, <2>2 DEF Slots
    <2> QED
      BY <1>12, <2>3, <2>4
  <1>16. EntriesOK'
    BY <1>13, <1>14, <1>15 DEF EntriesOK
  <1>17. TypingSpaced'
    <2> SUFFICES ASSUME go # {}, told[u] # 0
                 PROVE  ~(now - told[u] < TYPING_RATE_LIMIT_SEC - Lag)
      BY <1>3 DEF TypingSpaced, PresenceInv
    <2>1. PICK i \in go : TRUE
      OBVIOUS
    <2>2. i \in DOMAIN s /\ s[i].username = u /\ MayBroadcast(s[i], t) /\ EntryOK(s[i])
      BY <1>5, <1>7, <2>1
    <2>3. s[i].active /\ told[u] <= s[i].last_typed_at + Lag
      BY <2>2 DEF EntryOK
    <2>4. s[i].last_typed_at \in Int
      <3>1. s[i].last_typed_at \in 0..Horizon
        BY <1>9, <1>10, <2>2, EntryFacts, PresenceAssumption
      <3> QED
        BY <3>1, Numbers
    <2>5. t - s[i].last_typed_at >= TYPING_RATE_LIMIT_SEC
      BY <2>2, <2>3 DEF MayBroadcast
    <2> QED
      BY <1>2, <1>9, <2>3, <2>4, <2>5, Numbers
  <1>18. call' \in [Workers -> {NoCall} \cup [user : Typists, at : Start..Horizon]]
    BY <1>3 DEF PresenceInv, RestOK
  <1>19. RestOK'
    <2>1. crowded' \in BOOLEAN
      BY <1>3
    <2> QED
      BY <1>3, <1>12, <1>18, <2>1 DEF PresenceInv, RestOK
  <1>20. CallsFresh'
    BY <1>3 DEF PresenceInv, CallsFresh, RestOK
  <1>21. ClockOK'
    BY <1>3 DEF PresenceInv, ClockOK
  <1> QED
    BY <1>13, <1>16, <1>17, <1>19, <1>20, <1>21 DEF PresenceInv

\* A stop of a user, whoever asks for it, leaves table and history in order.
LEMMA StopStep ==
    ASSUME PresenceInv, NEW u \in Typists, presence_typing_stop(u),
           UNCHANGED <<now, sweep, last_presence_cleanup>>
    PROVE  /\ Table(typing_states)' /\ EntriesOK'
           /\ told' \in [Typists -> {0} \cup Start..Horizon]
  <1> DEFINE s == find_typing_state(u)
  <1>1. /\ typing_states' = [i \in DOMAIN s |->
              IF i \in Slots(s, u) THEN Stopped(s[i]) ELSE s[i]]
        /\ told' = [told EXCEPT ![u] = 0]
    BY DEF presence_typing_stop
  <1>2. Table(s)
    BY Found, Numbers, PresenceAssumption DEF PresenceInv
  <1>3. /\ \A i \in DOMAIN s : EntryOK(s[i])
        /\ \A v \in Typists : Slots(s, v) = {} => Slots(typing_states, v) = {}
    BY FoundOK
  <1>4. told \in [Typists -> {0} \cup Start..Horizon]
    BY DEF PresenceInv, RestOK
  <1>5. /\ told' \in [Typists -> {0} \cup Start..Horizon]
        /\ told'[u] = 0
        /\ \A v \in Typists : v # u => told'[v] = told[v]
    BY <1>1, <1>4
  <1>6. \A i \in DOMAIN s : s[i] \in EntryType
    BY <1>2 DEF Table
  <1> HIDE DEF s
  <1>7. 0 \in 0..Horizon
    BY Numbers
  <1>8. \A i \in DOMAIN s : /\ typing_states'[i] \in EntryType
                            /\ typing_states'[i].username = s[i].username
    BY <1>1, <1>6, <1>7, EntryFacts, PresenceAssumption
  <1>9. Table(typing_states)' /\ DOMAIN typing_states' = DOMAIN s
    <2>1. typing_states' = [i \in DOMAIN s |-> typing_states'[i]]
      BY <1>1
    <2> QED
      BY <1>2, <1>8, <2>1, SameNames
  <1>10. ASSUME NEW i \in DOMAIN s PROVE EntryOK(typing_states[i])'
    <2>0. PICK e : e = s[i]
      OBVIOUS
    <2>1. e \in EntryType /\ EntryOK(e) /\ e.username \in Typists
      BY <1>3, <1>6, <1>7, <2>0, EntryFacts, PresenceAssumption
    <2>2. CASE i \in Slots(s, u)
      <3>1. typing_states'[i] = Stopped(e) /\ e.username = u
        BY <1>1, <2>0, <2>2 DEF Slots
      <3>2. /\ Stopped(e).username = u /\ ~Stopped(e).active
            /\ Stopped(e).started_at = 0
        BY <1>7, <2>1, <3>1, EntryFacts, PresenceAssumption
      <3>3. EntryOK(Stopped(e))'
        BY <1>5, <3>2 DEF EntryOK
      <3> QED
        BY <3>1, <3>3
    <2>3. CASE i \notin Slots(s, u)
      <3>1. typing_states'[i] = e /\ e.username # u
        BY <1>1, <2>0, <2>3 DEF Slots
      <3>2. told'[e.username] = told[e.username] /\ Oldest' = Oldest
        BY <1>5, <2>1, <3>1 DEF Oldest
      <3> QED
        BY <2>1, <3>1, <3>2 DEF EntryOK
    <2> QED
      BY <2>2, <2>3
  <1>11. ASSUME NEW v \in Typists, Slots(typing_states, v)' = {} PROVE told'[v] = 0
    <2>1. Slots(s, v) = {}
      BY <1>8, <1>9, <1>11 DEF Slots
    <2>2. told[v] = 0
      BY <1>3, <2>1 DEF PresenceInv, EntriesOK
    <2> QED
      BY <1>5, <2>2
  <1> QED
    BY <1>5, <1>9, <1>10, <1>11 DEF EntriesOK

\* The sweep keeps the invariant: what it leaves on started less than the
\* debounce period before the time it read.
LEMMA SweepStep ==
    ASSUME PresenceInv, presence_cleanup_stale
    PROVE  PresenceInv'
  <1> DEFINE s == typing_states
             gone == {i \in DOMAIN s : Stale(s[i], swept_at)}
  <1>1. /\ sweep = "reading" /\ sweep' = "none" /\ swept_at' = 0
        /\ typing_states' = [i \in DOMAIN s |-> IF i \in gone THEN Stopped(s[i]) ELSE s[i]]
        /\ told' = [u \in Typists |-> IF \E i \in Slots(s, u) : i \in gone THEN 0 ELSE told[u]]
        /\ UNCHANGED <<now, present, call, last_presence_cleanup, crowded>>
    BY DEF presence_cleanup_stale, Slots
  <1>2. /\ Table(s) /\ \A i \in DOMAIN s : s[i] \in EntryType /\ EntryOK(s[i])
        /\ \A i, j \in DOMAIN s : s[i].username = s[j].username => i = j
    BY DEF PresenceInv, Table, EntriesOK
  <1>3. told \in [Typists -> {0} \cup Start..Horizon]
    BY DEF PresenceInv, RestOK
  <1>4. told' \in [Typists -> {0} \cup Start..Horizon]
    BY <1>1, <1>3
  <1>5. 0 \in 0..Horizon
    BY Numbers
  <1>6. \A i \in gone : i \in DOMAIN s /\ Stale(s[i], swept_at)
    OBVIOUS
  <1>7. \A i \in DOMAIN s : i \notin gone => ~Stale(s[i], swept_at)
    OBVIOUS
  <1>8. \A i \in DOMAIN s : i \in Slots(s, s[i].username)
    BY DEF Slots
  <1>9. \A i \in DOMAIN s : \A j \in Slots(s, s[i].username) : j = i
    BY <1>2 DEF Slots
  <1>10. \A i \in DOMAIN s : s[i].username \in Typists
    BY <1>2, <1>5, EntryFacts, PresenceAssumption
  <1>11. \A i \in DOMAIN s :
            told'[s[i].username] = IF i \in gone THEN 0 ELSE told[s[i].username]
    BY <1>1, <1>8, <1>9, <1>10
  <1>12. \A i \in DOMAIN s : /\ typing_states'[i] \in EntryType
                             /\ typing_states'[i].username = s[i].username
    BY <1>1, <1>2, <1>5, EntryFacts, PresenceAssumption
  <1>13. Table(typing_states)' /\ DOMAIN typing_states' = DOMAIN s
    <2>1. typing_states' = [i \in DOMAIN s |-> typing_states'[i]]
      BY <1>1
    <2> HIDE DEF s
    <2> QED
      BY <1>2, <1>12, <2>1, SameNames
  <1>14. /\ Oldest' = last_presence_cleanup - TYPING_DEBOUNCE_SEC + 1
         /\ last_presence_cleanup <= swept_at /\ now <= last_presence_cleanup + Lag + Lag
    BY <1>1, Numbers DEF Oldest, PresenceInv, ClockOK
  <1> HIDE DEF gone
  <1>15. ASSUME NEW i \in DOMAIN s PROVE EntryOK(typing_states[i])'
    <2>0. PICK e : e = s[i]
      OBVIOUS
    <2>1. e \in EntryType /\ EntryOK(e) /\ e.username \in Typists
      BY <1>2, <1>10, <2>0
    <2>2. CASE i \in gone
      <3>1. typing_states'[i] = Stopped(e) /\ told'[e.username] = 0
        BY <1>1, <1>11, <2>0, <2>2
      <3>2. /\ Stopped(e).username = e.username /\ ~Stopped(e).active
            /\ Stopped(e).started_at = 0
        BY <1>5, <2>1, EntryFacts, PresenceAssumption
      <3>3. EntryOK(Stopped(e))'
        BY <3>1, <3>2 DEF EntryOK
      <3> QED
        BY <3>1, <3>3
    <2>3. CASE i \notin gone
      <3>1. typing_states'[i] = e /\ told'[e.username] = told[e.username]
        BY <1>1, <1>11, <2>0, <2>3
      <3>2. e.active => swept_at - e.started_at < TYPING_DEBOUNCE_SEC
        <4>1. e.started_at \in 0..Horizon
          BY <1>5, <2>1, EntryFacts, PresenceAssumption
        <4>2. ~Stale(e, swept_at)
          BY <1>7, <2>0, <2>3
        <4> QED
          BY <4>1, <4>2, Numbers DEF Stale
      <3>3. e.active => Oldest' <= e.started_at
        <4>1. e.started_at \in 0..Horizon
          BY <1>5, <2>1, EntryFacts, PresenceAssumption
        <4> QED
          BY <1>14, <3>2, <4>1, Numbers
      <3> QED
        BY <1>1, <2>1, <3>1, <3>3 DEF EntryOK
    <2> QED
      BY <2>2, <2>3
  <1>16. ASSUME NEW v \in Typists, Slots(typing_states, v)' = {} PROVE told'[v] = 0
    <2>1. Slots(s, v) = {}
      BY <1>12, <1>13, <1>16 DEF Slots
    <2>2. told[v] = 0
      BY <2>1 DEF PresenceInv, EntriesOK
    <2> QED
      BY <1>1, <2>2
  <1>17. EntriesOK'
    BY <1>13, <1>15, <1>16 DEF EntriesOK
  <1>18. RestOK'
    BY <1>1, <1>4, <1>5 DEF PresenceInv, RestOK
  <1>19. CallsFresh' /\ TypingSpaced'
    BY <1>1 DEF PresenceInv, CallsFresh, TypingSpaced
  <1>20. ClockOK'
    BY <1>1, <1>14, Numbers DEF PresenceInv, ClockOK
  <1> QED
    BY <1>13, <1>17, <1>18, <1>19, <1>20 DEF PresenceInv

\* Every step keeps the invariant.
LEMMA PresenceNextInv ==
    ASSUME PresenceInv, [PresenceNext]_presenceVars
    PROVE  PresenceInv'
  <1> DEFINE Calls == [Workers -> {NoCall} \cup [user : Typists, at : Start..Horizon]]
  <1>0. call \in Calls /\ now \in Start..Horizon
    BY DEF PresenceInv, RestOK
  <1>1. ASSUME NEW w \in Workers, NEW u \in Typists, TYPING(w, u)
        PROVE  PresenceInv'
    <2>1. /\ call' = [call EXCEPT ![w] = [user |-> u, at |-> now]]
          /\ UNCHANGED <<now, typing_states, present, last_presence_cleanup, sweep,
                         swept_at, told, crowded>>
      BY <1>1 DEF TYPING
    <2>2. Table(typing_states)' /\ EntriesOK'
      <3>1. Oldest' = Oldest
        BY <2>1 DEF Oldest
      <3> QED
        BY <2>1, <3>1, Numbers, TableUnchanged
    <2>3. call' \in Calls
      BY <1>0, <2>1
    <2>4. RestOK'
      BY <2>1, <2>3 DEF PresenceInv, RestOK
    <2>5. CallsFresh'
      BY <1>0, <2>1, Numbers DEF PresenceInv, CallsFresh
    <2>6. ClockOK' /\ TypingSpaced'
      BY <2>1 DEF PresenceInv, ClockOK, TypingSpaced
    <2> QED
      BY <2>2, <2>4, <2>5, <2>6 DEF PresenceInv
  <1>2. ASSUME NEW w \in Workers, presence_typing_start(w)
        PROVE  PresenceInv'
    BY <1>2, StartStep
  <1>3. ASSUME NEW w \in Workers, NEW u \in Typists, STOP_TYPING(w, u) \/ LogoutStops(w, u)
        PROVE  PresenceInv'
    <2>1. /\ presence_typing_stop(u)
          /\ present' \subseteq Typists
          /\ UNCHANGED <<now, call, last_presence_cleanup, sweep, swept_at, crowded>>
      BY <1>3 DEF STOP_TYPING, LogoutStops, PresenceInv, RestOK
    <2>2. /\ Table(typing_states)' /\ EntriesOK'
          /\ told' \in [Typists -> {0} \cup Start..Horizon]
      BY <2>1, StopStep
    <2>3. RestOK'
      BY <2>1, <2>2 DEF PresenceInv, RestOK
    <2>4. CallsFresh' /\ ClockOK' /\ TypingSpaced'
      BY <2>1 DEF PresenceInv, CallsFresh, ClockOK, TypingSpaced
    <2> QED
      BY <2>2, <2>3, <2>4 DEF PresenceInv
  <1>4. ASSUME NEW u \in Typists, MoveRoom(u)
        PROVE  PresenceInv'
    <2>1. /\ present' \subseteq Typists
          /\ UNCHANGED <<now, typing_states, call, last_presence_cleanup, sweep,
                         swept_at, told, crowded>>
      BY <1>4 DEF MoveRoom, PresenceInv, RestOK
    <2>2. Table(typing_states)' /\ EntriesOK'
      <3>1. Oldest' = Oldest
        BY <2>1 DEF Oldest
      <3> QED
        BY <2>1, <3>1, Numbers, TableUnchanged
    <2>3. RestOK' /\ CallsFresh' /\ ClockOK' /\ TypingSpaced'
      BY <2>1 DEF PresenceInv, RestOK, CallsFresh, ClockOK, TypingSpaced
    <2> QED
      BY <2>2, <2>3 DEF PresenceInv
  <1>5. ASSUME BeginSweep
        PROVE  PresenceInv'
    <2>1. /\ sweep = "none" /\ sweep' = "due" /\ last_presence_cleanup' = now
          /\ UNCHANGED <<now, typing_states, present, call, swept_at, told, crowded>>
      BY <1>5 DEF BeginSweep
    <2>2. now <= last_presence_cleanup + SweepEvery + LoopLate
      BY <2>1 DEF PresenceInv, ClockOK
    <2>3. Oldest' <= Oldest /\ Oldest' \in Int
      BY <2>1, <2>2, Numbers DEF Oldest
    <2>4. Table(typing_states)' /\ EntriesOK'
      BY <2>1, <2>3, Numbers, TableUnchanged
    <2>5. RestOK' /\ CallsFresh' /\ TypingSpaced'
      BY <1>0, <2>1 DEF PresenceInv, RestOK, CallsFresh, TypingSpaced
    <2>6. ClockOK'
      BY <2>1, Numbers DEF ClockOK
    <2> QED
      BY <2>4, <2>5, <2>6 DEF PresenceInv
  <1>6. ASSUME ReadSweepTime
        PROVE  PresenceInv'
    <2>1. /\ sweep = "due" /\ sweep' = "reading" /\ swept_at' = now
          /\ UNCHANGED <<now, typing_states, present, call, last_presence_cleanup,
                         told, crowded>>
      BY <1>6 DEF ReadSweepTime
    <2>2. Oldest' = Oldest
      BY <2>1 DEF Oldest
    <2>3. Table(typing_states)' /\ EntriesOK'
      BY <2>1, <2>2, Numbers, TableUnchanged
    <2>4. swept_at' \in 0..Horizon
      BY <1>0, <2>1, Numbers
    <2>5. RestOK' /\ CallsFresh' /\ TypingSpaced'
      BY <2>1, <2>4 DEF PresenceInv, RestOK, CallsFresh, TypingSpaced
    <2>6. ClockOK'
      BY <2>1, Numbers DEF PresenceInv, ClockOK
    <2> QED
      BY <2>3, <2>5, <2>6 DEF PresenceInv
  <1>7. ASSUME Tick
        PROVE  PresenceInv'
    <2>1. /\ now < Horizon /\ now' = now + 1
          /\ sweep = "none" => now - last_presence_cleanup < SweepEvery + LoopLate
          /\ sweep = "due" => now - last_presence_cleanup < Lag
          /\ sweep = "reading" => now - swept_at < Lag
          /\ \A w \in Workers : call[w] # NoCall => now - call[w].at < Lag
          /\ UNCHANGED <<typing_states, present, call, last_presence_cleanup,
                         sweep, swept_at, told, crowded>>
      BY <1>7 DEF Tick
    <2>2. Oldest' = Oldest /\ now' \in Start..Horizon
      BY <1>0, <2>1, Numbers DEF Oldest
    <2>3. Table(typing_states)' /\ EntriesOK'
      BY <2>1, <2>2, Numbers, TableUnchanged
    <2>4. RestOK' /\ TypingSpaced'
      BY <2>1, <2>2 DEF PresenceInv, RestOK, TypingSpaced
    <2>5. CallsFresh'
      <3> SUFFICES ASSUME NEW w \in Workers, call[w] # NoCall
                   PROVE  call[w].at <= now + 1 /\ now + 1 <= call[w].at + Lag
        BY <2>1 DEF CallsFresh
      <3>1. call[w].at \in Int /\ call[w].at <= now
        BY CallFacts, Numbers
      <3> QED
        BY <2>1, <3>1, Numbers
    <2>6. ClockOK'
      BY <2>1, Numbers DEF PresenceInv, ClockOK
    <2> QED
      BY <2>3, <2>4, <2>5, <2>6 DEF PresenceInv
  <1>8. CASE UNCHANGED presenceVars
    <2>1. UNCHANGED <<now, typing_states, present, call, last_presence_cleanup, sweep,
                      swept_at, told, crowded>>
      BY <1>8 DEF presenceVars
    <2>2. Oldest' = Oldest
      BY <2>1 DEF Oldest
    <2>3. Table(typing_states)' /\ EntriesOK'
      BY <2>1, <2>2, Numbers, TableUnchanged
    <2>4. RestOK' /\ CallsFresh' /\ ClockOK' /\ TypingSpaced'
      BY <2>1 DEF PresenceInv, RestOK, CallsFresh, ClockOK, TypingSpaced
    <2> QED
      BY <2>3, <2>4 DEF PresenceInv
  <1> QED
    BY <1>1, <1>2, <1>3, <1>4, <1>5, <1>6, <1>7, <1>8, SweepStep DEF PresenceNext

-------------------------------------------------------------------------------
(***************************************************************************)
(* What follows for every behaviour.                                       *)
(***************************************************************************)
LEMMA PresenceAlways == PresenceSpec => []PresenceInv
  BY PresenceInitInv, PresenceNextInv, PTL DEF PresenceSpec

\* The table of typing_states never overflows and never has two entries for one
\* user, every variable is of its type, and an indicator is on exactly while its
\* start is recorded (presence_typing_start, presence_typing_stop,
\* presence_cleanup_stale).
THEOREM TableSound == PresenceSpec => []TypingTableSound
  <1>1. PresenceInv => PresenceTypeOK
    BY DEF PresenceInv, Table, RestOK, PresenceTypeOK, EntryType
  <1>2. PresenceInv => StartedWhileActive
    BY DEF PresenceInv, EntriesOK, EntryOK, StartedWhileActive
  <1>3. PresenceInv => TypingTableSound
    BY <1>1, <1>2 DEF TypingTableSound
  <1> QED
    BY <1>3, PresenceAlways, PTL

\* No indicator outlives the debounce period by more than the interval of the
\* sweep and the delays of the threads.
THEOREM IndicatorExpires == PresenceSpec => []StaleBound
  <1>1. ASSUME PresenceInv PROVE StaleBound
    <2> SUFFICES ASSUME NEW i \in DOMAIN typing_states, typing_states[i].active
                 PROVE  now - typing_states[i].started_at <=
                           TYPING_DEBOUNCE_SEC - 1 + SweepEvery + LoopLate + 2 * Lag
      BY DEF StaleBound
    <2>1. typing_states[i] \in EntryType /\ 0 \in 0..Horizon
      BY <1>1, Numbers DEF PresenceInv, Table
    <2>2. typing_states[i].started_at \in 0..Horizon
      BY <2>1, EntryFacts, PresenceAssumption
    <2>3. Oldest <= typing_states[i].started_at
      BY <1>1 DEF PresenceInv, EntriesOK, EntryOK
    <2>4. now <= Oldest + TYPING_DEBOUNCE_SEC - 1 + SweepEvery + LoopLate + Lag + Lag
      <3>1. sweep \in {"none", "due", "reading"}
        BY <1>1 DEF PresenceInv, RestOK
      <3> QED
        BY <1>1, <3>1, Numbers DEF PresenceInv, ClockOK, Oldest
    <2> QED
      BY <1>1, <2>2, <2>3, <2>4, Numbers
  <1> QED
    BY <1>1, PresenceAlways, PTL

\* Two TYPING broadcasts for a user with no stop between them are at least the
\* rate limit apart, less the time a thread may wait for the lock.
THEOREM BroadcastsSpaced == PresenceSpec => []TypingSpaced
  BY PresenceAlways, PTL DEF PresenceInv

\* presence_typing_start suppresses a broadcast only when the table is full or
\* the last one is recent.
THEOREM SuppressionHasCause == PresenceSpec => SuppressedForCause
  <1> DEFINE Cause(w) ==
        LET u == call[w].user IN
        call[w] # NoCall /\ call'[w] = NoCall /\ told'[u] # now =>
           \/ /\ Slots(typing_states, u) = {}
              /\ Len(typing_states) = MAX_TYPING_USERS
           \/ /\ told[u] # 0
              /\ call[w].at - told[u] < TYPING_RATE_LIMIT_SEC
  <1>1. ASSUME PresenceInv, [PresenceNext]_presenceVars, NEW w \in Workers
        PROVE  Cause(w)
    <2> SUFFICES ASSUME call[w] # NoCall, call'[w] = NoCall, told'[call[w].user] # now
                 PROVE  Cause(w)
      OBVIOUS
    <2> USE <1>1
    <2>0. call \in [Workers -> {NoCall} \cup [user : Typists, at : Start..Horizon]]
          /\ told \in [Typists -> {0} \cup Start..Horizon]
      BY DEF PresenceInv, RestOK
    <2>1. presence_typing_start(w)
      <3>1. ASSUME NEW v \in Workers, NEW u \in Typists, TYPING(v, u) PROVE FALSE
        <4>1. call' = [call EXCEPT ![v] = [user |-> u, at |-> now]]
          BY <3>1 DEF TYPING
        <4>2. [user |-> u, at |-> now] # NoCall
          <5>1. [user |-> u, at |-> now].at # NoCall.at
            BY Numbers DEF PresenceInv, RestOK, NoCall
          <5> QED
            BY <5>1
        <4> QED
          BY <2>0, <4>1, <4>2
      <3>2. ASSUME NEW v \in Workers, presence_typing_start(v) PROVE v = w
        <4>1. call' = [call EXCEPT ![v] = NoCall]
          BY <3>2 DEF presence_typing_start
        <4> QED
          BY <2>0, <4>1
      <3>3. call' # call
        OBVIOUS
      <3> QED
        BY <3>1, <3>2, <3>3 DEF PresenceNext, presenceVars, STOP_TYPING, LogoutStops,
           MoveRoom, BeginSweep, ReadSweepTime, presence_cleanup_stale, Tick
    <2> DEFINE u == call[w].user
               t == call[w].at
               s == find_typing_state(u)
               go == {i \in Slots(s, u) : MayBroadcast(s[i], t)}
    <2>2. u \in Typists /\ t \in 1..Horizon
      BY CallFacts
    <2>3. go = {}
      <3>1. told' = IF go = {} THEN told ELSE [told EXCEPT ![u] = now]
        BY <2>1 DEF presence_typing_start
      <3> QED
        BY <2>0, <2>2, <3>1
    <2>4. CASE Slots(s, u) = {}
      BY <2>2, <2>4, Found, Numbers, PresenceAssumption DEF PresenceInv
    <2>5. CASE Slots(s, u) # {}
      <3>1. PICK i \in DOMAIN s : s[i].username = u /\ ~MayBroadcast(s[i], t)
        BY <2>3, <2>5 DEF Slots
      <3>2. EntryOK(s[i])
        BY <2>2, FoundOK
      <3>3. Table(s)
        BY <2>2, Found, Numbers, PresenceAssumption DEF PresenceInv
      <3>4. s[i] \in EntryType /\ 0 \in 0..Horizon
        BY <3>3, Numbers DEF Table
      <3>5. s[i].last_typed_at \in 0..Horizon
        BY <3>4, EntryFacts, PresenceAssumption
      <3>6. s[i].active /\ ~(t - s[i].last_typed_at >= TYPING_RATE_LIMIT_SEC)
        BY <3>1 DEF MayBroadcast
      <3>7. told[u] # 0 /\ s[i].last_typed_at <= told[u]
        BY <3>1, <3>2, <3>6 DEF EntryOK
      <3> HIDE DEF s, t, u
      <3>8. t - told[u] < TYPING_RATE_LIMIT_SEC
        BY <2>2, <3>5, <3>6, <3>7, Numbers
      <3> QED
        BY <3>7, <3>8 DEF t, u
    <2> QED
      BY <2>4, <2>5
  <1>2. PresenceInv /\ [PresenceNext]_presenceVars => [\A w \in Workers : Cause(w)]_presenceVars
    BY <1>1
  <1> QED
    BY <1>2, PresenceAlways, PTL DEF PresenceSpec, SuppressedForCause

(******************************** Moderation *******************************)

\* A DEMOTE that got past its checks is of somebody else, and one that has read a
\* role has read that of a creator.
DemotesOK ==
    \A w \in Threads :
       /\ task[w].cmd \in {"demote", "lower"} => task[w].by # task[w].on
       /\ task[w].cmd = "lower" => task[w].on \in creators

\* The inductive invariant.
ModerationInv == ModerationTypeOK /\ DemotesOK /\ OwnerRemains /\ InvitedOnce

-------------------------------------------------------------------------------
LEMMA ModerationInitInv == ModerationInit => ModerationInv
  <1> SUFFICES ASSUME ModerationInit PROVE ModerationInv
    OBVIOUS
  <1> USE DEF ModerationInit
  <1>1. ModerationTypeOK
    <2>1. roles \in [People -> Member..Owner]
      BY DEF Member, Owner
    <2>2. task \in [Threads -> Tasks]
      BY DEF Tasks
    <2>3. \A u \in People : roles[u] > Member => u \in creators
      <3> SUFFICES ASSUME NEW u \in People, roles[u] > Member PROVE FALSE
        OBVIOUS
      <3>1. roles[u] = 0 /\ Member = 0
        BY DEF Member
      <3> HIDE DEF ModerationInit
      <3> QED
        BY <3>1
    <2>4. invited \in [People -> Nat] /\ entered \in [People -> Nat]
      OBVIOUS
    <2>5. /\ bans \subseteq People /\ mutes \subseteq People /\ invites \subseteq People
          /\ blocks \subseteq People \X People /\ receipts \subseteq People
          /\ creators \subseteq People /\ loose \subseteq People
      OBVIOUS
    <2>6. commands \in 0..MaxCommands
      BY ModerationAssumption DEF ModerationAssumption
    <2>7. overtaken \in BOOLEAN
      OBVIOUS
    <2> HIDE DEF ModerationInit
    <2> QED
      BY <2>1, <2>2, <2>3, <2>4, <2>5, <2>6, <2>7 DEF ModerationTypeOK
  <1>2. DemotesOK
    BY DEF DemotesOK, Idle
  <1> QED
    BY <1>1, <1>2 DEF ModerationInv, OwnerRemains, InvitedOnce

\* The fields of a task that is under way.
LEMMA TaskFields ==
    ASSUME NEW t \in Tasks
    PROVE  /\ t.cmd \in {"demote", "mute", "ban", "invite", "lower"} =>
                 t.by \in People /\ t.on \in People
           /\ t.cmd = "accept" => t.on \in People
           /\ t.cmd = "lower" => /\ t.seen \in (Member + 1)..Owner
                                 /\ t.stale \in BOOLEAN
                                 /\ [t EXCEPT !.stale = TRUE] \in Tasks
                                 /\ [t EXCEPT !.stale = TRUE].cmd = "lower"
                                 /\ [t EXCEPT !.stale = TRUE].by = t.by
                                 /\ [t EXCEPT !.stale = TRUE].on = t.on
  <1>1. CASE t = Idle
    BY <1>1 DEF Idle
  <1>2. CASE t \in [cmd : {"demote", "mute", "ban", "invite"}, by : People, on : People]
    BY <1>2
  <1>3. CASE t \in [cmd : {"accept"}, on : People]
    BY <1>3
  <1>4. CASE t \in [cmd : {"lower"}, by : People, on : People,
                    seen : (Member + 1)..Owner, stale : BOOLEAN]
    <2>1. [t EXCEPT !.stale = TRUE] \in
             [cmd : {"lower"}, by : People, on : People,
              seen : (Member + 1)..Owner, stale : BOOLEAN]
      BY <1>4
    <2> QED
      BY <1>4, <2>1 DEF Tasks
  <1> QED
    BY <1>1, <1>2, <1>3, <1>4 DEF Tasks

\* A worker that takes a command, or ends one, leaves the tables alone.
LEMMA TaskStep ==
    ASSUME ModerationInv, NEW w \in Threads, NEW t \in Tasks,
           t.cmd \in {"demote", "lower"} => t.by # t.on,
           t.cmd = "lower" => t.on \in creators,
           task' = [task EXCEPT ![w] = t], commands' \in 0..MaxCommands,
           UNCHANGED <<tables, memory>>
    PROVE  ModerationInv'
  <1>1. task' \in [Threads -> Tasks]
    BY DEF ModerationInv, ModerationTypeOK
  <1>2. ModerationTypeOK'
    BY <1>1 DEF ModerationInv, ModerationTypeOK, tables, memory
  <1>3. DemotesOK'
    BY DEF ModerationInv, ModerationTypeOK, DemotesOK, memory
  <1> QED
    BY <1>2, <1>3 DEF ModerationInv, OwnerRemains, InvitedOnce, tables, memory

\* What a write to a role does to the tasks of the others.
LEMMA Outdated ==
    ASSUME ModerationInv, NEW w \in Threads, NEW u \in People, Outdate(w, u), creators \subseteq creators'
    PROVE  task' \in [Threads -> Tasks] /\ DemotesOK'
  <1>1. task \in [Threads -> Tasks] /\ DemotesOK
    BY DEF ModerationInv, ModerationTypeOK
  <1>2. Idle \in Tasks /\ Idle.cmd = "none"
    BY DEF Tasks, Idle
  <1>3. task' = [x \in Threads |-> task'[x]]
    BY DEF Outdate
  <1>4. ASSUME NEW x \in Threads
        PROVE  /\ task'[x] \in Tasks
               /\ task'[x].cmd \in {"demote", "lower"} => task'[x].by # task'[x].on
               /\ task'[x].cmd = "lower" => task'[x].on \in creators'
    <2>1. PICK t : t = task[x]
      OBVIOUS
    <2>2. /\ t \in Tasks
          /\ t.cmd \in {"demote", "lower"} => t.by # t.on
          /\ t.cmd = "lower" => t.on \in creators'
      BY <1>1, <2>1 DEF DemotesOK
    <2>3. CASE task'[x] = Idle
      BY <1>2, <2>3
    <2>4. CASE t.cmd = "lower" /\ task'[x] = [t EXCEPT !.stale = TRUE]
      BY <2>2, <2>4, TaskFields
    <2>5. CASE task'[x] = t
      BY <2>2, <2>5
    <2> QED
      BY <2>1, <2>3, <2>4, <2>5 DEF Outdate
  <1>5. task' \in [Threads -> Tasks]
    BY <1>3, <1>4
  <1> QED
    BY <1>4, <1>5 DEF DemotesOK

\* DemoteWrite: the author is not the one demoted, so an owner is left, or the
\* author had lost the role.
LEMMA DemoteStep ==
    ASSUME ModerationInv, NEW w \in Threads, DemoteWrite(w)
    PROVE  ModerationInv'
  <1> DEFINE u == task[w].on
             a == task[w].by
             r == task[w].seen
  <1>1. task[w] \in Tasks /\ task[w].cmd = "lower" /\ a # u /\ u \in creators
    BY DEF ModerationInv, ModerationTypeOK, DemotesOK, DemoteWrite, Running
  <1>2. u \in People /\ a \in People /\ r \in (Member + 1)..Owner
    BY <1>1, TaskFields
  <1>3. /\ roles' = [roles EXCEPT ![u] = r - 1] \/ roles' = roles
        /\ Outdate(w, u)
        /\ overtaken' = (overtaken \/ roles[a] # Owner)
        /\ UNCHANGED <<bans, mutes, invites, blocks, receipts, commands, creators,
                       invited, entered, loose>>
    BY DEF DemoteWrite, permission_set_role
  <1>4. task' \in [Threads -> Tasks] /\ DemotesOK'
    BY <1>2, <1>3, Outdated
  <1>5. roles \in [People -> Member..Owner] /\ overtaken \in BOOLEAN
    BY DEF ModerationInv, ModerationTypeOK
  <1>6. overtaken' \in BOOLEAN
    BY <1>3
  <1>7. /\ roles' \in [People -> Member..Owner]
        /\ \A v \in People : v # u => roles'[v] = roles[v]
        /\ roles'[u] = r - 1 \/ roles'[u] = roles[u]
    BY <1>2, <1>3, <1>5 DEF Member, Owner
  <1> HIDE DEF u, a, r
  <1>8. \A v \in People : roles'[v] > Member => v \in creators'
    BY <1>1, <1>3, <1>7 DEF ModerationInv, ModerationTypeOK
  <1>9. ModerationTypeOK'
    BY <1>3, <1>4, <1>6, <1>7, <1>8 DEF ModerationInv, ModerationTypeOK
  <1>10. OwnerRemains'
    <2> SUFFICES ASSUME creators' # {}, ~overtaken' PROVE \E v \in People : roles'[v] = Owner
      BY DEF OwnerRemains
    <2>1. roles[a] = Owner
      BY <1>3
    <2> QED
      BY <1>1, <1>2, <1>7, <2>1
  <1>11. InvitedOnce'
    BY <1>3 DEF ModerationInv, InvitedOnce
  <1> QED
    BY <1>4, <1>9, <1>10, <1>11 DEF ModerationInv

\* CREATE_PRIVATE makes an owner, or fails and changes nothing.
LEMMA CreateStep ==
    ASSUME ModerationInv, NEW w \in Threads, NEW u \in People, CREATE_PRIVATE(w, u)
    PROVE  ModerationInv'
  <1>1. /\ roles' = [roles EXCEPT ![u] = Owner] \/ roles' = roles
        /\ creators' = IF roles'[u] = Owner THEN creators \cup {u} ELSE creators
        /\ Outdate(w, u)
        /\ commands < MaxCommands /\ commands' = commands + 1
        /\ UNCHANGED <<bans, mutes, invites, blocks, receipts, overtaken, invited,
                       entered, loose>>
    BY DEF CREATE_PRIVATE, permission_set_role
  <1>2. task' \in [Threads -> Tasks] /\ DemotesOK'
    BY <1>1, Outdated
  <1>3. roles \in [People -> Member..Owner] /\ Owner \in Member..Owner
    BY DEF ModerationInv, ModerationTypeOK, Member, Owner
  <1>4. /\ roles' \in [People -> Member..Owner]
        /\ \A v \in People : \/ roles'[v] = roles[v]
                             \/ v \in creators' /\ roles'[v] = Owner
    <2>1. CASE roles' = roles
      BY <1>3, <2>1
    <2>2. CASE roles' = [roles EXCEPT ![u] = Owner]
      <3>1. roles'[u] = Owner /\ \A v \in People : v # u => roles'[v] = roles[v]
        BY <1>3, <2>2
      <3>2. u \in creators'
        BY <1>1, <3>1
      <3> QED
        BY <1>3, <2>2, <3>1, <3>2
    <2> QED
      BY <1>1, <2>1, <2>2
  <1>5. commands' \in 0..MaxCommands
    BY <1>1, ModerationAssumption DEF ModerationInv, ModerationTypeOK, ModerationAssumption
  <1>6. \A v \in People : roles'[v] > Member => v \in creators'
    BY <1>1, <1>4 DEF ModerationInv, ModerationTypeOK
  <1>7. ModerationTypeOK'
    BY <1>1, <1>2, <1>4, <1>5, <1>6 DEF ModerationInv, ModerationTypeOK
  <1>8. OwnerRemains'
    BY <1>1, <1>4 DEF ModerationInv, OwnerRemains
  <1>9. InvitedOnce'
    BY <1>1 DEF ModerationInv, InvitedOnce
  <1> QED
    BY <1>2, <1>7, <1>8, <1>9 DEF ModerationInv

\* A step that touches neither roles nor invitations.
LEMMA OtherTables ==
    ASSUME ModerationInv, bans' \subseteq People, mutes' \subseteq People,
           blocks' \subseteq People \X People, receipts' \subseteq People,
           \A w \in Threads : task'[w] = task[w] \/ task'[w] = Idle,
           task' \in [Threads -> Tasks],
           UNCHANGED <<roles, invites, commands, memory>>
    PROVE  ModerationInv'
  <1>1. ModerationTypeOK'
    BY DEF ModerationInv, ModerationTypeOK, memory
  <1>2. DemotesOK'
    BY DEF ModerationInv, DemotesOK, Idle, memory
  <1> QED
    BY <1>1, <1>2 DEF ModerationInv, OwnerRemains, InvitedOnce, memory

\* A step that changes the invitations of one user, u.
LEMMA InviteTable ==
    ASSUME ModerationInv, NEW u \in People, NEW i \in {0, 1}, NEW e \in {0, 1},
           invites' = invites \/ invites' = invites \cup {u} \/ invites' = invites \ {u},
           invited' = [invited EXCEPT ![u] = @ + i],
           entered' = [entered EXCEPT ![u] = @ + e],
           loose' = loose \/ loose' = loose \cup {u},
           u \in loose' \/ e + (IF u \in invites' THEN 1 ELSE 0)
                             <= i + (IF u \in invites THEN 1 ELSE 0),
           \A w \in Threads : task'[w] = task[w] \/ task'[w] = Idle,
           task' \in [Threads -> Tasks],
           UNCHANGED <<roles, bans, mutes, blocks, receipts, commands, creators, overtaken>>
    PROVE  ModerationInv'
  <1>1. invited \in [People -> Nat] /\ entered \in [People -> Nat]
    BY DEF ModerationInv, ModerationTypeOK
  <1>2. /\ invited' \in [People -> Nat] /\ entered' \in [People -> Nat]
        /\ invited'[u] = invited[u] + i /\ entered'[u] = entered[u] + e
        /\ \A v \in People : v # u => invited'[v] = invited[v] /\ entered'[v] = entered[v]
    BY <1>1
  <1>3. ModerationTypeOK'
    BY <1>2 DEF ModerationInv, ModerationTypeOK
  <1>4. DemotesOK'
    BY DEF ModerationInv, DemotesOK, Idle
  <1>5. OwnerRemains'
    BY DEF ModerationInv, OwnerRemains
  <1>6. ASSUME NEW v \in People \ loose'
        PROVE  entered'[v] + (IF v \in invites' THEN 1 ELSE 0) <= invited'[v]
    <2>1. entered[v] + (IF v \in invites THEN 1 ELSE 0) <= invited[v]
      BY DEF ModerationInv, InvitedOnce
    <2>2. entered[v] \in Nat /\ invited[v] \in Nat
      BY <1>1
    <2>3. CASE v = u
      BY <1>2, <2>1, <2>2, <2>3
    <2>4. CASE v # u
      BY <1>2, <2>1, <2>2, <2>4
    <2> QED
      BY <2>3, <2>4
  <1> QED
    BY <1>3, <1>4, <1>5, <1>6 DEF ModerationInv, InvitedOnce

\* Every step keeps the invariant.
LEMMA ModerationNextInv ==
    ASSUME ModerationInv, [ModerationNext]_moderationVars
    PROVE  ModerationInv'
  <1>0. task \in [Threads -> Tasks] /\ Idle \in Tasks /\ Idle.cmd = "none"
    BY DEF ModerationInv, ModerationTypeOK, Tasks, Idle
  <1>1. ASSUME NEW w \in Threads, NEW t \in Tasks, Take(w, t),
               t.cmd = "demote" => t.by # t.on, t.cmd # "lower"
        PROVE  ModerationInv'
    <2>1. /\ commands < MaxCommands /\ commands' = commands + 1
          /\ task' = [task EXCEPT ![w] = t]
          /\ UNCHANGED <<tables, memory>>
      BY <1>1 DEF Take
    <2>2. commands' \in 0..MaxCommands
      BY <2>1, ModerationAssumption
         DEF ModerationInv, ModerationTypeOK, ModerationAssumption
    <2> QED
      BY <1>1, <2>1, <2>2, TaskStep
  <1>2. ASSUME NEW w \in Threads, NEW u \in People, NEW v \in People,
               DEMOTE(w, u, v) \/ MUTE(w, u, v) \/ BAN(w, u, v) \/ INVITE(w, u, v)
        PROVE  ModerationInv'
    <2>1. PICK c \in {"demote", "mute", "ban", "invite"} :
             Take(w, [cmd |-> c, by |-> u, on |-> v]) /\ (c = "demote" => u # v)
      BY <1>2 DEF DEMOTE, MUTE, BAN, INVITE
    <2>2. [cmd |-> c, by |-> u, on |-> v] \in Tasks
      BY DEF Tasks
    <2> QED
      BY <1>1, <2>1, <2>2
  <1>3. ASSUME NEW w \in Threads, NEW u \in People, ACCEPT(w, u)
        PROVE  ModerationInv'
    <2>1. [cmd |-> "accept", on |-> u] \in Tasks
      BY DEF Tasks
    <2> QED
      BY <1>1, <1>3, <2>1 DEF ACCEPT
  <1>4. ASSUME NEW w \in Threads, DemoteRead(w)
        PROVE  ModerationInv'
    <2>1. task[w] \in Tasks /\ task[w].cmd = "demote" /\ task[w].by # task[w].on
      BY <1>0, <1>4 DEF DemoteRead, Running, ModerationInv, DemotesOK
    <2>2. task[w].by \in People /\ task[w].on \in People
      BY <2>1, TaskFields
    <2>3. PICK r \in permission_get_role(task[w].on) :
             task' = [task EXCEPT ![w] =
                IF r <= Member THEN Idle
                ELSE [cmd |-> "lower", by |-> task[w].by, on |-> task[w].on,
                      seen |-> r, stale |-> FALSE]]
      BY <1>4 DEF DemoteRead
    <2>4. r \in Member..Owner /\ (r > Member => task[w].on \in creators)
      <3>1. r = roles[task[w].on] \/ r = Member
        BY <2>3 DEF permission_get_role
      <3> QED
        BY <2>2, <3>1 DEF ModerationInv, ModerationTypeOK, Member, Owner
    <2>5. UNCHANGED <<tables, memory>> /\ commands' \in 0..MaxCommands
      BY <1>4 DEF DemoteRead, ModerationInv, ModerationTypeOK
    <2>6. CASE r <= Member
      BY <1>0, <2>3, <2>5, <2>6, TaskStep
    <2>7. CASE ~(r <= Member)
      <3>1. r \in (Member + 1)..Owner /\ r > Member
        BY <2>4, <2>7 DEF Member, Owner
      <3>2. PICK t : t = [cmd |-> "lower", by |-> task[w].by, on |-> task[w].on,
                          seen |-> r, stale |-> FALSE]
        OBVIOUS
      <3>3. t \in Tasks
        BY <2>2, <3>1, <3>2 DEF Tasks
      <3>4. t.cmd = "lower" /\ t.by # t.on /\ t.on \in creators
        BY <2>1, <2>4, <3>1, <3>2
      <3>5. task' = [task EXCEPT ![w] = t]
        BY <2>3, <2>7, <3>2
      <3> QED
        BY <2>5, <3>3, <3>4, <3>5, TaskStep
    <2> QED
      BY <2>6, <2>7
  <1>5. ASSUME NEW w \in Threads, MuteAdd(w) \/ BanAdd(w)
        PROVE  ModerationInv'
    <2>1. task[w] \in Tasks /\ task[w].on \in People
      BY <1>0, <1>5, TaskFields DEF MuteAdd, BanAdd, Running
    <2>2. /\ mutes' \subseteq People /\ bans' \subseteq People
          /\ UNCHANGED <<roles, invites, blocks, receipts, commands, memory>>
          /\ Done(w)
      BY <1>5, <2>1 DEF MuteAdd, BanAdd, Insert, ModerationInv, ModerationTypeOK
    <2>3. /\ task' \in [Threads -> Tasks]
          /\ \A x \in Threads : task'[x] = task[x] \/ task'[x] = Idle
      BY <1>0, <2>2 DEF Done
    <2>4. blocks' \subseteq People \X People /\ receipts' \subseteq People
      BY <2>2 DEF ModerationInv, ModerationTypeOK
    <2> QED
      BY <2>2, <2>3, <2>4, OtherTables
  <1>6. ASSUME NEW u \in People, NEW v \in People,
               UNMUTE(u) \/ BLOCK(u, v) \/ UNBLOCK(u, v) \/ READ(u)
        PROVE  ModerationInv'
    <2>1. /\ mutes' \subseteq People /\ bans' \subseteq People
          /\ blocks' \subseteq People \X People /\ receipts' \subseteq People
          /\ UNCHANGED <<roles, invites, task, commands, memory>>
      BY <1>6 DEF UNMUTE, BLOCK, UNBLOCK, READ, Insert, Remove, ModerationInv,
         ModerationTypeOK
    <2> QED
      BY <1>0, <2>1, OtherTables
  <1>7. ASSUME NEW w \in Threads, invite_create(w)
        PROVE  ModerationInv'
    <2> DEFINE u == task[w].on
    <2>1. u \in People
      BY <1>0, <1>7, TaskFields DEF invite_create, Running
    <2>2. PICK i \in {0, 1} :
             /\ i = IF invites' = invites THEN 0 ELSE 1
             /\ invited' = [invited EXCEPT ![u] = @ + i]
      <3>1. invited \in [People -> Nat]
        BY DEF ModerationInv, ModerationTypeOK
      <3>2. CASE invites' = invites
        <4>1. invited' = [invited EXCEPT ![u] = invited[u]]
          BY <1>7, <3>2 DEF invite_create
        <4>2. invited[u] + 0 = invited[u]
          BY <2>1, <3>1
        <4>3. invited' = [invited EXCEPT ![u] = invited[u] + 0]
          BY <4>1, <4>2
        <4> QED
          BY <3>2, <4>3
      <3>3. CASE invites' # invites
        BY <1>7, <3>3 DEF invite_create
      <3> QED
        BY <3>2, <3>3
    <2>3. /\ invites' = invites \cup {u} \/ invites' = invites
          /\ Done(w)
          /\ UNCHANGED <<roles, bans, mutes, blocks, receipts, commands, creators,
                         overtaken, entered, loose>>
      BY <1>7 DEF invite_create, Insert
    <2>4. entered' = [entered EXCEPT ![u] = @ + 0]
      BY <2>1, <2>3 DEF ModerationInv, ModerationTypeOK
    <2>5. /\ task' \in [Threads -> Tasks]
          /\ \A x \in Threads : task'[x] = task[x] \/ task'[x] = Idle
      BY <1>0, <2>3 DEF Done
    <2>6. 0 + (IF u \in invites' THEN 1 ELSE 0) <= i + (IF u \in invites THEN 1 ELSE 0)
      <3>1. CASE invites' = invites
        BY <2>2, <3>1
      <3>2. CASE invites' # invites
        BY <2>2, <2>3, <3>2
      <3> QED
        BY <3>1, <3>2
    <2> HIDE DEF u
    <2> QED
      BY <2>1, <2>2, <2>3, <2>4, <2>5, <2>6, InviteTable
  <1>8. ASSUME NEW w \in Threads, invite_accept(w)
        PROVE  ModerationInv'
    <2> DEFINE u == task[w].on
    <2>1. u \in People
      BY <1>0, <1>8, TaskFields DEF invite_accept, Running
    <2>2. PICK n \in {0, 1} : entered' = [entered EXCEPT ![u] = @ + n]
      BY <1>8 DEF invite_accept
    <2>3. /\ invites' = invites \ {u} \/ invites' = invites
          /\ loose' = IF invites' = invites THEN loose \cup {u} ELSE loose
          /\ Done(w)
          /\ UNCHANGED <<roles, bans, mutes, blocks, receipts, commands, creators,
                         overtaken, invited>>
      BY <1>8 DEF invite_accept, Remove
    <2>4. invited' = [invited EXCEPT ![u] = @ + 0]
      BY <2>1, <2>3 DEF ModerationInv, ModerationTypeOK
    <2>5. /\ task' \in [Threads -> Tasks]
          /\ \A x \in Threads : task'[x] = task[x] \/ task'[x] = Idle
      BY <1>0, <2>3 DEF Done
    <2>6. \/ u \in loose'
          \/ n + (IF u \in invites' THEN 1 ELSE 0) <= 0 + (IF u \in invites THEN 1 ELSE 0)
      <3>1. CASE invites' = invites
        BY <2>3, <3>1
      <3>2. CASE invites' # invites
        <4>1. u \in invites /\ u \notin invites'
          BY <2>3, <3>2
        <4> QED
          BY <2>2, <4>1
      <3> QED
        BY <3>1, <3>2
    <2>7. loose' = loose \/ loose' = loose \cup {u}
      BY <2>3
    <2> HIDE DEF u
    <2> QED
      BY <2>1, <2>2, <2>3, <2>4, <2>5, <2>6, <2>7, InviteTable
  <1>9. ASSUME NEW u \in People, DECLINE(u)
        PROVE  ModerationInv'
    <2>1. /\ invites' = invites \ {u} \/ invites' = invites
          /\ UNCHANGED <<roles, bans, mutes, blocks, receipts, task, commands, memory>>
      BY <1>9 DEF DECLINE, Remove
    <2>2. /\ invited' = [invited EXCEPT ![u] = @ + 0]
          /\ entered' = [entered EXCEPT ![u] = @ + 0]
          /\ loose' = loose
          /\ UNCHANGED <<creators, overtaken>>
      BY <2>1 DEF ModerationInv, ModerationTypeOK, memory
    <2>3. 0 + (IF u \in invites' THEN 1 ELSE 0) <= 0 + (IF u \in invites THEN 1 ELSE 0)
      BY <2>1
    <2> QED
      BY <1>0, <2>1, <2>2, <2>3, InviteTable
  <1>10. ASSUME Restarted
         PROVE  ModerationInv'
    <2>1. task' = [w \in Threads |-> Idle] /\ UNCHANGED <<tables, commands, memory>>
      BY <1>10 DEF Restarted
    <2>2. /\ bans' \subseteq People /\ mutes' \subseteq People
          /\ blocks' \subseteq People \X People /\ receipts' \subseteq People
          /\ UNCHANGED <<roles, invites>>
      BY <2>1 DEF tables, ModerationInv, ModerationTypeOK
    <2> QED
      BY <1>0, <2>1, <2>2, OtherTables
  <1>11. CASE UNCHANGED moderationVars
    <2>1. UNCHANGED <<tables, task, commands, memory>>
      BY <1>11 DEF moderationVars
    <2>2. /\ bans' \subseteq People /\ mutes' \subseteq People
          /\ blocks' \subseteq People \X People /\ receipts' \subseteq People
          /\ UNCHANGED <<roles, invites>>
      BY <2>1 DEF tables, ModerationInv, ModerationTypeOK
    <2> QED
      BY <1>0, <2>1, <2>2, OtherTables
  <1> QED
    BY <1>2, <1>3, <1>4, <1>5, <1>6, <1>7, <1>8, <1>9, <1>10, <1>11, DemoteStep, CreateStep
       DEF ModerationNext

-------------------------------------------------------------------------------
(***************************************************************************)
(* What follows for every behaviour.                                       *)
(***************************************************************************)
LEMMA ModerationAlways == ModerationSpec => []ModerationInv
  BY ModerationInitInv, ModerationNextInv, PTL DEF ModerationSpec

\* Roles stay in their range, and only somebody who created the room has one
\* above MEMBER (permission_set_role).
THEOREM RolesSound == ModerationSpec => []ModerationTypeOK
  BY ModerationAlways, PTL DEF ModerationInv

\* A room keeps an owner unless a DEMOTE was overtaken by another.
THEOREM OwnerKept == ModerationSpec => []OwnerRemains
  BY ModerationAlways, PTL DEF ModerationInv

\* An invitation that ACCEPT took away lets its user in once.
THEOREM InvitationUsedOnce == ModerationSpec => []InvitedOnce
  BY ModerationAlways, PTL DEF ModerationInv

\* The role a DEMOTE has read is the role there is, until it is written.
Fresh ==
    \A w \in Threads :
       task[w].cmd = "lower" => task[w].stale = TRUE \/ roles[task[w].on] = task[w].seen

\* A step that writes no role, and reads none, keeps it.
LEMMA FreshKept ==
    ASSUME Fresh, UNCHANGED roles,
           \A w \in Threads : task'[w] = task[w] \/ task'[w].cmd # "lower"
    PROVE  Fresh'
  BY DEF Fresh

\* A write to a role, after which every other task that has read it is stale.
LEMMA FreshWritten ==
    ASSUME Fresh, ModerationInv, NEW w \in Threads, NEW u \in People, Outdate(w, u),
           \A v \in People : v # u => roles'[v] = roles[v]
    PROVE  Fresh'
  <1> SUFFICES ASSUME NEW x \in Threads, task'[x].cmd = "lower"
               PROVE  task'[x].stale = TRUE \/ roles'[task'[x].on] = task'[x].seen
    BY DEF Fresh
  <1>1. PICK t : t = task[x]
    OBVIOUS
  <1>2. t \in Tasks /\ (t.cmd = "lower" => t.stale = TRUE \/ roles[t.on] = t.seen)
    BY <1>1 DEF ModerationInv, ModerationTypeOK, Fresh
  <1>3. CASE task'[x] = Idle
    BY <1>3 DEF Idle
  <1>4. CASE t.cmd = "lower" /\ t.on = u /\ task'[x] = [t EXCEPT !.stale = TRUE]
    <2>1. t \in [cmd : {"lower"}, by : People, on : People,
                 seen : (Member + 1)..Owner, stale : BOOLEAN]
      BY <1>2, <1>4 DEF Tasks, Idle
    <2>2. task'[x].stale = TRUE
      BY <1>4, <2>1
    <2> QED
      BY <2>2
  <1>5. CASE task'[x] = t /\ ~(t.cmd = "lower" /\ t.on = u)
    <2>1. t.cmd = "lower" /\ t.on # u
      BY <1>5
    <2>2. t.on \in People
      BY <1>2, <2>1, TaskFields
    <2> QED
      BY <1>2, <1>5, <2>1, <2>2
  <1> QED
    BY <1>1, <1>3, <1>4, <1>5 DEF Outdate

LEMMA FreshNext ==
    ASSUME Fresh, ModerationInv, [ModerationNext]_moderationVars
    PROVE  Fresh'
  <1>0. task \in [Threads -> Tasks] /\ Idle.cmd = "none"
    BY DEF ModerationInv, ModerationTypeOK, Idle
  <1>1. ASSUME NEW w \in Threads, NEW t, t.cmd # "lower",
               task' = [task EXCEPT ![w] = t], UNCHANGED roles
        PROVE  Fresh'
    BY <1>0, <1>1, FreshKept
  <1>2. ASSUME NEW w \in Threads, NEW u \in People, NEW v \in People,
               DEMOTE(w, u, v) \/ MUTE(w, u, v) \/ BAN(w, u, v) \/ INVITE(w, u, v)
        PROVE  Fresh'
    BY <1>1, <1>2 DEF DEMOTE, MUTE, BAN, INVITE, Take, tables
  <1>3. ASSUME NEW w \in Threads, NEW u \in People, ACCEPT(w, u)
        PROVE  Fresh'
    BY <1>1, <1>3 DEF ACCEPT, Take, tables
  <1>4. ASSUME NEW w \in Threads,
               MuteAdd(w) \/ BanAdd(w) \/ invite_create(w) \/ invite_accept(w)
        PROVE  Fresh'
    BY <1>0, <1>1, <1>4 DEF MuteAdd, BanAdd, invite_create, invite_accept, Done
  <1>5. ASSUME NEW u \in People, NEW v \in People,
               UNMUTE(u) \/ BLOCK(u, v) \/ UNBLOCK(u, v) \/ READ(u) \/ DECLINE(u)
        PROVE  Fresh'
    <2>1. UNCHANGED <<roles, task>>
      BY <1>5 DEF UNMUTE, BLOCK, UNBLOCK, READ, DECLINE
    <2> QED
      BY <2>1, FreshKept
  <1>6. ASSUME Restarted
        PROVE  Fresh'
    <2>1. UNCHANGED roles /\ task' = [w \in Threads |-> Idle]
      BY <1>6 DEF Restarted, tables
    <2> QED
      BY <1>0, <2>1, FreshKept
  <1>7. ASSUME NEW w \in Threads, DemoteRead(w)
        PROVE  Fresh'
    <2>1. /\ UNCHANGED roles
          /\ \E r \in permission_get_role(task[w].on) :
                task' = [task EXCEPT ![w] =
                   IF r <= Member THEN Idle
                   ELSE [cmd |-> "lower", by |-> task[w].by, on |-> task[w].on,
                         seen |-> r, stale |-> FALSE]]
      BY <1>7 DEF DemoteRead, tables
    <2>2. PICK r \in permission_get_role(task[w].on) :
             task' = [task EXCEPT ![w] =
                IF r <= Member THEN Idle
                ELSE [cmd |-> "lower", by |-> task[w].by, on |-> task[w].on,
                      seen |-> r, stale |-> FALSE]]
      BY <2>1
    <2>3. CASE r <= Member
      BY <1>0, <1>1, <2>1, <2>2, <2>3
    <2>4. CASE ~(r <= Member)
      <3>1. r = roles[task[w].on]
        BY <2>2, <2>4 DEF permission_get_role, Member
      <3>2. PICK t : t = [cmd |-> "lower", by |-> task[w].by, on |-> task[w].on,
                          seen |-> r, stale |-> FALSE]
        OBVIOUS
      <3>3. task' = [task EXCEPT ![w] = t] /\ roles'[t.on] = t.seen
        BY <2>1, <2>2, <2>4, <3>1, <3>2
      <3> QED
        BY <1>0, <2>1, <3>3 DEF Fresh
    <2> QED
      BY <2>3, <2>4
  <1>8. ASSUME NEW w \in Threads, DemoteWrite(w)
        PROVE  Fresh'
    <2>1. PICK u \in People : u = task[w].on
      BY <1>0, <1>8, TaskFields DEF DemoteWrite, Running
    <2>2. Outdate(w, u) /\ (roles' = [roles EXCEPT ![u] = task[w].seen - 1] \/ roles' = roles)
      BY <1>8, <2>1 DEF DemoteWrite, permission_set_role
    <2>3. \A v \in People : v # u => roles'[v] = roles[v]
      BY <2>2 DEF ModerationInv, ModerationTypeOK
    <2> QED
      BY <2>2, <2>3, FreshWritten
  <1>9. ASSUME NEW w \in Threads, NEW u \in People, CREATE_PRIVATE(w, u)
        PROVE  Fresh'
    <2>1. Outdate(w, u) /\ (roles' = [roles EXCEPT ![u] = Owner] \/ roles' = roles)
      BY <1>9 DEF CREATE_PRIVATE, permission_set_role
    <2>2. \A v \in People : v # u => roles'[v] = roles[v]
      BY <2>1 DEF ModerationInv, ModerationTypeOK
    <2> QED
      BY <2>1, <2>2, FreshWritten
  <1>10. CASE UNCHANGED moderationVars
    BY <1>10, FreshKept DEF moderationVars, tables
  <1> QED
    BY <1>2, <1>3, <1>4, <1>5, <1>6, <1>7, <1>8, <1>9, <1>10 DEF ModerationNext

\* DEMOTE never raises a role, unless what it has read is out of date.
THEOREM DemoteLowers == ModerationSpec => NeverRaised
  <1> DEFINE Cause(u) ==
        roles'[u] > roles[u] =>
           \/ u \in creators' /\ roles'[u] = Owner
           \/ \E w \in Threads : /\ task[w].cmd = "lower" /\ task[w].on = u
                                 /\ task[w].stale /\ task'[w] = Idle
  <1>1. ASSUME ModerationInv, Fresh, [ModerationNext]_moderationVars, NEW u \in People
        PROVE  Cause(u)
    <2> SUFFICES ASSUME roles'[u] > roles[u] PROVE Cause(u)
      OBVIOUS
    <2> USE <1>1
    <2>1. roles \in [People -> Member..Owner] /\ task \in [Threads -> Tasks]
      BY DEF ModerationInv, ModerationTypeOK
    <2>2. roles' # roles
      BY <2>1 DEF Member, Owner
    <2>3. ASSUME NEW w \in Threads, NEW v \in People, CREATE_PRIVATE(w, v)
          PROVE  Cause(u)
      <3>1. /\ roles' = [roles EXCEPT ![v] = Owner] \/ roles' = roles
            /\ creators' = IF roles'[v] = Owner THEN creators \cup {v} ELSE creators
        BY <2>3 DEF CREATE_PRIVATE, permission_set_role
      <3>2. roles' = [roles EXCEPT ![v] = Owner]
        BY <2>2, <3>1
      <3>3. u = v
        BY <2>1, <3>2 DEF Member, Owner
      <3>4. roles'[u] = Owner
        BY <2>1, <3>2, <3>3
      <3> QED
        BY <3>1, <3>3, <3>4
    <2>4. ASSUME NEW w \in Threads, DemoteWrite(w)
          PROVE  Cause(u)
      <3>1. PICK t : t = task[w]
        OBVIOUS
      <3>2. t \in Tasks /\ t.cmd = "lower" /\ task'[w] = Idle
        BY <2>1, <2>4, <3>1 DEF DemoteWrite, Running, Outdate
      <3>3. t.on \in People /\ t.seen \in (Member + 1)..Owner /\ t.stale \in BOOLEAN
        BY <3>2, TaskFields
      <3>4. roles' = [roles EXCEPT ![t.on] = t.seen - 1]
        BY <2>2, <2>4, <3>1 DEF DemoteWrite, permission_set_role
      <3>5. u = t.on /\ roles'[u] = t.seen - 1
        BY <2>1, <3>3, <3>4 DEF Member, Owner
      <3>6. roles[u] # t.seen
        BY <2>1, <3>3, <3>5 DEF Member, Owner
      <3>7. t.stale = TRUE
        BY <3>1, <3>2, <3>5, <3>6 DEF Fresh
      <3> QED
        BY <3>1, <3>2, <3>5, <3>7
    <2>5. \/ \E w \in Threads, v \in People : CREATE_PRIVATE(w, v)
          \/ \E w \in Threads : DemoteWrite(w)
      BY <2>2 DEF ModerationNext, moderationVars, tables, DEMOTE, MUTE, BAN, INVITE, ACCEPT,
         Take, DemoteRead, MuteAdd, BanAdd, invite_create, invite_accept, DECLINE, UNMUTE,
         BLOCK, UNBLOCK, READ, Restarted
    <2> QED
      BY <2>3, <2>4, <2>5
  <1>2. ModerationInv /\ Fresh /\ [ModerationNext]_moderationVars
           => [\A u \in People : Cause(u)]_moderationVars
    BY <1>1
  <1>3. ModerationInit => Fresh
    BY DEF ModerationInit, Fresh, Idle
  <1>4. ModerationInv /\ Fresh /\ [ModerationNext]_moderationVars => Fresh'
    BY FreshNext
  <1> QED
    BY <1>2, <1>3, <1>4, ModerationAlways, PTL DEF ModerationSpec, NeverRaised

(******************************* Token bucket ******************************)

\* A client that is not there has paid nothing; the times a bucket holds are past.
BucketsOK ==
    \A c \in Clients :
       /\ c \notin connected => paid[c] = 0 /\ paidBefore[c] = NoCharges
       /\ last_refill[c] <= clock /\ created[c] <= clock

\* BucketExact without the minimum.
LevelOK ==
    \A c \in connected :
       /\ \A s \in created[c]..clock : Refilled(c) <= Left(c, s)
       /\ \E s \in created[c]..clock : Refilled(c) = Left(c, s)

RateInv == RateTypeOK /\ BucketsOK /\ LevelOK

-------------------------------------------------------------------------------
LEMMA MinOfPair ==
    ASSUME NEW a \in Int, NEW b \in Int
    PROVE  Min({a, b}) = IF a <= b THEN a ELSE b
  BY DEF Min

LEMMA MinIs ==
    ASSUME NEW S \in SUBSET Int, NEW x \in S, \A y \in S : x <= y
    PROVE  x = Min(S)
<1>1. Min(S) \in S /\ \A y \in S : Min(S) <= y
  BY DEF Min
<1>2. x \in Int /\ Min(S) \in Int /\ x <= Min(S) /\ Min(S) <= x
  BY <1>1
<1> QED
  BY <1>2

LEMMA Amounts ==
    /\ Full \in Nat /\ Cost \in Nat \ {0} /\ Cost <= Full
    /\ \A a \in Nat : a * RATE_REFILL_RATE \in Nat
    /\ \A a \in Int : a * RATE_REFILL_RATE \in Int /\ a * Cost \in Int
    /\ \A a \in Int : (a + 1) * RATE_REFILL_RATE = a * RATE_REFILL_RATE + RATE_REFILL_RATE
    /\ \A a \in Int : (a + 1) * Cost = a * Cost + Cost
    /\ 0 * RATE_REFILL_RATE = 0 /\ 0 * Cost = 0
<1>1. /\ RATE_BUCKET_MAX \in Nat /\ RATE_REFILL_RATE \in Nat /\ RATE_MSG_COST \in Nat \ {0}
      /\ Scale \in Nat \ {0} /\ RATE_MSG_COST <= RATE_BUCKET_MAX
  BY RateAssumption
<1>2. Full \in Nat /\ Cost \in Nat \ {0}
  BY <1>1 DEF Full, Cost
<1>3. Cost <= Full
  <2>1. Full = Cost + (RATE_BUCKET_MAX - RATE_MSG_COST) * Scale
    BY <1>1 DEF Full, Cost
  <2>2. (RATE_BUCKET_MAX - RATE_MSG_COST) * Scale \in Nat
    BY <1>1
  <2> QED BY <1>2, <2>1, <2>2
<1>4. ASSUME NEW r \in Nat
      PROVE  /\ \A a \in Nat : a * r \in Nat
             /\ \A a \in Int : a * r \in Int /\ (a + 1) * r = a * r + r
             /\ 0 * r = 0
  OBVIOUS
<1> QED
  BY <1>1, <1>2, <1>3, <1>4

LEMMA FullInt == Full \in Int /\ Full >= 0 /\ Cost \in Int /\ Cost >= 0
  BY Amounts

\* The level and the bounds are integers, the level not beyond the full bucket.
LEMMA Levels ==
    ASSUME RateTypeOK, BucketsOK, NEW c \in Clients
    PROVE  /\ Refilled(c) \in 0..Full
           /\ \A s \in 0..clock : Left(c, s) \in Int
           /\ clock \in Nat /\ created[c] \in Nat
           /\ tokens[c] + (clock - last_refill[c]) * RATE_REFILL_RATE \in Nat
           /\ Refilled(c) = IF Full <= tokens[c] + (clock - last_refill[c]) * RATE_REFILL_RATE
                            THEN Full
                            ELSE tokens[c] + (clock - last_refill[c]) * RATE_REFILL_RATE
<1>1. /\ clock \in 0..MaxClock /\ tokens[c] \in 0..Full /\ last_refill[c] \in 0..MaxClock
      /\ last_refill[c] <= clock /\ MaxClock \in Nat /\ created[c] \in 0..MaxClock
      /\ paid[c] \in Nat /\ \A s \in 0..MaxClock : paidBefore[c][s] \in Nat
  BY RateAssumption DEF RateTypeOK, BucketsOK
<1>2. clock - last_refill[c] \in Nat
  BY <1>1
<1>3. tokens[c] + (clock - last_refill[c]) * RATE_REFILL_RATE \in Nat
  BY <1>1, <1>2, Amounts
<1>4. Refilled(c) = IF Full <= tokens[c] + (clock - last_refill[c]) * RATE_REFILL_RATE
                            THEN Full
                            ELSE tokens[c] + (clock - last_refill[c]) * RATE_REFILL_RATE
  <2> DEFINE X == tokens[c] + (clock - last_refill[c]) * RATE_REFILL_RATE
  <2>1. Refilled(c) = Min({Full, X})
    BY DEF Refilled
  <2>2. X \in Int
    BY <1>3
  <2> HIDE DEF X
  <2>3. Refilled(c) = IF Full <= X THEN Full ELSE X
    BY <2>1, <2>2, FullInt, MinOfPair
  <2> QED BY <2>3 DEF X
<1>5. Refilled(c) \in 0..Full
  <2> DEFINE X == tokens[c] + (clock - last_refill[c]) * RATE_REFILL_RATE
  <2>1. X \in Nat /\ Refilled(c) = IF Full <= X THEN Full ELSE X
    BY <1>3, <1>4
  <2> HIDE DEF X
  <2> QED BY <2>1, FullInt
<1>6. ASSUME NEW s \in 0..clock PROVE Left(c, s) \in Int
  <2>1. clock - s \in Int /\ paid[c] - paidBefore[c][s] \in Int
    BY <1>1
  <2> QED BY <2>1, Amounts DEF Left, PaidSince
<1> QED
  BY <1>1, <1>3, <1>4, <1>5, <1>6

LEMMA RateInitInv == RateInit => RateInv
<1> SUFFICES ASSUME RateInit PROVE RateInv
  OBVIOUS
<1>1. 0 \in 0..MaxClock /\ 0 \in 0..Full /\ NoCharges \in [0..MaxClock -> Nat]
  BY RateAssumption, Amounts DEF NoCharges
<1>2. RateTypeOK
  BY <1>1 DEF RateInit, RateTypeOK
<1>3. BucketsOK
  BY DEF RateInit, BucketsOK
<1>4. LevelOK
  BY DEF RateInit, LevelOK
<1> QED
  BY <1>2, <1>3, <1>4 DEF RateInv

\* What a step does not touch keeps its level.
LEMMA LevelKept ==
    ASSUME NEW c \in Clients,
           clock' = clock, tokens'[c] = tokens[c], last_refill'[c] = last_refill[c],
           created'[c] = created[c], paid'[c] = paid[c], paidBefore'[c] = paidBefore[c]
    PROVE  /\ Refilled(c)' = Refilled(c)
           /\ \A s : Left(c, s)' = Left(c, s)
  BY DEF Refilled, Left, PaidSince

LEMMA NewBucketStep ==
    ASSUME RateInv, NEW c \in Clients, NewBucket(c)
    PROVE  RateInv'
<1>1. /\ connected' = connected \cup {c} /\ c \notin connected
      /\ tokens' = [tokens EXCEPT ![c] = Full]
      /\ last_refill' = [last_refill EXCEPT ![c] = clock]
      /\ created' = [created EXCEPT ![c] = clock]
      /\ UNCHANGED <<clock, paid, paidBefore>>
  BY DEF NewBucket
<1>2. RateTypeOK /\ BucketsOK /\ LevelOK
  BY DEF RateInv
<1>3. Full \in 0..Full /\ clock \in 0..MaxClock /\ clock <= clock
  BY <1>2, Amounts, RateAssumption DEF RateTypeOK
<1>4. /\ tokens'[c] = Full /\ last_refill'[c] = clock /\ created'[c] = clock
      /\ \A d \in Clients \ {c} : /\ tokens'[d] = tokens[d] /\ last_refill'[d] = last_refill[d]
                                  /\ created'[d] = created[d]
  BY <1>1, <1>2 DEF RateTypeOK
<1>5. RateTypeOK'
  BY <1>1, <1>2, <1>3 DEF RateTypeOK
<1>6. BucketsOK'
  BY <1>1, <1>2, <1>3, <1>4 DEF BucketsOK
<1>7. Refilled(c)' = Full /\ Left(c, clock)' = Full
  <2>1. paid[c] = 0 /\ paidBefore[c][clock] = 0
    BY <1>1, <1>2, <1>3 DEF BucketsOK, NoCharges
  <2>2. clock - clock = 0 /\ 0 - 0 = 0
    BY <1>3, RateAssumption
  <2>3. PaidSince(c, clock)' = 0
    BY <1>1, <2>1, <2>2, Amounts DEF PaidSince, Cost
  <2>4. (clock - clock) * RATE_REFILL_RATE = 0
    BY <2>2, Amounts
  <2>5. Refilled(c)' = Full
    <3>1. Refilled(c)' = Min({Full, Full + (clock - clock) * RATE_REFILL_RATE})
      BY <1>1, <1>4 DEF Refilled, Full
    <3>2. Full + (clock - clock) * RATE_REFILL_RATE = Full
      BY <2>4, FullInt
    <3> QED BY <3>1, <3>2, FullInt, MinOfPair
  <2> QED BY <1>1, <2>3, <2>4, <2>5, Amounts DEF Left, Full
<1>8. LevelOK'
  <2> SUFFICES ASSUME NEW d \in connected'
               PROVE  /\ \A s \in created'[d]..clock' : Refilled(d)' <= Left(d, s)'
                      /\ \E s \in created'[d]..clock' : Refilled(d)' = Left(d, s)'
    BY DEF LevelOK
  <2>1. CASE d = c
    <3>1. \A s \in created'[d]..clock' : s = clock
      BY <1>1, <1>3, <1>4, <2>1, RateAssumption
    <3>2. clock \in created'[d]..clock'
      BY <1>1, <1>3, <1>4, <2>1, RateAssumption
    <3> QED BY <1>1, <1>7, <2>1, <3>1, <3>2, Amounts
  <2>2. CASE d # c
    <3>1. d \in Clients /\ d \in connected
      BY <1>1, <1>2, <2>2 DEF RateTypeOK
    <3>2. Refilled(d)' = Refilled(d) /\ \A s : Left(d, s)' = Left(d, s)
      BY <1>1, <1>4, <2>2, <3>1, LevelKept
    <3> QED BY <1>1, <1>2, <1>4, <2>2, <3>1, <3>2 DEF LevelOK
  <2> QED BY <2>1, <2>2
<1> QED
  BY <1>5, <1>6, <1>8 DEF RateInv

LEMMA DropBucketStep ==
    ASSUME RateInv, NEW c \in Clients, DropBucket(c)
    PROVE  RateInv'
<1>1. /\ connected' = connected \ {c}
      /\ tokens' = [tokens EXCEPT ![c] = 0]
      /\ last_refill' = [last_refill EXCEPT ![c] = 0]
      /\ created' = [created EXCEPT ![c] = 0]
      /\ paid' = [paid EXCEPT ![c] = 0]
      /\ paidBefore' = [paidBefore EXCEPT ![c] = NoCharges]
      /\ UNCHANGED clock
  BY DEF DropBucket
<1>2. RateTypeOK /\ BucketsOK /\ LevelOK
  BY DEF RateInv
<1>3. /\ 0 \in 0..MaxClock /\ 0 \in 0..Full /\ NoCharges \in [0..MaxClock -> Nat]
      /\ 0 <= clock
  BY <1>2, RateAssumption, Amounts DEF NoCharges, RateTypeOK
<1>4. /\ last_refill'[c] = 0 /\ created'[c] = 0 /\ paid'[c] = 0 /\ paidBefore'[c] = NoCharges
      /\ \A d \in Clients \ {c} : /\ tokens'[d] = tokens[d] /\ last_refill'[d] = last_refill[d]
                                  /\ created'[d] = created[d] /\ paid'[d] = paid[d]
                                  /\ paidBefore'[d] = paidBefore[d]
  BY <1>1, <1>2 DEF RateTypeOK
<1>5. RateTypeOK'
  BY <1>1, <1>2, <1>3 DEF RateTypeOK
<1>6. BucketsOK'
  BY <1>1, <1>2, <1>3, <1>4 DEF BucketsOK
<1>7. LevelOK'
  <2> SUFFICES ASSUME NEW d \in connected'
               PROVE  /\ \A s \in created'[d]..clock' : Refilled(d)' <= Left(d, s)'
                      /\ \E s \in created'[d]..clock' : Refilled(d)' = Left(d, s)'
    BY DEF LevelOK
  <2>1. d \in Clients \ {c} /\ d \in connected
    BY <1>1, <1>2 DEF RateTypeOK
  <2>2. Refilled(d)' = Refilled(d) /\ \A s : Left(d, s)' = Left(d, s)
    BY <1>1, <1>4, <2>1, LevelKept
  <2> QED BY <1>1, <1>2, <1>4, <2>1, <2>2 DEF LevelOK
<1> QED
  BY <1>5, <1>6, <1>7 DEF RateInv

\* A check that passes lowers the level and every bound by its cost; one that does
\* not leaves both.
LEMMA CheckStep ==
    ASSUME RateInv, NEW c \in connected, rate_limit_check(c)
    PROVE  RateInv'
<1>1. /\ tokens' = [tokens EXCEPT ![c] = Refilled(c) - IF Allowed(c) THEN Cost ELSE 0]
      /\ last_refill' = [last_refill EXCEPT ![c] = clock]
      /\ paid' = IF Allowed(c) THEN [paid EXCEPT ![c] = @ + 1] ELSE paid
      /\ UNCHANGED <<clock, connected, created, paidBefore>>
  BY DEF rate_limit_check
<1>2. RateTypeOK /\ BucketsOK /\ LevelOK /\ c \in Clients
  BY DEF RateInv, RateTypeOK
<1>3. /\ Refilled(c) \in 0..Full /\ clock \in 0..MaxClock /\ MaxClock \in Nat /\ clock <= clock
      /\ \A s \in 0..clock : Left(c, s) \in Int
      /\ created[c] \in Nat /\ paid[c] \in Nat
      /\ \A s \in 0..MaxClock : paidBefore[c][s] \in Nat
  <2>1. /\ Refilled(c) \in 0..Full /\ \A s \in 0..clock : Left(c, s) \in Int
        /\ created[c] \in Nat
    BY <1>2, Levels
  <2>2. /\ clock \in 0..MaxClock /\ MaxClock \in Nat /\ clock <= clock /\ paid[c] \in Nat
        /\ \A s \in 0..MaxClock : paidBefore[c][s] \in Nat
    BY <1>2, RateAssumption DEF RateTypeOK
  <2> QED BY <2>1, <2>2
<1> DEFINE pay == IF Allowed(c) THEN 1 ELSE 0
           cut == IF Allowed(c) THEN Cost ELSE 0
<1>4. Refilled(c) - cut \in 0..Full
  <2>1. Refilled(c) \in Int /\ Refilled(c) >= 0 /\ Refilled(c) <= Full
    BY <1>3, FullInt
  <2>2. CASE Allowed(c)
    BY <2>1, <2>2, FullInt DEF Allowed
  <2>3. CASE ~Allowed(c)
    BY <2>1, <2>3, FullInt
  <2> QED BY <2>2, <2>3
<1>5. /\ tokens'[c] = Refilled(c) - cut /\ last_refill'[c] = clock /\ paid'[c] = paid[c] + pay
      /\ \A d \in Clients \ {c} : /\ tokens'[d] = tokens[d] /\ last_refill'[d] = last_refill[d]
                                  /\ paid'[d] = paid[d]
  BY <1>1, <1>2, <1>3 DEF RateTypeOK
<1>6. RateTypeOK'
  <2>1. tokens' \in [Clients -> 0..Full]
    BY <1>1, <1>2, <1>4 DEF RateTypeOK
  <2>2. paid' \in [Clients -> Nat]
    BY <1>1, <1>2, <1>3 DEF RateTypeOK
  <2> QED BY <1>1, <1>2, <1>3, <2>1, <2>2 DEF RateTypeOK
<1>7. BucketsOK'
  BY <1>1, <1>2, <1>3, <1>5 DEF BucketsOK
<1>8. Refilled(c)' = Refilled(c) - cut
  <2>1. (clock - clock) * RATE_REFILL_RATE = 0
    BY <1>3, Amounts
  <2>2. Refilled(c)' = Min({Full, (Refilled(c) - cut) + (clock - clock) * RATE_REFILL_RATE})
    BY <1>1, <1>5 DEF Refilled, Full
  <2> DEFINE Y == Refilled(c) - cut
  <2>3. Y \in 0..Full
    BY <1>4
  <2> HIDE DEF Y, cut
  <2>4. Y + (clock - clock) * RATE_REFILL_RATE = Y /\ Y \in Int /\ Y <= Full
    BY <2>1, <2>3, FullInt
  <2>5. Refilled(c)' = Min({Full, Y})
    BY <2>2, <2>4 DEF Y
  <2>6. Min({Full, Y}) = Y
    BY <2>4, FullInt, MinOfPair
  <2> QED BY <2>5, <2>6 DEF Y
<1>9. ASSUME NEW s \in 0..clock PROVE Left(c, s)' = Left(c, s) - cut
  <2>1. paid[c] - paidBefore[c][s] \in Int /\ clock - s \in Int
    BY <1>3
  <2>2. ((paid[c] + pay) - paidBefore[c][s]) * Cost = (paid[c] - paidBefore[c][s]) * Cost + cut
    <3>1. CASE Allowed(c)
      <4>1. (paid[c] + pay) - paidBefore[c][s] = (paid[c] - paidBefore[c][s]) + 1
        BY <1>3, <2>1, <3>1
      <4> QED BY <2>1, <3>1, <4>1, Amounts
    <3>2. CASE ~Allowed(c)
      <4>1. (paid[c] + pay) - paidBefore[c][s] = paid[c] - paidBefore[c][s]
        BY <1>3, <3>2
      <4> QED BY <2>1, <3>2, <4>1, Amounts
    <3> QED BY <3>1, <3>2
  <2>3. PaidSince(c, s)' = PaidSince(c, s) + cut
    BY <1>1, <1>5, <2>2 DEF PaidSince, Cost
  <2>4. PaidSince(c, s) \in Int /\ (clock - s) * RATE_REFILL_RATE \in Int /\ cut \in Int
    BY <2>1, Amounts DEF PaidSince
  <2>5. Left(c, s)' = Full + (clock - s) * RATE_REFILL_RATE - (PaidSince(c, s) + cut)
    BY <1>1, <2>3 DEF Left, Full
  <2> HIDE DEF cut
  <2> QED BY <2>4, <2>5, Amounts DEF Left
<1>10. LevelOK'
  <2> SUFFICES ASSUME NEW d \in connected'
               PROVE  /\ \A s \in created'[d]..clock' : Refilled(d)' <= Left(d, s)'
                      /\ \E s \in created'[d]..clock' : Refilled(d)' = Left(d, s)'
    BY DEF LevelOK
  <2>1. CASE d = c
    <3>1. cut \in Int
      BY Amounts
    <3>2. /\ \A s \in created[c]..clock : s \in 0..clock /\ Refilled(c) <= Left(c, s)
          /\ \E s \in created[c]..clock : Refilled(c) = Left(c, s)
      BY <1>2, <1>3 DEF LevelOK
    <3> HIDE DEF cut
    <3>3. \A s \in created[c]..clock : Refilled(c)' <= Left(c, s)'
      BY <1>3, <1>8, <1>9, <3>1, <3>2
    <3>4. \E s \in created[c]..clock : Refilled(c)' = Left(c, s)'
      BY <1>8, <1>9, <3>2
    <3> QED BY <1>1, <2>1, <3>3, <3>4
  <2>2. CASE d # c
    <3>1. d \in Clients \ {c} /\ d \in connected
      BY <1>1, <1>2, <2>2 DEF RateTypeOK
    <3>2. Refilled(d)' = Refilled(d) /\ \A s : Left(d, s)' = Left(d, s)
      BY <1>1, <1>5, <3>1, LevelKept
    <3> QED BY <1>1, <1>2, <3>1, <3>2 DEF LevelOK
  <2> QED BY <2>1, <2>2
<1> QED
  BY <1>6, <1>7, <1>10 DEF RateInv

\* A tick adds the refill to the level, as far as the bucket holds it, and to every
\* bound; the bound of the new tick is the full bucket.
LEMMA ClockTickStep ==
    ASSUME RateInv, ClockTick
    PROVE  RateInv'
<1>1. /\ clock < MaxClock /\ clock' = clock + 1
      /\ paidBefore' = [c \in Clients |-> [paidBefore[c] EXCEPT ![clock + 1] = paid[c]]]
      /\ UNCHANGED <<connected, tokens, last_refill, created, paid>>
  BY DEF ClockTick
<1>2. RateTypeOK /\ BucketsOK /\ LevelOK
  BY DEF RateInv
<1>3. clock \in Nat /\ clock + 1 \in 0..MaxClock /\ MaxClock \in Nat
  BY <1>1, <1>2, RateAssumption DEF RateTypeOK
<1>4. ASSUME NEW c \in Clients
      PROVE  /\ paidBefore'[c] \in [0..MaxClock -> Nat]
             /\ paidBefore'[c][clock + 1] = paid[c]
             /\ \A s \in 0..clock : paidBefore'[c][s] = paidBefore[c][s]
             /\ paid[c] = 0 /\ paidBefore[c] = NoCharges => paidBefore'[c] = NoCharges
  <2>1. paidBefore[c] \in [0..MaxClock -> Nat] /\ paid[c] \in Nat
    BY <1>2 DEF RateTypeOK
  <2>2. paidBefore'[c] = [paidBefore[c] EXCEPT ![clock + 1] = paid[c]]
    BY <1>1
  <2>3. \A s \in 0..clock : s \in 0..MaxClock /\ s # clock + 1
    BY <1>1, <1>3
  <2> QED BY <1>3, <2>1, <2>2, <2>3 DEF NoCharges
<1>5. RateTypeOK'
  <2>1. paidBefore' \in [Clients -> [0..MaxClock -> Nat]]
    BY <1>1, <1>4
  <2> QED BY <1>1, <1>2, <1>3, <2>1 DEF RateTypeOK
<1>6. BucketsOK'
  <2>1. \A c \in Clients : last_refill[c] <= clock + 1 /\ created[c] <= clock + 1
    BY <1>2, <1>3, RateAssumption DEF BucketsOK, RateTypeOK
  <2> QED BY <1>1, <1>2, <1>4, <2>1 DEF BucketsOK
<1>7. LevelOK'
  <2> SUFFICES ASSUME NEW c \in connected
               PROVE  /\ \A s \in created[c]..(clock + 1) : Refilled(c)' <= Left(c, s)'
                      /\ \E s \in created[c]..(clock + 1) : Refilled(c)' = Left(c, s)'
    BY <1>1 DEF LevelOK
  <2>1. c \in Clients /\ created[c] \in 0..clock /\ last_refill[c] \in 0..clock
    BY <1>2, <1>3, RateAssumption DEF RateTypeOK, BucketsOK
  <2> DEFINE R == RATE_REFILL_RATE
             T == tokens[c] + (clock - last_refill[c]) * R
  <2>2. /\ T \in Nat /\ R \in Nat /\ Refilled(c) = IF Full <= T THEN Full ELSE T
        /\ \A s \in 0..clock : Left(c, s) \in Int
    BY <1>2, <2>1, Levels, RateAssumption
  <2>3. Refilled(c)' = IF Full <= T + R THEN Full ELSE T + R
    <3>1. ((clock + 1) - last_refill[c]) * R = (clock - last_refill[c]) * R + R
      <4>1. (clock + 1) - last_refill[c] = (clock - last_refill[c]) + 1
        BY <1>3, <2>1
      <4>2. clock - last_refill[c] \in Int
        BY <1>3, <2>1
      <4> QED BY <4>1, <4>2, Amounts
    <3>2. (clock - last_refill[c]) * R \in Int /\ tokens[c] \in Int
      BY <1>2, <1>3, <2>1, Amounts DEF RateTypeOK
    <3>3. tokens[c] + ((clock + 1) - last_refill[c]) * R = T + R
      BY <2>2, <3>1, <3>2
    <3>4. Refilled(c)' = Min({Full, tokens[c] + ((clock + 1) - last_refill[c]) * R})
      BY <1>1 DEF Refilled, Full
    <3> DEFINE Y == T + R
    <3>5. Y \in Int
      BY <2>2
    <3>6. Refilled(c)' = Min({Full, Y})
      BY <3>3, <3>4
    <3> HIDE DEF Y
    <3>7. Refilled(c)' = IF Full <= Y THEN Full ELSE Y
      BY <3>5, <3>6, FullInt, MinOfPair
    <3> QED BY <3>7 DEF Y
  <2>4. ASSUME NEW s \in 0..clock PROVE Left(c, s)' = Left(c, s) + R
    <3>1. PaidSince(c, s)' = PaidSince(c, s)
      BY <1>1, <1>4, <2>1 DEF PaidSince, Cost
    <3>2. ((clock + 1) - s) * R = (clock - s) * R + R
      <4>1. (clock + 1) - s = (clock - s) + 1 /\ clock - s \in Int
        BY <1>3
      <4> QED BY <4>1, Amounts
    <3>3. PaidSince(c, s) \in Int /\ (clock - s) * R \in Int
      <4>1. paid[c] - paidBefore[c][s] \in Int /\ clock - s \in Int
        BY <1>1, <1>2, <1>3, <2>1 DEF RateTypeOK
      <4> QED BY <4>1, Amounts DEF PaidSince
    <3>4. Left(c, s)' = Full + ((clock + 1) - s) * R - PaidSince(c, s)
      BY <1>1, <3>1 DEF Left, Full
    <3> QED BY <2>2, <3>2, <3>3, <3>4, Amounts DEF Left
  <2>5. ASSUME NEW s, s = clock + 1 PROVE Left(c, s)' = Full
    <3>1. PaidSince(c, s)' = (paid[c] - paid[c]) * Cost
      BY <1>1, <1>4, <2>1, <2>5 DEF PaidSince, Cost
    <3>2. paid[c] - paid[c] = 0 /\ (clock + 1) - (clock + 1) = 0
      BY <1>2, <1>3, <2>1 DEF RateTypeOK
    <3>3. Left(c, s)' = Full + ((clock + 1) - (clock + 1)) * R - (paid[c] - paid[c]) * Cost
      BY <1>1, <2>5, <3>1 DEF Left, Full
    <3>4. ((clock + 1) - (clock + 1)) * R = 0 /\ (paid[c] - paid[c]) * Cost = 0
      BY <3>2, Amounts
    <3> QED BY <3>3, <3>4, FullInt
  <2> HIDE DEF T, R
  <2>6. /\ \A s \in created[c]..clock : s \in 0..clock /\ Refilled(c) <= Left(c, s)
        /\ \E s \in created[c]..clock : Refilled(c) = Left(c, s)
    BY <1>2, <1>3, <2>1 DEF LevelOK
  <2>7. \A s \in created[c]..(clock + 1) : Refilled(c)' <= Left(c, s)'
    <3> TAKE s \in created[c]..(clock + 1)
    <3>1. CASE s = clock + 1
      <4>1. Left(c, s)' = Full
        BY <2>5, <3>1
      <4> QED BY <2>2, <2>3, <4>1, FullInt
    <3>2. CASE s # clock + 1
      <4>1. s \in created[c]..clock
        BY <1>3, <2>1, <3>2
      <4>2. Left(c, s)' = Left(c, s) + R /\ Refilled(c) <= Left(c, s) /\ Left(c, s) \in Int
        BY <2>2, <2>4, <2>6, <4>1
      <4> QED BY <2>2, <2>3, <4>2, FullInt
    <3> QED BY <3>1, <3>2
  <2>8. \E s \in created[c]..(clock + 1) : Refilled(c)' = Left(c, s)'
    <3>1. CASE Full <= T + R
      <4>1. clock + 1 \in created[c]..(clock + 1)
        BY <1>3, <2>1
      <4>2. \A s : s = clock + 1 => Left(c, s)' = Full
        BY <2>5
      <4>3. \E s \in created[c]..(clock + 1) : s = clock + 1
        BY <4>1
      <4> QED BY <2>3, <3>1, <4>2, <4>3
    <3>2. CASE ~(Full <= T + R)
      <4>1. Refilled(c)' = T + R /\ Refilled(c) = T
        BY <2>2, <2>3, <3>2, Amounts
      <4>2. PICK s \in created[c]..clock : Refilled(c) = Left(c, s)
        BY <2>6
      <4>3. s \in created[c]..(clock + 1) /\ s \in 0..clock
        BY <1>3, <2>1
      <4> QED BY <2>4, <4>1, <4>2, <4>3
    <3> QED BY <3>1, <3>2
  <2> QED BY <2>7, <2>8
<1> QED
  BY <1>5, <1>6, <1>7 DEF RateInv

LEMMA RateNextInv == RateInv /\ [RateNext]_rateVars => RateInv'
<1> SUFFICES ASSUME RateInv, [RateNext]_rateVars PROVE RateInv'
  OBVIOUS
<1>1. CASE UNCHANGED rateVars
  <2>1. RateTypeOK' /\ BucketsOK'
    BY <1>1 DEF rateVars, RateInv, RateTypeOK, BucketsOK
  <2>2. LevelOK'
    BY <1>1 DEF rateVars, RateInv, LevelOK, Refilled, Left, PaidSince, Full, Cost
  <2> QED BY <2>1, <2>2 DEF RateInv
<1>2. ASSUME NEW c \in Clients, NEW b \in BOOLEAN, MSG(c, b) \/ PM(c, b)
      PROVE  RateInv'
  BY <1>1, <1>2, CheckStep DEF MSG, PM
<1> QED
  BY <1>1, <1>2, NewBucketStep, DropBucketStep, ClockTickStep DEF RateNext

\* PaysExactly (client_handler.c, rate_limit_check), for any burst, refill, cost and
\* resolution of the clock, and any number of clients: in no interval does a client
\* get more through than a full bucket and what the interval adds, and it is refused
\* only when some interval has no cost left.
THEOREM BucketPaysExactly == RateSpec => []PaysExactly
<1>1. RateInv => PaysExactly
  <2> SUFFICES ASSUME RateInv PROVE PaysExactly
    OBVIOUS
  <2>1. RateTypeOK /\ BucketsOK /\ LevelOK
    BY DEF RateInv
  <2>2. ASSUME NEW c \in connected
        PROVE  /\ \A s \in created[c]..clock : Left(c, s) >= 0
               /\ Refilled(c) = Min({Left(c, s) : s \in created[c]..clock})
    <3>1. c \in Clients
      BY <2>1 DEF RateTypeOK
    <3>2. /\ Refilled(c) \in 0..Full /\ clock \in Nat /\ created[c] \in Nat
          /\ \A s \in 0..clock : Left(c, s) \in Int
      BY <2>1, <3>1, Levels
    <3>3. /\ \A s \in created[c]..clock : Left(c, s) \in Int /\ Refilled(c) <= Left(c, s)
          /\ \E s \in created[c]..clock : Refilled(c) = Left(c, s)
      BY <2>1, <3>2 DEF LevelOK
    <3>4. \A s \in created[c]..clock : Left(c, s) >= 0
      BY <3>2, <3>3, Amounts
    <3> DEFINE L == {Left(c, s) : s \in created[c]..clock}
    <3>5. /\ L \subseteq Int /\ Refilled(c) \in L /\ \A y \in L : Refilled(c) <= y
          /\ Refilled(c) \in Int
      BY <3>2, <3>3, Amounts
    <3> HIDE DEF L
    <3>6. Refilled(c) = Min(L)
      BY <3>5, MinIs
    <3> QED BY <3>4, <3>6 DEF L
  <2> QED BY <2>1, <2>2 DEF PaysExactly, BurstBound, BucketExact
<1> QED
  BY <1>1, RateInitInv, RateNextInv, PTL DEF RateSpec
===============================================================================
