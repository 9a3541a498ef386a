-------------------------------- MODULE History --------------------------------
(***************************************************************************)
(* The message history of one room: the ring buffer of room_t (src/src/    *)
(* registry.c), the messages table (src/src/db.c) and the commands MSG,    *)
(* EDIT and DELETE that change both, each in two steps that other workers  *)
(* can come between: MSG saves the row and then takes room_lock, EDIT and  *)
(* DELETE change the ring under room_lock and then the row.  Every         *)
(* statement may fail: MSG goes on with an id of its own, EDIT and DELETE  *)
(* ignore the result, and a room is created with the rows that were read.  *)
(* It may be created again while the EDIT or DELETE of somebody who was    *)
(* put out has not reached the database, and the server may stop and start *)
(* again at any time.                                                      *)
(*                                                                         *)
(* Indices and counters are the C ones: slots are 0..Cap-1, history_count  *)
(* is the total that falls back to Cap when it reaches WrapAt (1000000 in  *)
(* the code).                                                              *)
(***************************************************************************)
EXTENDS Integers, Sequences, FiniteSets

CONSTANTS Writers,         \* connections in the room
          Users, UserOf,   \* the user of each; several may be of one user
          Admins,          \* writers that are the room's admin_client
          Texts, DeletedText,
          Cap, WrapAt,
          MaxMsgs,         \* bound on the number of MSG commands
          MaxBusy,         \* how many commands may be in progress at once
          FailsUntil       \* bound on failures: after this many MSGs none

ASSUME HistoryAssumption ==
    /\ UserOf \in [Writers -> Users] /\ Admins \subseteq Writers
    /\ DeletedText \notin Texts
    /\ Cap \in Nat \ {0} /\ WrapAt \in Nat /\ WrapAt >= Cap
    /\ MaxMsgs \in Nat /\ MaxBusy \in Nat /\ FailsUntil \in Int

Messages == [id : 1..2 * MaxMsgs, sender : Users,
             text : Texts \cup {DeletedText}, deleted : BOOLEAN]
NoMessage == [id |-> 0]      \* a slot of calloc'd memory

VARIABLES table,           \* rows of the room: a function from their ids
          history, history_count, history_start,
          saved,           \* MSG commands so far, the failed saves included
          pc, arg,         \* per writer: what its command still has to do
          \* The rest is history, kept for the properties; it begins when the
          \* room is loaded.
          crossed,         \* rows were not read, or a save failed or came
                           \* between another MSG's save and its entry
          loose,           \* ids whose row may lag: an UPDATE failed, two EDITs
                           \* overlapped, or one from before the load was late
          outrun           \* ... those with a DELETE from before the load

vars == <<table, history, history_count, history_start, saved, pc, arg,
          crossed, loose, outrun>>
ring == <<history, history_count, history_start>>

\* Any statement may fail, or find no memory, early enough for the bound.
DbFails == saved <= FailsUntil

Slots == 0..Cap - 1
Idle  == {w \in Writers : pc[w] = "idle"}
Storing  == {w \in Writers : pc[w] = "store"}
Editing  == {w \in Writers : pc[w] = "edit"}
Deleting == {w \in Writers : pc[w] = "delete"}
Start(w) == w \in Idle /\ Cardinality(Writers \ Idle) < MaxBusy

\* A command that ends keeps nothing.
End(w) ==
    /\ pc' = [pc EXCEPT ![w] = "idle"]
    /\ arg' = [arg EXCEPT ![w] = NoMessage]

Init ==
    /\ table = [i \in {} |-> NoMessage]
    /\ history = [s \in Slots |-> NoMessage]
    /\ history_count = 0 /\ history_start = 0
    /\ saved = 0 /\ crossed = FALSE /\ loose = {} /\ outrun = {}
    /\ pc = [w \in Writers |-> "idle"]
    /\ arg = [w \in Writers |-> NoMessage]

-------------------------------------------------------------------------------
\* Where room_send_history, room_edit_message and room_delete_message look for
\* the i-th oldest message, i counted from 0.
Stored == IF history_count < Cap THEN history_count ELSE Cap

Slot(i) == IF history_count < Cap THEN i ELSE (history_start + i) % Cap

\* What room_send_history replays.
Window == [i \in 1..Stored |-> history[Slot(i - 1)]]

-------------------------------------------------------------------------------
\* MSG: db_save_message.  When it fails the message gets a synthetic id, above
\* those of the table, and lives in memory only.
db_save_message(w, x) ==
    /\ Start(w)
    /\ saved < MaxMsgs
    /\ saved' = saved + 1
    /\ \E ok \in IF DbFails THEN BOOLEAN ELSE {TRUE} :
          LET m == [id |-> IF ok THEN Cardinality(DOMAIN table) + 1
                           ELSE MaxMsgs + saved + 1,
                    sender |-> UserOf[w], text |-> x, deleted |-> FALSE]
          IN  /\ arg' = [arg EXCEPT ![w] = m]
              /\ table' = IF ok THEN [i \in DOMAIN table \cup {m.id} |->
                                        IF i = m.id THEN m ELSE table[i]]
                          ELSE table
              /\ crossed' = (crossed \/ ~ok \/ Storing # {})
    /\ pc' = [pc EXCEPT ![w] = "store"]
    /\ UNCHANGED <<ring, loose, outrun>>

\* Mutant: the oldest message is overwritten but stays the oldest.
room_add_history_KeepStart(w) ==
    LET fits == history_count < Cap IN
    /\ pc[w] = "store"
    /\ history' = [history EXCEPT ![IF fits THEN history_count
                                    ELSE history_start] = arg[w]]
    /\ history_count' = IF history_count < WrapAt THEN history_count + 1 ELSE Cap
    /\ End(w)
    /\ UNCHANGED <<table, saved, history_start, crossed, loose, outrun>>

\* ... and the part of room_add_history under room_lock.
room_add_history(w) ==
    LET fits == history_count < Cap IN
    /\ pc[w] = "store"
    /\ history' = [history EXCEPT ![IF fits THEN history_count
                                    ELSE history_start] = arg[w]]
    /\ history_start' = IF fits THEN history_start ELSE (history_start + 1) % Cap
    /\ history_count' = IF history_count < WrapAt THEN history_count + 1 ELSE Cap
    /\ End(w)
    /\ UNCHANGED <<table, saved, crossed, loose, outrun>>

\* EDIT: only the author, and only a message that is still in the ring.
room_edit_message(w, i, x) ==
    LET s == Slot(i)
        k == history[s].id
    IN  /\ Start(w)
        /\ ~history[s].deleted
        /\ history[s].sender = UserOf[w]
        /\ history' = [history EXCEPT ![s].text = x]
        /\ arg' = [arg EXCEPT ![w] = history'[s]]
        /\ pc' = [pc EXCEPT ![w] = "edit"]
        /\ loose' = loose \cup {arg[v].id : v \in {v \in Editing : arg[v].id = k}}
        /\ UNCHANGED <<table, saved, history_count, history_start, crossed, outrun>>

\* An UPDATE of one row that fails; its caller does not look at the result.
UpdateFails(k) == DbFails /\ UNCHANGED table /\ loose' = loose \cup {k}

\* Mutant: the row of a deleted message is edited too.
db_edit_message_Deleted(w) ==
    LET k == arg[w].id IN
    /\ pc[w] = "edit"
    /\ \/ /\ table' = IF k \in DOMAIN table
                      THEN [table EXCEPT ![k].text = arg[w].text] ELSE table
          /\ UNCHANGED loose
       \/ UpdateFails(k)
    /\ End(w)
    /\ UNCHANGED <<ring, saved, crossed, outrun>>

\* ... UPDATE ... WHERE id = ? AND deleted = 0.
db_edit_message(w) ==
    LET k == arg[w].id IN
    /\ pc[w] = "edit"
    /\ \/ /\ table' = IF k \in DOMAIN table /\ ~table[k].deleted
                      THEN [table EXCEPT ![k].text = arg[w].text] ELSE table
          /\ UNCHANGED loose
       \/ UpdateFails(k)
    /\ End(w)
    /\ UNCHANGED <<ring, saved, crossed, outrun>>

\* Mutant: the message is taken out of the text but not marked.
room_delete_message_Unmarked(w, i) ==
    LET s == Slot(i) IN
    /\ Start(w)
    /\ ~history[s].deleted
    /\ history[s].sender = UserOf[w] \/ w \in Admins
    /\ history' = [history EXCEPT ![s].text = DeletedText]
    /\ arg' = [arg EXCEPT ![w] = history'[s]]
    /\ pc' = [pc EXCEPT ![w] = "delete"]
    /\ UNCHANGED <<table, saved, history_count, history_start, crossed, loose, outrun>>

\* DELETE: the author or the admin.
room_delete_message(w, i) ==
    LET s == Slot(i) IN
    /\ Start(w)
    /\ ~history[s].deleted
    /\ history[s].sender = UserOf[w] \/ w \in Admins
    /\ history' = [history EXCEPT ![s].text = DeletedText, ![s].deleted = TRUE]
    /\ arg' = [arg EXCEPT ![w] = history'[s]]
    /\ pc' = [pc EXCEPT ![w] = "delete"]
    /\ UNCHANGED <<table, saved, history_count, history_start, crossed, loose, outrun>>

\* ... and the row.  Memory shows the message as deleted already, whatever its
\* EDITs did, unless the room was created again in between.
db_delete_message(w) ==
    LET k == arg[w].id IN
    /\ pc[w] = "delete"
    /\ \/ /\ table' = IF k \in DOMAIN table /\ ~table[k].deleted
                      THEN [table EXCEPT ![k].text = DeletedText, ![k].deleted = TRUE]
                      ELSE table
          /\ loose' = loose \ ({k} \ outrun)
       \/ UpdateFails(k)
    /\ End(w)
    /\ UNCHANGED <<ring, saved, crossed, outrun>>

-------------------------------------------------------------------------------
\* Mutant: the newest first, as the inner SELECT has them.
db_load_history_Descending ==
    LET n == Cardinality(DOMAIN table) IN
    [i \in 1..IF n <= Cap THEN n ELSE Cap |-> table[n - i + 1]]

\* db_load_history: the Cap rows of highest id, by ascending id.  The ids are
\* 1..n because only this room writes here.
db_load_history ==
    LET n     == Cardinality(DOMAIN table)
        first == IF n <= Cap THEN 1 ELSE n - Cap + 1
    IN  [i \in 1..n - first + 1 |-> table[first + i - 1]]

\* The rows that are read before a step of the SELECT fails enter an empty ring;
\* none do when it cannot be prepared or create_room has no memory for them.
Load ==
    LET rows == db_load_history IN
    \E n \in IF DbFails THEN 0..Len(rows) ELSE {Len(rows)} :
       /\ history' = [s \in Slots |-> IF s < n THEN rows[s + 1] ELSE NoMessage]
       /\ history_count' = n
       /\ history_start' = 0
       /\ crossed' = (n < Len(rows))

\* The room was left, deleted and is created by somebody's JOIN.  A writer that
\* was put out of it may still have its UPDATE to do, which needs the id and the
\* text only; a MSG between its two steps would go on with the freed room, the
\* subject of module RoomRace.
create_room ==
    /\ Idle # {}
    /\ Storing = {}
    /\ Load
    /\ loose' = {arg[w].id : w \in Editing \cup Deleting}
    /\ outrun' = {arg[w].id : w \in Deleting}
    /\ UNCHANGED <<table, saved, pc, arg>>

\* The server stops, wherever its commands are, and is started again: what was
\* written to the table is all that remains.
restart ==
    /\ pc' = [w \in Writers |-> "idle"]
    /\ arg' = [w \in Writers |-> NoMessage]
    /\ Load
    /\ loose' = {} /\ outrun' = {}
    /\ UNCHANGED <<table, saved>>

Next ==
    \/ \E w \in Writers, x \in Texts : db_save_message(w, x)
    \/ \E w \in Writers : room_add_history(w)
    \/ \E w \in Writers, x \in Texts : \E i \in 0..Stored - 1 :
          room_edit_message(w, i, x)
    \/ \E w \in Writers : db_edit_message(w)
    \/ \E w \in Writers : \E i \in 0..Stored - 1 : room_delete_message(w, i)
    \/ \E w \in Writers : db_delete_message(w)
    \/ create_room
    \/ restart

Spec == Init /\ [][Next]_vars

-------------------------------------------------------------------------------
(***************************************************************************)
(* Properties.                                                             *)
(***************************************************************************)
\* Counters and slots stay in range; the total never runs past WrapAt.
TypeOK ==
    /\ DOMAIN table \subseteq 1..MaxMsgs /\ \A i \in DOMAIN table : table[i] \in Messages
    /\ history \in [Slots -> Messages \cup {NoMessage}]
    /\ history_count \in 0..WrapAt /\ history_start \in Slots
    /\ saved \in 0..MaxMsgs /\ crossed \in BOOLEAN
    /\ loose \subseteq 1..2 * MaxMsgs /\ outrun \subseteq loose
    /\ pc \in [Writers -> {"idle", "store", "edit", "delete"}]
    /\ arg \in [Writers -> Messages \cup {NoMessage}]

\* The ring implements the window of the last Cap messages: what a client that
\* joins is shown is what was added, nothing lost, repeated or out of order,
\* also after the total has fallen back; a new room shows the last rows.
Log == INSTANCE RoomLog WITH
           Texts <- Texts \cup {DeletedText},
           window <- Window,
           stored <- [i \in 1..Cardinality(DOMAIN table) |-> table[i]]
ImplementsLog == Log!Spec

\* When no command is in progress, every replayed message has the text and the
\* deletion mark of its row, if all its UPDATEs succeeded, its EDITs did not
\* overlap each other and none was overtaken by a new creation of the room; and
\* once the UPDATE of a DELETE succeeded, whatever happened to its EDITs.
ContentSurvives ==
    Idle = Writers =>
        \A i \in 1..Len(Window) :
            Window[i].id \in DOMAIN table \ loose => Window[i] = table[Window[i].id]

\* The ring is in range, and agrees with the table about every message it shows
\* (room_add_history, EDIT, DELETE).
StoreAgrees == TypeOK /\ ContentSurvives

\* A row never runs ahead of memory in being deleted, at any moment and whatever
\* fails: a message whose row is deleted is not replayed with its text, except
\* where the room was created between the two steps of its DELETE.
DeletionsShown ==
    \A i \in 1..Len(Window) : LET k == Window[i].id IN
        k \in DOMAIN table \ outrun /\ table[k].deleted =>
            Window[i].deleted /\ Window[i].text = DeletedText

\* README.md: the history is "replayed on JOIN, survives restart via DB".  When
\* no command is in progress the replay from memory (room_send_history) and the
\* one from the database (db_load_history) show the same messages in the same
\* order, unless a save or the load failed or two MSG commands took their ids in
\* one order and entered the ring in the other; and with the same content but
\* for those excepted in ContentSurvives.
WindowSurvives ==
    LET rows == db_load_history IN
    Idle = Writers /\ ~crossed =>
        /\ Len(Window) = Len(rows)
        /\ \A i \in 1..Len(rows) :
              /\ Window[i].id = rows[i].id
              /\ rows[i].id \notin loose => Window[i] = rows[i]

===============================================================================
