-------------------------------- MODULE Paging ---------------------------------
(***************************************************************************)
(* Lists in pages: HISTORY, by cursor, from the messages table             *)
(* (db_load_history_before in src/src/db.c), and ROOMS and WHO, by offset, *)
(* from an array of the registry (src/src/client_handler.c).               *)
(*                                                                         *)
(* A client asks for page after page until one is empty, while others add  *)
(* messages, and add and remove rooms or members.  Removal closes the gap  *)
(* in the array.                                                           *)
(***************************************************************************)
EXTENDS Integers, Sequences, FiniteSets, SequencesExt, FiniteSetsExt

CONSTANTS DefaultLimit, MaxLimit,  \* 20 and 100 in the code
          MaxList,                 \* 1000 in the code
          Limits,                  \* the limits a client may ask for
          MaxId,                   \* bound on the ids of messages
          Entries,                 \* names of rooms, or members
          MaxChanges               \* bound on changes of the array

ASSUME PagingAssumption ==
    /\ DefaultLimit \in Nat \ {0} /\ MaxLimit \in Nat /\ DefaultLimit <= MaxLimit
    /\ MaxList \in Nat \ {0}
    /\ Limits \subseteq Int /\ MaxId \in Nat /\ MaxChanges \in Nat

VARIABLES rows,                  \* ids of the room's messages
          lastId,                \* AUTOINCREMENT, over all rooms
          cursor, shown,         \* the client's next cursor, the pages it got, the
                                 \* last one in front
          before,                \* history: rows at its first page
          array,                 \* room_list, or members
          offset, listed,        \* the client's next offset, what it was shown
          stayed,                \* history: entries there since its first page
          skipped,               \* history: entries that moved in front of the offset
          returned,              \* history: an entry that was shown was put back
          changes,
          reading                \* "start"; "history", "list"; then "end", or
                                 \* "shown", "listed" after an empty page

historyVars == <<rows, lastId, cursor, shown, before>>
listVars == <<array, offset, listed, stayed, skipped, returned, changes>>
pagingVars == <<historyVars, listVars, reading>>

PagingInit ==
    /\ rows = {} /\ lastId = 0 /\ cursor = 0 /\ shown = <<>> /\ before = {}
    /\ array = <<>> /\ offset = 0 /\ listed = <<>> /\ stayed = {}
    /\ skipped = {} /\ returned = FALSE /\ changes = 0
    /\ reading = "start"

-------------------------------------------------------------------------------
(***************************************************************************)
(* HISTORY <room> <cursor> <limit>.                                        *)
(***************************************************************************)
\* MSG in the room, or in another one.
SaveMessage(here) ==
    /\ lastId < MaxId
    /\ lastId' = lastId + 1
    /\ rows' = IF here THEN rows \cup {lastId'} ELSE rows
    /\ UNCHANGED <<cursor, shown, before, listVars, reading>>

\* 0, or what atoi makes 0, stands for the default.
Limit(n) == IF n <= 0 THEN DefaultLimit ELSE IF n > MaxLimit THEN MaxLimit ELSE n

\* Mutant: the row at the cursor is shown again.
Below_Inclusive(b) == {id \in rows : b = 0 \/ id <= b}

\* WHERE id < ?, or all rows for cursor 0, ...
Below(b) == {id \in rows : b = 0 \/ id < b}

\* ... ORDER BY id DESC LIMIT ?, turned round: the highest ids, ascending (one
\* sequence is like that).
db_load_history_before(b, limit) ==
    {page \in [1..Min({limit, Cardinality(Below(b))}) -> Below(b)] :
        /\ \A i, j \in DOMAIN page : i < j => page[i] < page[j]
        /\ \A id \in Below(b) \ ToSet(page) : \A i \in DOMAIN page : id < page[i]}

NextCursor(page) == IF page = <<>> THEN 0 ELSE page[1]

\* One HISTORY of a client that follows the cursors.
HISTORY(n) ==
    \E page \in db_load_history_before(cursor, Limit(n)) :
    /\ reading \in {"start", "history"}
    /\ cursor' = NextCursor(page)
    /\ shown' = page \o shown
    /\ before' = IF reading = "start" THEN rows ELSE before
    /\ reading' = IF page = <<>> THEN "shown" ELSE "history"
    /\ UNCHANGED <<rows, lastId, listVars>>

\* A query that fails looks like the end of the history.
HistoryFails ==
    /\ reading \in {"start", "history"}
    /\ reading' = "end"
    /\ UNCHANGED <<historyVars, listVars>>

-------------------------------------------------------------------------------
(***************************************************************************)
(* ROOMS <offset> <limit> and WHO <offset> <limit>.                        *)
(***************************************************************************)
\* create_room, room_add_member.
AddEntry(e) ==
    /\ changes < MaxChanges /\ ~Contains(array, e)
    /\ array' = Append(array, e)
    /\ returned' = (returned \/ Contains(listed, e))
    /\ changes' = changes + 1
    /\ UNCHANGED <<historyVars, offset, listed, stayed, skipped, reading>>

\* room_delete_if_empty, room_remove_member: later entries move up.
RemoveEntry(i) ==
    /\ changes < MaxChanges
    /\ array' = RemoveAt(array, i)
    /\ stayed' = stayed \ {array[i]}
    /\ skipped' = IF i <= offset /\ offset < Len(array)
                  THEN skipped \cup {array[offset + 1]} ELSE skipped
    /\ changes' = changes + 1
    /\ UNCHANGED <<historyVars, offset, listed, returned, reading>>

\* Mutant: the limit is taken for the end of the page.
ListPage_LimitIsEnd(o, n) == SubSeq(array, o + 1, Min({n, Len(array)}))

\* The entries from offset o on, at most n of them; a negative n given by the
\* client means none, and a large one is cut.
ListPage(o, n) ==
    LET from == Min({o, Len(array)})
        most == Min({Max({n, 0}), MaxList}) IN
    SubSeq(array, from + 1, Min({from + most, Len(array)}))

\* What of a page fits into the line: at least the first entry.
Shortened(page) == {SubSeq(page, 1, k) : k \in Min({1, Len(page)})..Len(page)}

\* One ROOMS or WHO of a client that goes on after the last entry it was shown.
LISTPAGE(n) ==
    \E page \in Shortened(ListPage(offset, n)) :
    /\ reading \in {"start", "list"} /\ n > 0
    /\ listed' = listed \o page
    /\ offset' = offset + Len(page)
    /\ stayed' = IF reading = "start" THEN ToSet(array) ELSE stayed
    /\ reading' = IF page = <<>> THEN "listed" ELSE "list"
    /\ UNCHANGED <<historyVars, array, skipped, returned, changes>>

PagingNext ==
    \/ \E here \in BOOLEAN : SaveMessage(here)
    \/ \E n \in Limits : HISTORY(n)
    \/ HistoryFails
    \/ \E e \in Entries : AddEntry(e)
    \/ \E i \in DOMAIN array : RemoveEntry(i)
    \/ \E n \in Limits : LISTPAGE(n)

PagingSpec == PagingInit /\ [][PagingNext]_pagingVars

-------------------------------------------------------------------------------
(***************************************************************************)
(* Properties.                                                             *)
(***************************************************************************)
\* The type of every variable; what was shown exists.
PagingTypeOK ==
    /\ rows \subseteq 1..lastId /\ lastId \in 0..MaxId /\ cursor \in 0..MaxId
    /\ ToSet(shown) \subseteq rows
    /\ ToSet(array) \subseteq Entries /\ IsInjective(array)
    /\ offset = Len(listed) /\ changes \in 0..MaxChanges
    /\ reading \in {"start", "history", "list", "end", "shown", "listed"}

\* The pages of HISTORY, put together, are in the order of the ids and show
\* nothing twice; when an empty page ends them, they hold every message there
\* was at the first page, whatever was added between two pages and whatever
\* limits were asked for (db_load_history_before).
HistoryComplete ==
    /\ \A i, j \in DOMAIN shown : i < j => shown[i] < shown[j]
    /\ reading = "shown" => before = ToSet(shown)

\* Pages of HISTORY fit together, and positions and lists are in range.
PagesFit == PagingTypeOK /\ HistoryComplete

\* Pages by offset are weaker.  ROOMS and WHO show no entry twice, unless it
\* went and came back, and of what stayed they leave out at most one entry for
\* every removal: when an entry before the offset goes, the one at the offset
\* moves in front of it.
ListComplete ==
    /\ returned \/ IsInjective(listed)
    /\ reading = "listed" => stayed \subseteq ToSet(listed) \cup skipped
===============================================================================
