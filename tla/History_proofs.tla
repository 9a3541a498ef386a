---------------------------- MODULE History_proofs -----------------------------
(***************************************************************************)
(* Proofs about the message history of a room, for any capacity of the     *)
(* ring, any number of connections and messages, of one user or of many,   *)
(* with and without failing statements: the ring implements the window of  *)
(* RoomLog, and memory and table agree.  Everything is said of Window, the *)
(* sequence that room_send_history replays; three lemmas say how it moves. *)
(***************************************************************************)
EXTENDS History, FiniteSetTheorems, SequenceTheorems, TLAPS

\* The number of rows, and the ids given out with n rows and s saves: those of
\* the rows and the synthetic ones.
Rows == Cardinality(DOMAIN table)
Given(n, s) == 1..n \cup MaxMsgs + 1 .. MaxMsgs + s

Changing == {w \in Writers : pc[w] \in {"edit", "delete"}}

\* Rows are numbered from 1; a deleted one has lost its text.
TableOK ==
    /\ Rows \in 0..saved
    /\ table \in [1..Rows -> Messages]
    /\ \A i \in 1..Rows : /\ table[i].id = i
                          /\ table[i].deleted => table[i].text = DeletedText

\* The ring begins at slot 0 until it is full, and what is shown was written.
RingOK ==
    /\ history_count < Cap => history_start = 0
    /\ \A i \in 1..Stored : Window[i] \in Messages /\ Window[i].id \in Given(Rows, saved)
    /\ \A i, j \in 1..Stored : Window[i].id = Window[j].id => i = j

\* A command in progress has a message; one that is to be stored has an id that
\* nobody else has.
ArgsOK ==
    /\ \A w \in Storing \cup Changing : arg[w] \in Messages /\ arg[w].id \in Given(Rows, saved)
    /\ \A w \in Storing : /\ ~arg[w].deleted
                          /\ \A v \in Storing \cup Changing :
                                arg[v].id = arg[w].id => v = w
                          /\ \A i \in 1..Stored : Window[i].id # arg[w].id
                          /\ arg[w].id \in 1..Rows => arg[w] = table[arg[w].id]

\* Who wrote a message is the same everywhere.
SendersOK ==
    /\ \A i \in 1..Stored :
          Window[i].id \in 1..Rows => Window[i].sender = table[Window[i].id].sender
    /\ \A w \in Changing :
          arg[w].id \in 1..Rows => arg[w].sender = table[arg[w].id].sender

\* Unless commands crossed, the ring shows the last rows, but for the one that
\* is still to be stored.
Complete == IF Storing = {} THEN Rows ELSE Rows - 1
OrderOK ==
    ~crossed =>
       /\ \A w, v \in Storing : w = v
       /\ \A w \in Storing : arg[w].id = Rows
       /\ Stored = IF Complete < Cap THEN Complete ELSE Cap
       /\ \A i \in 1..Stored : Window[i].id = Complete - Stored + i

HistoryInv == TypeOK /\ TableOK /\ RingOK /\ ArgsOK /\ SendersOK /\ OrderOK

\* Per row: the texts that EDITs in progress are about to write, and the DELETEs.
Edits   == [k \in 1..Rows |->
               {arg[w].text : w \in {v \in Writers : pc[v] = "edit" /\ arg[v].id = k}}]
Deletes == [k \in 1..Rows |-> {w \in Writers : pc[w] = "delete" /\ arg[w].id = k}]

\* A message that is shown is its row, or somebody is about to make it so.
Agree(m, row, texts, deletes) ==
    IF m.deleted
    THEN m.text = DeletedText /\ (m = row \/ deletes # {})
    ELSE /\ ~row.deleted /\ deletes = {}
         /\ texts \subseteq {m.text}
         /\ m = row \/ texts # {}

\* A message whose row is deleted, or is going to be, is shown so.
Marked(m, row, deletes) ==
    row.deleted \/ deletes # {} => m.deleted /\ m.text = DeletedText

\* The first for the rows that do not lag, the second also for those that do,
\* but for the ones whose DELETE comes from before the room was loaded.
ContentInv ==
    \A i \in 1..Stored : \A k \in 1..Rows :
       Window[i].id = k =>
          /\ k \notin loose => Agree(Window[i], table[k], Edits[k], Deletes[k])
          /\ k \notin outrun => Marked(Window[i], table[k], Deletes[k])

-------------------------------------------------------------------------------
(* The ring: slots and the window. *)

LEMMA ModSmall ==
    ASSUME NEW c \in Nat \ {0}, NEW x \in 0..c - 1
    PROVE  x % c = x
  OBVIOUS

LEMMA ModOnce ==
    ASSUME NEW c \in Nat \ {0}, NEW x \in c..2 * c - 1
    PROVE  x % c = x - c
  OBVIOUS

LEMMA ModTwice ==
    ASSUME NEW c \in Nat \ {0}, NEW a \in 0..c - 1, NEW i \in 0..c - 1
    PROVE  (a + i) % c = IF a + i < c THEN a + i ELSE a + i - c
<1>1. PICK x \in Int : x = a + i
  OBVIOUS
<1>2. CASE x < c
  BY <1>1, <1>2, ModSmall
<1>3. CASE ~(x < c)
  <2>1. x \in c..2 * c - 1
    BY <1>1, <1>3
  <2>2. x % c = x - c
    BY <2>1, ModOnce
  <2> QED BY <1>1, <1>3, <2>2
<1> QED
  BY <1>2, <1>3

LEMMA StoredRange ==
    ASSUME TypeOK
    PROVE  Stored \in 0..Cap /\ (Stored < Cap => Stored = history_count)
           /\ (Stored < Cap <=> history_count < Cap)
  BY HistoryAssumption DEF TypeOK, Stored

LEMMA SlotValue ==
    ASSUME TypeOK, NEW i \in 0..Cap - 1
    PROVE  (history_start + i) % Cap = IF history_start + i < Cap
                                       THEN history_start + i
                                       ELSE history_start + i - Cap
  BY HistoryAssumption, ModTwice DEF TypeOK, Slots

LEMMA SlotsDistinct ==
    ASSUME TypeOK
    PROVE  /\ \A i \in 0..Stored - 1 : Slot(i) \in Slots
           /\ \A i, j \in 0..Stored - 1 : Slot(i) = Slot(j) => i = j
<1>1. Cap \in Nat \ {0} /\ history_start \in 0..Cap - 1 /\ history_count \in Nat
  BY HistoryAssumption DEF TypeOK, Slots
<1>2. CASE history_count < Cap
  BY <1>1, <1>2 DEF Slot, Stored, Slots
<1>3. CASE ~(history_count < Cap)
  <2>1. Stored = Cap
    BY <1>3 DEF Stored
  <2>2. \A i \in 0..Cap - 1 : Slot(i) = IF history_start + i < Cap
                                       THEN history_start + i
                                       ELSE history_start + i - Cap
    BY <1>3, SlotValue DEF Slot
  <2> QED BY <1>1, <2>1, <2>2 DEF Slots
<1> QED
  BY <1>2, <1>3

\* EDIT and DELETE change one message of the window.
LEMMA WindowChanged ==
    ASSUME TypeOK, NEW k \in 0..Stored - 1, NEW m,
           history' = [history EXCEPT ![Slot(k)] = m],
           UNCHANGED <<history_count, history_start>>
    PROVE  /\ Stored' = Stored
           /\ \A i \in 1..Stored : Window'[i] = IF i = k + 1 THEN m ELSE Window[i]
<1>1. Stored \in Nat /\ Stored' = Stored /\ \A i : Slot(i)' = Slot(i)
  BY StoredRange DEF Stored, Slot
<1>2. ASSUME NEW i \in 1..Stored
      PROVE  Window'[i] = IF i = k + 1 THEN m ELSE Window[i]
  <2>1. i - 1 \in 0..Stored - 1 /\ (i = k + 1 <=> i - 1 = k)
    BY <1>1
  <2>2. Window'[i] = history'[Slot(i - 1)] /\ Window[i] = history[Slot(i - 1)]
    BY <1>1 DEF Window
  <2>3. Slot(k) \in Slots /\ Slot(i - 1) \in Slots /\ (Slot(k) = Slot(i - 1) <=> k = i - 1)
    BY <2>1, SlotsDistinct
  <2>4. history'[Slot(i - 1)] = IF Slot(i - 1) = Slot(k) THEN m ELSE history[Slot(i - 1)]
    BY <2>3 DEF TypeOK
  <2> QED BY <2>1, <2>2, <2>3, <2>4
<1> QED
  BY <1>1, <1>2

\* A message that enters the ring comes last; once the ring is full, the oldest
\* one goes, also when the total falls back to Cap.
LEMMA WindowPushed ==
    ASSUME TypeOK, history_count < Cap => history_start = 0,
           NEW w \in Writers, room_add_history(w)
    PROVE  /\ Stored' = IF Stored < Cap THEN Stored + 1 ELSE Cap
           /\ Stored < Cap =>
                 \A i \in 1..Stored + 1 :
                    Window'[i] = IF i <= Stored THEN Window[i] ELSE arg[w]
           /\ Stored = Cap =>
                 \A i \in 1..Cap : Window'[i] = IF i < Cap THEN Window[i + 1] ELSE arg[w]
           /\ history_count' \in 0..WrapAt /\ history_start' \in Slots
           /\ history_count' < Cap => history_start' = 0
           /\ history' \in [Slots -> Messages \cup {NoMessage, arg[w]}]
<1>1. /\ Cap \in Nat \ {0} /\ WrapAt \in Nat /\ WrapAt >= Cap
      /\ history_start \in 0..Cap - 1 /\ history_count \in 0..WrapAt
      /\ history \in [Slots -> Messages \cup {NoMessage}] /\ Slots = 0..Cap - 1
  BY HistoryAssumption DEF TypeOK, Slots
<1>2. /\ history_count' = IF history_count < WrapAt THEN history_count + 1 ELSE Cap
      /\ history_start' = IF history_count < Cap THEN history_start
                                                 ELSE (history_start + 1) % Cap
      /\ history' = [history EXCEPT ![IF history_count < Cap THEN history_count
                                      ELSE history_start] = arg[w]]
  BY DEF room_add_history
<1>3. history' \in [Slots -> Messages \cup {NoMessage, arg[w]}]
  BY <1>1, <1>2
<1>4. CASE history_count < Cap
  <2>1. /\ Stored = history_count /\ Stored' = history_count + 1
        /\ history_count' = history_count + 1
        /\ history_start' = 0 /\ history_start = 0
    BY <1>1, <1>2, <1>4 DEF Stored
  <2>2. \A i \in 0..Stored : Slot(i)' = i
    <3>1. CASE history_count' < Cap
      BY <3>1 DEF Slot
    <3>2. CASE ~(history_count' < Cap)
      <4>1. \A i : Slot(i)' = (0 + i) % Cap
        BY <2>1, <3>2 DEF Slot
      <4>2. ASSUME NEW i \in 0..Stored PROVE (0 + i) % Cap = i
        <5>1. i \in 0..Cap - 1 /\ 0 + i = i
          BY <1>1, <1>4, <2>1
        <5> QED BY <1>1, <5>1, ModSmall
      <4> QED BY <4>1, <4>2
    <3> QED BY <3>1, <3>2
  <2>3. \A i \in 0..Stored - 1 : Slot(i) = i
    BY <1>4 DEF Slot
  <2>4. ASSUME NEW i \in 1..Stored + 1
        PROVE  Window'[i] = IF i <= Stored THEN Window[i] ELSE arg[w]
    <3>1. Window'[i] = history'[i - 1]
      BY <1>1, <2>1, <2>2 DEF Window
    <3>2. i <= Stored => Window[i] = history[i - 1]
      BY <1>1, <2>1, <2>3 DEF Window
    <3>3. history'[i - 1] = IF i - 1 = history_count THEN arg[w] ELSE history[i - 1]
      BY <1>1, <1>2, <1>4, <2>1
    <3> QED BY <1>1, <2>1, <3>1, <3>2, <3>3
  <2> QED BY <1>1, <1>3, <1>4, <2>1, <2>4
<1>5. CASE ~(history_count < Cap)
  <2>1. /\ Stored = Cap /\ Stored' = Cap /\ history_count' \in Cap..WrapAt
        /\ history_start' = (history_start + 1) % Cap
    BY <1>1, <1>2, <1>5 DEF Stored
  <2>2. history_start' = IF history_start + 1 < Cap THEN history_start + 1 ELSE 0
    <3>1. CASE history_start + 1 < Cap
      BY <1>1, <2>1, <3>1, ModSmall
    <3>2. CASE ~(history_start + 1 < Cap)
      BY <1>1, <2>1, <3>2, ModOnce
    <3> QED BY <3>1, <3>2
  <2>3. \A i \in 0..Cap - 1 : Slot(i) = IF history_start + i < Cap
                                       THEN history_start + i
                                       ELSE history_start + i - Cap
    BY <1>5, SlotValue DEF Slot
  <2>4. \A i \in 0..Cap - 1 : Slot(i)' = IF history_start' + i < Cap
                                        THEN history_start' + i
                                        ELSE history_start' + i - Cap
    <3>1. PICK a : a = history_start'
      OBVIOUS
    <3>2. a \in 0..Cap - 1
      BY <1>1, <2>2, <3>1
    <3>3. \A i : Slot(i)' = (a + i) % Cap
      BY <1>1, <2>1, <3>1 DEF Slot
    <3>4. ASSUME NEW i \in 0..Cap - 1
          PROVE  (a + i) % Cap = IF a + i < Cap THEN a + i ELSE a + i - Cap
      BY <1>1, <3>2, ModTwice
    <3> QED BY <3>1, <3>3, <3>4
  <2>5. ASSUME NEW i \in 1..Cap
        PROVE  Window'[i] = IF i < Cap THEN Window[i + 1] ELSE arg[w]
    <3>1. i - 1 \in 0..Cap - 1 /\ Window'[i] = history'[Slot(i - 1)']
      BY <1>1, <2>1 DEF Window
    <3>2. CASE i < Cap
      <4>1. i \in 0..Cap - 1 /\ Window[i + 1] = history[Slot(i)]
        BY <1>1, <2>1, <3>2 DEF Window
      <4>2. Slot(i - 1)' = Slot(i) /\ Slot(i) # history_start /\ Slot(i) \in Slots
        BY <1>1, <2>2, <2>3, <2>4, <3>1, <3>2, <4>1
      <4> QED BY <1>1, <1>2, <1>5, <3>1, <3>2, <4>1, <4>2
    <3>3. CASE ~(i < Cap)
      <4>1. i = Cap
        BY <1>1, <3>3
      <4>2. Slot(i - 1)' = history_start
        BY <1>1, <2>2, <2>4, <3>1, <4>1
      <4> QED BY <1>1, <1>2, <1>5, <3>1, <3>3, <4>2
    <3> QED BY <3>2, <3>3
  <2> QED BY <1>1, <1>3, <1>5, <2>1, <2>2, <2>5
<1> QED
  BY <1>4, <1>5


\* How many rows db_load_history returns, and which.
Loadable == IF Rows <= Cap THEN Rows ELSE Cap

LEMMA RowsLoaded ==
    ASSUME TableOK, saved \in Nat
    PROVE  /\ Rows \in Nat /\ Loadable \in 0..Cap /\ Loadable <= Rows
           /\ db_load_history = [i \in 1..Loadable |-> table[Rows - Loadable + i]]
           /\ Len(db_load_history) = Loadable
<1>1. Rows \in Nat /\ Cap \in Nat
  BY HistoryAssumption DEF TableOK
<1>2. Loadable \in 0..Cap /\ Loadable <= Rows
  BY <1>1 DEF Loadable
<1>3. CASE Rows <= Cap
  <2>1. db_load_history = [i \in 1..Rows - 1 + 1 |-> table[1 + i - 1]]
    BY <1>3 DEF db_load_history, Rows
  <2>2. Rows - 1 + 1 = Rows /\ Loadable = Rows
    BY <1>1, <1>3 DEF Loadable
  <2>3. \A i \in 1..Rows : 1 + i - 1 = Rows - Rows + i
    BY <1>1
  <2> QED BY <1>1, <1>2, <2>1, <2>2, <2>3
<1>4. CASE ~(Rows <= Cap)
  <2>1. db_load_history = [i \in 1..Rows - (Rows - Cap + 1) + 1 |->
                              table[(Rows - Cap + 1) + i - 1]]
    BY <1>4 DEF db_load_history, Rows
  <2>2. Rows - (Rows - Cap + 1) + 1 = Cap /\ Loadable = Cap
    BY <1>1, <1>4 DEF Loadable
  <2>3. \A i \in 1..Cap : (Rows - Cap + 1) + i - 1 = Rows - Cap + i
    BY <1>1
  <2> QED BY <1>1, <1>2, <2>1, <2>2, <2>3
<1> QED
  BY <1>3, <1>4

\* A room that is loaded shows the first of the last rows, all of them unless
\* the load failed.
LEMMA WindowLoaded ==
    ASSUME TypeOK, TableOK, Load
    PROVE  \E n \in 0..Loadable :
              /\ Stored' = n
              /\ \A i \in 1..n : Window'[i] = table[Rows - Loadable + i]
              /\ history_count' = n /\ history_start' = 0
              /\ crossed' = (n < Loadable)
              /\ history' \in [Slots -> Messages \cup {NoMessage}]
<1>1. /\ Rows \in Nat /\ Cap \in Nat \ {0} /\ Loadable \in 0..Cap /\ Loadable <= Rows
      /\ Slots = 0..Cap - 1
  BY RowsLoaded, HistoryAssumption DEF TypeOK, Slots
<1>2. PICK n \in 0..Loadable :
         /\ history' = [s \in Slots |-> IF s < n THEN db_load_history[s + 1] ELSE NoMessage]
         /\ history_count' = n /\ history_start' = 0
         /\ crossed' = (n < Loadable)
  <2>1. Len(db_load_history) = Loadable /\ Loadable \in 0..Loadable
    BY <1>1, RowsLoaded DEF TypeOK
  <2>2. (IF DbFails THEN 0..Loadable ELSE {Loadable}) \subseteq 0..Loadable
    BY <2>1
  <2> QED BY <2>1, <2>2 DEF Load
<1>3. history' = [s \in Slots |-> IF s < n THEN table[Rows - Loadable + (s + 1)]
                                  ELSE NoMessage]
  <2>1. \A s \in Slots : s < n => db_load_history[s + 1] = table[Rows - Loadable + (s + 1)]
    BY <1>1, <1>2, RowsLoaded DEF TypeOK
  <2> QED BY <1>2, <2>1
<1>4. Stored' = n
  BY <1>1, <1>2 DEF Stored
<1>5. \A i \in 0..n - 1 : Slot(i)' = i
  <2>1. CASE n < Cap
    BY <1>2, <2>1 DEF Slot
  <2>2. CASE ~(n < Cap)
    <3>1. \A i : Slot(i)' = (0 + i) % Cap
      BY <1>2, <2>2 DEF Slot
    <3>2. ASSUME NEW i \in 0..n - 1 PROVE (0 + i) % Cap = i
      <4>1. i \in 0..Cap - 1 /\ 0 + i = i
        BY <1>1, <1>2
      <4> QED BY <1>1, <4>1, ModSmall
    <3> QED BY <3>1, <3>2
  <2> QED BY <2>1, <2>2
<1>6. ASSUME NEW i \in 1..n PROVE Window'[i] = table[Rows - Loadable + i]
  <2>1. i - 1 \in 0..n - 1 /\ i - 1 \in Slots /\ (i - 1) + 1 = i /\ i - 1 < n
    BY <1>1, <1>2
  <2>2. Window'[i] = history'[i - 1]
    BY <1>4, <1>5, <2>1 DEF Window
  <2> QED BY <1>3, <2>1, <2>2
<1>7. history' \in [Slots -> Messages \cup {NoMessage}]
  <2>1. ASSUME NEW s \in Slots, s < n
        PROVE  table[Rows - Loadable + (s + 1)] \in Messages
    <3>1. Rows - Loadable + (s + 1) \in 1..Rows
      BY <1>1, <1>2, <2>1
    <3> QED BY <3>1 DEF TableOK
  <2> QED BY <1>3, <2>1
<1> QED
  BY <1>2, <1>4, <1>6, <1>7

\* A saved message becomes the last row.
LEMMA RowAdded ==
    ASSUME TableOK, saved \in Nat, NEW m, m.id = Rows + 1,
           table' = [i \in DOMAIN table \cup {m.id} |-> IF i = m.id THEN m ELSE table[i]]
    PROVE  /\ Rows' = Rows + 1
           /\ table' = [i \in 1..Rows + 1 |-> IF i = Rows + 1 THEN m ELSE table[i]]
<1>1. Rows \in Nat /\ DOMAIN table = 1..Rows
  BY DEF TableOK
<1>2. 1..Rows \cup {Rows + 1} = 1..Rows + 1
  BY <1>1
<1>3. table' = [i \in 1..Rows + 1 |-> IF i = Rows + 1 THEN m ELSE table[i]]
  BY <1>1, <1>2
<1>4. DOMAIN table' = 1..Rows + 1
  BY <1>3
<1>5. Cardinality(1..Rows + 1) = Rows + 1
  BY <1>1, FS_Interval
<1> QED
  BY <1>3, <1>4, <1>5 DEF Rows


-------------------------------------------------------------------------------
(* The invariant. *)

LEMMA RingUnchanged ==
    ASSUME UNCHANGED ring
    PROVE  Stored' = Stored /\ Window' = Window
  BY DEF ring, Stored, Window, Slot

\* The message that MSG saves: with the id of a new row, or a synthetic one.
LEMMA SavedMessage ==
    ASSUME HistoryInv, NEW w \in Writers, NEW x \in Texts, db_save_message(w, x)
    PROVE  \E ok \in BOOLEAN, m \in Messages :
              /\ m.id = IF ok THEN Rows + 1 ELSE MaxMsgs + saved + 1
              /\ ~m.deleted
              /\ arg' = [arg EXCEPT ![w] = m]
              /\ table' = IF ok THEN [i \in DOMAIN table \cup {m.id} |->
                                         IF i = m.id THEN m ELSE table[i]]
                          ELSE table
              /\ crossed' = (crossed \/ ~ok \/ Storing # {})
<1>1. PICK ok \in BOOLEAN :
        LET m == [id |-> IF ok THEN Rows + 1 ELSE MaxMsgs + saved + 1,
                  sender |-> UserOf[w], text |-> x, deleted |-> FALSE]
        IN  /\ arg' = [arg EXCEPT ![w] = m]
            /\ table' = IF ok THEN [i \in DOMAIN table \cup {m.id} |->
                                      IF i = m.id THEN m ELSE table[i]]
                        ELSE table
            /\ crossed' = (crossed \/ ~ok \/ Storing # {})
  BY DEF db_save_message, Rows
<1> DEFINE m == [id |-> IF ok THEN Rows + 1 ELSE MaxMsgs + saved + 1,
                 sender |-> UserOf[w], text |-> x, deleted |-> FALSE]
<1>2. m \in Messages
  <2>1. saved \in 0..MaxMsgs - 1 /\ MaxMsgs \in Nat /\ Rows \in 0..saved
    BY HistoryAssumption DEF db_save_message, HistoryInv, TypeOK, TableOK
  <2>2. Rows + 1 \in 1..2 * MaxMsgs /\ MaxMsgs + saved + 1 \in 1..2 * MaxMsgs
    BY <2>1
  <2>3. UserOf[w] \in Users
    BY HistoryAssumption
  <2> QED BY <2>2, <2>3 DEF Messages
<1>3. m.id = (IF ok THEN Rows + 1 ELSE MaxMsgs + saved + 1) /\ ~m.deleted
  OBVIOUS
<1> HIDE DEF m
<1> QED
  BY <1>1, <1>2, <1>3 DEF m

\* MSG saves: a new row, or a synthetic id that no row will have.
LEMMA SaveKeeps ==
    ASSUME HistoryInv, NEW w \in Writers, NEW x \in Texts, db_save_message(w, x)
    PROVE  HistoryInv'
<1> USE DEF HistoryInv
<1>1. /\ pc[w] = "idle" /\ saved' = saved + 1 /\ saved \in 0..MaxMsgs - 1
      /\ MaxMsgs \in Nat /\ UNCHANGED <<ring, loose, outrun>>
      /\ pc' = [pc EXCEPT ![w] = "store"]
      /\ pc \in [Writers -> {"idle", "store", "edit", "delete"}]
      /\ arg \in [Writers -> Messages \cup {NoMessage}]
      /\ Rows \in 0..saved
  BY HistoryAssumption DEF db_save_message, Start, Idle, TypeOK, TableOK
<1>2. PICK ok \in BOOLEAN, m \in Messages :
         /\ m.id = IF ok THEN Rows + 1 ELSE MaxMsgs + saved + 1
         /\ ~m.deleted
         /\ arg' = [arg EXCEPT ![w] = m]
         /\ table' = IF ok THEN [i \in DOMAIN table \cup {m.id} |->
                                    IF i = m.id THEN m ELSE table[i]]
                     ELSE table
         /\ crossed' = (crossed \/ ~ok \/ Storing # {})
  BY SavedMessage
<1>3. /\ Rows' = IF ok THEN Rows + 1 ELSE Rows
      /\ table' \in [1..Rows' -> Messages]
      /\ \A i \in 1..Rows : table'[i] = table[i]
      /\ m.id \in 1..Rows' => table'[m.id] = m
  <2>1. CASE ok
    <3>1. /\ Rows' = Rows + 1
          /\ table' = [i \in 1..Rows + 1 |-> IF i = Rows + 1 THEN m ELSE table[i]]
      BY <1>1, <1>2, <2>1, RowAdded
    <3>2. \A i \in 1..Rows + 1 : i # Rows + 1 => i \in 1..Rows
      BY <1>1
    <3> QED BY <1>1, <1>2, <2>1, <3>1, <3>2 DEF TableOK
  <2>2. CASE ~ok
    <3>1. table' = table /\ Rows' = Rows /\ m.id \notin 1..Rows
      BY <1>1, <1>2, <2>2 DEF Rows
    <3> QED BY <2>2, <3>1 DEF TableOK
  <2> QED BY <2>1, <2>2
<1>4. /\ \A i \in Given(Rows, saved) : /\ i \in Given(Rows', saved') /\ i # m.id
                                       /\ i \in 1..Rows' => i \in 1..Rows
      /\ m.id \in Given(Rows', saved')
  <2>1. CASE ok
    BY <1>1, <1>2, <1>3, <2>1 DEF Given
  <2>2. CASE ~ok
    BY <1>1, <1>2, <1>3, <2>2 DEF Given
  <2> QED BY <2>1, <2>2
<1>5. /\ Storing' = Storing \cup {w} /\ Changing' = Changing
      /\ w \notin Storing /\ w \notin Changing /\ arg'[w] = m
      /\ \A v \in Writers \ {w} : arg'[v] = arg[v] /\ pc'[v] = pc[v]
  BY <1>1, <1>2 DEF Storing, Changing
<1>6. Stored' = Stored /\ Window' = Window
  BY <1>1, RingUnchanged
<1>7. TableOK'
  <2>1. \A i \in 1..Rows' : i \in 1..Rows \/ (ok /\ i = m.id)
    BY <1>1, <1>2, <1>3
  <2>2. \A i \in 1..Rows' : /\ table'[i].id = i
                            /\ table'[i].deleted => table'[i].text = DeletedText
    BY <1>2, <1>3, <2>1 DEF TableOK
  <2>3. Rows' \in 0..saved'
    BY <1>1, <1>3
  <2> QED BY <1>3, <2>2, <2>3 DEF TableOK
<1>8. TypeOK'
  <2>1. DOMAIN table' \subseteq 1..MaxMsgs /\ \A i \in DOMAIN table' : table'[i] \in Messages
    BY <1>1, <1>3
  <2>2. crossed' \in BOOLEAN
    BY <1>2
  <2> QED BY <1>1, <1>2, <2>1, <2>2 DEF TypeOK, ring
<1>9. RingOK'
  BY <1>1, <1>4, <1>6 DEF RingOK, ring
<1>10. ArgsOK'
  <2>1. ASSUME NEW v \in Storing' \cup Changing'
        PROVE  arg'[v] \in Messages /\ arg'[v].id \in Given(Rows', saved')
    <3>1. CASE v = w
      BY <1>2, <1>4, <1>5, <3>1
    <3>2. CASE v # w
      <4>1. v \in Storing \cup Changing /\ arg'[v] = arg[v]
        BY <1>5, <3>2 DEF Storing, Changing
      <4> QED BY <1>4, <4>1 DEF ArgsOK
    <3> QED BY <3>1, <3>2
  <2>2. ASSUME NEW v \in Storing'
        PROVE  /\ ~arg'[v].deleted
               /\ \A u \in Storing' \cup Changing' : arg'[u].id = arg'[v].id => u = v
               /\ \A i \in 1..Stored : Window[i].id # arg'[v].id
               /\ arg'[v].id \in 1..Rows' => arg'[v] = table'[arg'[v].id]
    <3>1. CASE v = w
      BY <1>2, <1>3, <1>4, <1>5, <3>1 DEF ArgsOK, RingOK, Storing, Changing
    <3>2. CASE v # w
      <4>1. v \in Storing /\ arg'[v] = arg[v] /\ arg[v].id \in Given(Rows, saved)
        BY <1>5, <3>2 DEF ArgsOK, Storing
      <4>2. \A u \in Storing' \cup Changing' : arg'[u].id = arg'[v].id => u = v
        BY <1>4, <1>5, <4>1 DEF ArgsOK, Storing, Changing
      <4>3. arg'[v].id \in 1..Rows' => arg'[v] = table'[arg'[v].id]
        BY <1>3, <1>4, <4>1 DEF ArgsOK
      <4> QED BY <4>1, <4>2, <4>3 DEF ArgsOK
    <3> QED BY <3>1, <3>2
  <2> QED BY <1>6, <2>1, <2>2 DEF ArgsOK
<1>11. SendersOK'
  <2>1. \A i \in 1..Stored :
           Window[i].id \in 1..Rows' => Window[i].sender = table'[Window[i].id].sender
    BY <1>3, <1>4 DEF RingOK, SendersOK
  <2>2. \A v \in Changing :
           arg'[v].id \in 1..Rows' => arg'[v].sender = table'[arg'[v].id].sender
    BY <1>3, <1>4, <1>5 DEF ArgsOK, SendersOK, Changing
  <2> QED BY <1>5, <1>6, <2>1, <2>2 DEF SendersOK
<1>12. OrderOK'
  <2> SUFFICES ASSUME ~crossed' PROVE OrderOK'
    BY DEF OrderOK
  <2>1. ok /\ Storing = {} /\ ~crossed
    BY <1>2 DEF Storing
  <2>2. Storing' = {w} /\ Rows' = Rows + 1 /\ m.id = Rows' /\ Complete = Rows
        /\ Complete' = Complete
    BY <1>1, <1>2, <1>3, <1>5, <2>1 DEF Complete
  <2> QED BY <1>5, <1>6, <2>1, <2>2 DEF OrderOK
<1> QED
  BY <1>7, <1>8, <1>9, <1>10, <1>11, <1>12


\* A command that ends.
LEMMA Ended ==
    ASSUME TypeOK, NEW w \in Writers, End(w), pc[w] # "idle"
    PROVE  /\ pc' \in [Writers -> {"idle", "store", "edit", "delete"}]
           /\ arg' \in [Writers -> Messages \cup {NoMessage}]
           /\ Storing' = Storing \ {w} /\ Changing' = Changing \ {w}
           /\ \A v \in Writers \ {w} : arg'[v] = arg[v] /\ pc'[v] = pc[v]
  BY DEF TypeOK, End, Storing, Changing

\* ... and then enters the ring.
LEMMA PushKeeps ==
    ASSUME HistoryInv, NEW w \in Writers, room_add_history(w)
    PROVE  HistoryInv'
<1> USE DEF HistoryInv
<1>1. /\ pc[w] = "store" /\ End(w) /\ UNCHANGED <<table, saved, crossed, loose, outrun>>
      /\ w \in Storing /\ w \notin Changing /\ Rows' = Rows
  BY DEF room_add_history, Storing, Changing, Rows
<1>2. /\ pc' \in [Writers -> {"idle", "store", "edit", "delete"}]
      /\ arg' \in [Writers -> Messages \cup {NoMessage}]
      /\ Storing' = Storing \ {w} /\ Changing' = Changing
      /\ \A v \in Writers \ {w} : arg'[v] = arg[v] /\ pc'[v] = pc[v]
  BY <1>1, Ended DEF Storing, Changing
<1>3. PICK m \in Messages : m = arg[w]
  BY <1>1 DEF ArgsOK
<1>4. /\ Stored \in 0..Cap /\ Cap \in Nat \ {0}
      /\ Stored' = IF Stored < Cap THEN Stored + 1 ELSE Cap
      /\ Stored < Cap => \A i \in 1..Stored + 1 :
                            Window'[i] = IF i <= Stored THEN Window[i] ELSE m
      /\ Stored = Cap => \A i \in 1..Cap :
                            Window'[i] = IF i < Cap THEN Window[i + 1] ELSE m
      /\ history_count' \in 0..WrapAt /\ history_start' \in Slots
      /\ history_count' < Cap => history_start' = 0
      /\ history' \in [Slots -> Messages \cup {NoMessage}]
  BY <1>3, WindowPushed, StoredRange, HistoryAssumption DEF RingOK
<1>5. /\ m.id \in Given(Rows, saved) /\ \A i \in 1..Stored : Window[i].id # m.id
      /\ m.id \in 1..Rows => m = table[m.id]
  BY <1>1, <1>3 DEF ArgsOK
\* Every place of the new window holds m or what some place held before.
<1>6. PICK d \in {0, 1} :
         /\ Stored' \in 1..Cap
         /\ \A i \in 1..Stored' : Window'[i] = IF i = Stored' THEN m ELSE Window[i + d]
         /\ \A i \in 1..Stored' - 1 : i + d \in 1..Stored
  <2>1. CASE Stored < Cap
    BY <1>4, <2>1
  <2>2. CASE Stored = Cap
    BY <1>4, <2>2
  <2> QED BY <1>4, <2>1, <2>2
<1>7. \A i \in 1..Stored' : i # Stored' => i \in 1..Stored' - 1
  BY <1>4, <1>6
<1>8. TableOK'
  BY <1>1 DEF TableOK
<1>9. TypeOK'
  BY <1>1, <1>2, <1>4 DEF TypeOK
<1>10. RingOK'
  <2>1. \A i \in 1..Stored' : Window'[i] \in Messages /\ Window'[i].id \in Given(Rows, saved)
    BY <1>5, <1>6, <1>7 DEF RingOK
  <2>2. ASSUME NEW i \in 1..Stored', NEW j \in 1..Stored', Window'[i].id = Window'[j].id
        PROVE  i = j
    <3>1. CASE i # Stored' /\ j # Stored'
      <4>1. i + d \in 1..Stored /\ j + d \in 1..Stored
            /\ Window[i + d].id = Window[j + d].id
        BY <1>6, <1>7, <2>2, <3>1
      <4>2. i + d = j + d
        BY <4>1 DEF RingOK
      <4> QED BY <1>6, <4>2
    <3>2. CASE i = Stored' \/ j = Stored'
      BY <1>5, <1>6, <1>7, <2>2, <3>2
    <3> QED BY <3>1, <3>2
  <2> QED BY <1>1, <1>4, <2>1, <2>2 DEF RingOK
<1>11. ArgsOK'
  <2>1. \A v \in Storing' \cup Changing' :
           v # w /\ v \in Storing \cup Changing /\ arg'[v] = arg[v] /\ pc'[v] = pc[v]
    BY <1>1, <1>2 DEF Storing, Changing
  <2>2. \A v \in Storing' : v \in Storing /\ arg[v].id # m.id
    BY <1>1, <1>2, <1>3 DEF ArgsOK
  <2>3. ASSUME NEW v \in Storing', NEW i \in 1..Stored' PROVE Window'[i].id # arg'[v].id
    <3>1. CASE i = Stored'
      BY <1>6, <2>1, <2>2, <3>1
    <3>2. CASE i # Stored'
      <4>1. Window'[i] = Window[i + d] /\ i + d \in 1..Stored
        BY <1>6, <1>7, <3>2
      <4> QED BY <2>1, <2>2, <4>1 DEF ArgsOK
    <3> QED BY <3>1, <3>2
  <2> QED BY <1>1, <2>1, <2>2, <2>3 DEF ArgsOK
<1>12. SendersOK'
  <2>1. \A i \in 1..Stored' :
           Window'[i].id \in 1..Rows => Window'[i].sender = table[Window'[i].id].sender
    BY <1>5, <1>6, <1>7 DEF SendersOK
  <2>2. \A v \in Changing' : arg'[v] = arg[v]
    BY <1>1, <1>2 DEF Changing
  <2> QED BY <1>1, <1>2, <2>1, <2>2 DEF SendersOK
<1>13. OrderOK'
  <2> SUFFICES ASSUME ~crossed PROVE OrderOK'
    BY <1>1 DEF OrderOK
  <2>1. /\ Storing = {w} /\ Storing' = {} /\ m.id = Rows
        /\ Complete = Rows - 1 /\ Complete' = Rows
        /\ Stored = IF Rows - 1 < Cap THEN Rows - 1 ELSE Cap
        /\ \A i \in 1..Stored : Window[i].id = Rows - 1 - Stored + i
    BY <1>1, <1>2, <1>3 DEF OrderOK, Complete
  <2>2. Rows \in Nat
    BY DEF TableOK, TypeOK
  <2>3. Stored' = IF Rows < Cap THEN Rows ELSE Cap
    BY <1>4, <2>1, <2>2
  <2>4. ASSUME NEW i \in 1..Stored' PROVE Window'[i].id = Rows - Stored' + i
    <3>1. CASE i = Stored'
      BY <1>4, <1>6, <2>1, <2>2, <3>1
    <3>2. CASE i # Stored' /\ Stored < Cap
      <4>1. Window'[i] = Window[i] /\ i \in 1..Stored
        BY <1>4, <3>2
      <4>2. Window[i].id = Rows - 1 - Stored + i /\ Stored' = Stored + 1
        BY <1>4, <2>1, <3>2, <4>1
      <4> QED BY <1>4, <2>2, <4>1, <4>2
    <3>3. CASE i # Stored' /\ Stored = Cap
      <4>1. Window'[i] = Window[i + 1] /\ i + 1 \in 1..Stored /\ Stored' = Stored
        BY <1>4, <3>3
      <4>2. Window[i + 1].id = Rows - 1 - Stored + (i + 1)
        BY <2>1, <4>1
      <4> QED BY <1>4, <2>2, <4>1, <4>2
    <3> QED BY <1>4, <3>1, <3>2, <3>3
  <2> QED BY <2>1, <2>3, <2>4 DEF OrderOK
<1> QED
  BY <1>8, <1>9, <1>10, <1>11, <1>12, <1>13


\* EDIT and DELETE change a message that is shown, not its id or its author.
LEMMA ChangeKeeps ==
    ASSUME HistoryInv, NEW w \in Writers, pc[w] = "idle", NEW k \in 0..Stored - 1,
           NEW m \in Messages, m.id = Window[k + 1].id, m.sender = Window[k + 1].sender,
           history' = [history EXCEPT ![Slot(k)] = m],
           arg' = [arg EXCEPT ![w] = m],
           NEW c \in {"edit", "delete"}, pc' = [pc EXCEPT ![w] = c],
           loose \subseteq loose', loose' \subseteq 1..2 * MaxMsgs,
           UNCHANGED <<table, saved, history_count, history_start, crossed, outrun>>
    PROVE  HistoryInv'
<1> USE DEF HistoryInv
<1>1. /\ Stored' = Stored /\ Stored \in Nat /\ k + 1 \in 1..Stored /\ Rows' = Rows
      /\ \A i \in 1..Stored : Window'[i] = IF i = k + 1 THEN m ELSE Window[i]
  <2>1. Stored \in Nat /\ k + 1 \in 1..Stored
    BY StoredRange, HistoryAssumption
  <2>2. Rows' = Rows
    BY DEF Rows
  <2> QED BY <2>1, <2>2, WindowChanged
<1>2. \A i \in 1..Stored : /\ Window'[i] \in Messages
                           /\ Window'[i].id = Window[i].id
                           /\ Window'[i].sender = Window[i].sender
  BY <1>1 DEF RingOK
<1>3. /\ Storing' = Storing /\ Changing' = Changing \cup {w}
      /\ w \notin Storing \cup Changing /\ arg'[w] = m /\ pc'[w] = c
      /\ \A v \in Writers \ {w} : arg'[v] = arg[v] /\ pc'[v] = pc[v]
  BY DEF TypeOK, Storing, Changing
<1>4. /\ Storing \subseteq Writers \ {w} /\ Changing \subseteq Writers \ {w}
  BY <1>3 DEF Storing, Changing
<1>5. TableOK'
  BY <1>1 DEF TableOK
<1>6. TypeOK'
  <2>1. history' \in [Slots -> Messages \cup {NoMessage}]
    BY DEF TypeOK
  <2>2. /\ pc' \in [Writers -> {"idle", "store", "edit", "delete"}]
        /\ arg' \in [Writers -> Messages \cup {NoMessage}]
    BY DEF TypeOK
  <2> QED BY <2>1, <2>2 DEF TypeOK
<1>7. RingOK'
  BY <1>1, <1>2 DEF RingOK
<1>8. ArgsOK'
  <2>1. m.id \in Given(Rows, saved)
    BY <1>1 DEF RingOK
  <2>2. \A v \in Storing : arg'[v] = arg[v] /\ arg[v].id # m.id
    BY <1>1, <1>3, <1>4 DEF ArgsOK
  <2>3. \A v \in Storing' \cup Changing' :
           arg'[v] \in Messages /\ arg'[v].id \in Given(Rows, saved)
    BY <1>3, <1>4, <2>1 DEF ArgsOK
  <2>4. \A v \in Storing : \A u \in Storing' \cup Changing' :
           arg'[u].id = arg'[v].id => u = v
    BY <1>3, <1>4, <2>2 DEF ArgsOK
  <2> QED BY <1>1, <1>2, <1>3, <2>2, <2>3, <2>4 DEF ArgsOK
<1>9. SendersOK'
  <2>1. \A v \in Changing' :
           arg'[v].id \in 1..Rows => arg'[v].sender = table[arg'[v].id].sender
    BY <1>1, <1>3, <1>4 DEF SendersOK
  <2> QED BY <1>1, <1>2, <2>1 DEF SendersOK
<1>10. OrderOK'
  <2>1. Complete' = Complete
    BY <1>1, <1>3 DEF Complete
  <2> QED BY <1>1, <1>2, <1>3, <1>4, <2>1 DEF OrderOK
<1> QED
  BY <1>5, <1>6, <1>7, <1>8, <1>9, <1>10

\* ... and then the row, if there is one.
LEMMA RowKeeps ==
    ASSUME HistoryInv, NEW w \in Changing, End(w), UNCHANGED <<ring, saved, crossed, outrun>>,
           outrun \subseteq loose', loose' \subseteq 1..2 * MaxMsgs,
           NEW k \in 1..Rows, NEW r \in Messages, k = arg[w].id, r.id = k,
           r.sender = table[k].sender, r.deleted => r.text = DeletedText,
           table' = [table EXCEPT ![k] = r]
    PROVE  HistoryInv'
<1> USE DEF HistoryInv
<1>1. /\ Stored' = Stored /\ Window' = Window /\ Rows' = Rows /\ w \in Writers
      /\ table \in [1..Rows -> Messages]
      /\ pc[w] # "idle" /\ w \notin Storing
  BY RingUnchanged DEF Rows, TableOK, Changing, Storing
<1>2. /\ pc' \in [Writers -> {"idle", "store", "edit", "delete"}]
      /\ arg' \in [Writers -> Messages \cup {NoMessage}]
      /\ Storing' = Storing /\ Changing' = Changing \ {w}
      /\ \A v \in Writers \ {w} : arg'[v] = arg[v] /\ pc'[v] = pc[v]
  BY <1>1, Ended
<1>3. \A v \in Storing' \cup Changing' :
         v \in Writers \ {w} /\ v \in Storing \cup Changing /\ arg'[v] = arg[v] /\ pc'[v] = pc[v]
  BY <1>1, <1>2 DEF Storing, Changing
<1>4. \A i \in 1..Rows : /\ table'[i] \in Messages /\ table'[i].sender = table[i].sender
                         /\ i # k => table'[i] = table[i]
                         /\ i = k => table'[i] = r
  BY <1>1
<1>5. TableOK'
  <2>1. table' \in [1..Rows -> Messages]
    BY <1>1
  <2>2. \A i \in 1..Rows : /\ table'[i].id = i
                           /\ table'[i].deleted => table'[i].text = DeletedText
    BY <1>4 DEF TableOK
  <2> QED BY <1>1, <2>1, <2>2 DEF TableOK
<1>6. TypeOK'
  <2>1. DOMAIN table' = DOMAIN table /\ \A i \in DOMAIN table' : table'[i] \in Messages
    BY <1>1
  <2> QED BY <1>2, <2>1 DEF TypeOK, ring
<1>7. RingOK'
  BY <1>1 DEF RingOK, ring
<1>8. ArgsOK'
  <2>1. \A v \in Storing : arg[v].id # k
    BY <1>1 DEF ArgsOK
  <2>2. \A v \in Storing' : arg'[v].id \in 1..Rows => arg'[v] = table'[arg'[v].id]
    BY <1>2, <1>3, <1>4, <2>1 DEF ArgsOK
  <2> QED BY <1>1, <1>2, <1>3, <2>2 DEF ArgsOK
<1>9. SendersOK'
  BY <1>1, <1>2, <1>3, <1>4 DEF SendersOK
<1>10. OrderOK'
  <2>1. Complete' = Complete
    BY <1>1, <1>2 DEF Complete
  <2> QED BY <1>1, <1>2, <1>3, <2>1 DEF OrderOK
<1> QED
  BY <1>5, <1>6, <1>7, <1>8, <1>9, <1>10

LEMMA NoRowKeeps ==
    ASSUME HistoryInv, NEW w \in Changing, End(w),
           UNCHANGED <<ring, saved, crossed, outrun, table>>,
           outrun \subseteq loose', loose' \subseteq 1..2 * MaxMsgs
    PROVE  HistoryInv'
<1> USE DEF HistoryInv
<1>1. /\ Stored' = Stored /\ Window' = Window /\ Rows' = Rows /\ w \in Writers
      /\ pc[w] # "idle" /\ w \notin Storing
  BY RingUnchanged DEF Rows, Changing, Storing
<1>2. /\ pc' \in [Writers -> {"idle", "store", "edit", "delete"}]
      /\ arg' \in [Writers -> Messages \cup {NoMessage}]
      /\ Storing' = Storing /\ Changing' = Changing \ {w}
      /\ \A v \in Writers \ {w} : arg'[v] = arg[v] /\ pc'[v] = pc[v]
  BY <1>1, Ended
<1>3. \A v \in Storing' \cup Changing' :
         v \in Writers \ {w} /\ v \in Storing \cup Changing /\ arg'[v] = arg[v] /\ pc'[v] = pc[v]
  BY <1>1, <1>2 DEF Storing, Changing
<1>4. TableOK' /\ TypeOK' /\ RingOK'
  BY <1>1, <1>2 DEF TableOK, TypeOK, RingOK, ring
<1>5. ArgsOK'
  BY <1>1, <1>2, <1>3 DEF ArgsOK
<1>6. SendersOK'
  BY <1>1, <1>2, <1>3 DEF SendersOK
<1>7. OrderOK'
  <2>1. Complete' = Complete
    BY <1>1, <1>2 DEF Complete
  <2> QED BY <1>1, <1>2, <1>3, <2>1 DEF OrderOK
<1> QED
  BY <1>4, <1>5, <1>6, <1>7


\* The room is loaded; commands in progress end or stay.
LEMMA LoadKeeps ==
    ASSUME HistoryInv, Load, UNCHANGED <<table, saved>>,
           pc' \in [Writers -> {"idle", "store", "edit", "delete"}],
           arg' \in [Writers -> Messages \cup {NoMessage}],
           Storing' = {},
           \A v \in Changing' : v \in Changing /\ arg'[v] = arg[v],
           loose' \subseteq 1..2 * MaxMsgs, outrun' \subseteq loose'
    PROVE  HistoryInv'
<1> USE DEF HistoryInv
<1>1. PICK n \in 0..Loadable :
         /\ Stored' = n /\ history_count' = n /\ history_start' = 0
         /\ \A i \in 1..n : Window'[i] = table[Rows - Loadable + i]
         /\ crossed' = (n < Loadable)
         /\ history' \in [Slots -> Messages \cup {NoMessage}]
  BY WindowLoaded
<1>2. /\ Rows \in Nat /\ Cap \in Nat \ {0} /\ Loadable \in 0..Cap /\ Loadable <= Rows
      /\ WrapAt \in Nat /\ WrapAt >= Cap
  BY RowsLoaded, HistoryAssumption DEF TypeOK
<1>3. Rows' = Rows
  BY DEF Rows
<1>4. \A i \in 1..n : Rows - Loadable + i \in 1..Rows
  BY <1>1, <1>2
<1>5. \A i \in 1..n : Window'[i].id = Rows - Loadable + i /\ Window'[i] \in Messages
  BY <1>1, <1>4 DEF TableOK
<1>6. TableOK' /\ TypeOK'
  <2>1. TableOK'
    BY <1>3 DEF TableOK
  <2>2. history_count' \in 0..WrapAt /\ history_start' \in Slots
    BY <1>1, <1>2 DEF Slots
  <2>3. crossed' \in BOOLEAN
    BY <1>1
  <2> QED BY <1>1, <1>3, <2>1, <2>2, <2>3 DEF TypeOK
<1>7. RingOK'
  <2>1. \A i \in 1..n : Window'[i].id \in Given(Rows, saved)
    BY <1>4, <1>5 DEF Given
  <2>2. \A i, j \in 1..n : Window'[i].id = Window'[j].id => i = j
    BY <1>1, <1>2, <1>5
  <2> QED BY <1>1, <1>3, <1>5, <2>1, <2>2 DEF RingOK
<1>8. ArgsOK'
  BY <1>3 DEF ArgsOK
<1>9. SendersOK'
  <2>1. \A i \in 1..n :
           Window'[i].id \in 1..Rows => Window'[i].sender = table[Window'[i].id].sender
    BY <1>1, <1>5
  <2> QED BY <1>1, <1>3, <2>1 DEF SendersOK
<1>10. OrderOK'
  <2> SUFFICES ASSUME ~crossed' PROVE OrderOK'
    BY DEF OrderOK
  <2>1. n = Loadable
    <3>1. ~(n < Loadable)
      BY <1>1, Zenon
    <3> QED BY <1>1, <1>2, <3>1
  <2>2. Complete' = Rows /\ Loadable = IF Rows < Cap THEN Rows ELSE Cap
    BY <1>2, <1>3 DEF Complete, Loadable
  <2> QED BY <1>1, <1>5, <2>1, <2>2 DEF OrderOK
<1> QED
  BY <1>6, <1>7, <1>8, <1>9, <1>10

\* What a new creation of the room and a restart leave of the commands.
LEMMA Reloaded ==
    ASSUME HistoryInv, create_room \/ restart
    PROVE  /\ Load /\ UNCHANGED <<table, saved>> /\ Rows' = Rows
           /\ pc' \in [Writers -> {"idle", "store", "edit", "delete"}]
           /\ arg' \in [Writers -> Messages \cup {NoMessage}]
           /\ Storing' = {}
           /\ \A v \in Changing' : /\ v \in Changing /\ arg'[v] = arg[v] /\ pc'[v] = pc[v]
                                   /\ arg[v].id \in loose'
                                   /\ pc[v] = "delete" => arg[v].id \in outrun'
           /\ loose' \subseteq 1..2 * MaxMsgs /\ outrun' \subseteq loose'
<1>1. CASE create_room
  <2>1. /\ Load /\ UNCHANGED <<table, saved, pc, arg>> /\ Storing = {}
        /\ loose' = {arg[w].id : w \in Changing}
        /\ outrun' = {arg[w].id : w \in {v \in Writers : pc[v] = "delete"}}
    <3>1. Editing \cup Deleting = Changing
      BY DEF Editing, Deleting, Changing
    <3> QED BY <1>1, <3>1 DEF create_room, Deleting
  <2>2. Storing' = {} /\ Changing' = Changing /\ Rows' = Rows
    BY <2>1 DEF Storing, Changing, Rows
  <2>3. \A v \in Changing : arg[v].id \in 1..2 * MaxMsgs
    BY DEF HistoryInv, ArgsOK, Messages
  <2>4. loose' \subseteq 1..2 * MaxMsgs /\ outrun' \subseteq loose'
    BY <2>1, <2>3 DEF Changing
  <2>5. \A v \in Changing : pc[v] = "delete" => v \in Writers
    BY DEF Changing
  <2> QED BY <2>1, <2>2, <2>4, <2>5 DEF HistoryInv, TypeOK
<1>2. CASE restart
  <2>1. /\ Load /\ UNCHANGED <<table, saved>> /\ loose' = {} /\ outrun' = {}
        /\ pc' = [w \in Writers |-> "idle"] /\ arg' = [w \in Writers |-> NoMessage]
    BY <1>2 DEF restart
  <2>2. Storing' = {} /\ Changing' = {} /\ Rows' = Rows
    BY <2>1 DEF Storing, Changing, Rows
  <2> QED BY <2>1, <2>2
<1> QED
  BY <1>1, <1>2

LEMMA InitHistoryInv == Init => HistoryInv
<1> SUFFICES ASSUME Init PROVE HistoryInv
  OBVIOUS
<1> USE DEF Init
<1>1. Rows = 0 /\ DOMAIN table = {} /\ 1..Rows = {}
  BY FS_EmptySet DEF Rows
<1>2. Stored = 0 /\ 1..Stored = {}
  BY HistoryAssumption DEF Stored
<1>3. Storing = {} /\ Changing = {}
  BY DEF Storing, Changing
<1>4. TypeOK
  <2>1. loose \subseteq 1..2 * MaxMsgs /\ outrun \subseteq loose
    OBVIOUS
  <2>2. history_count \in 0..WrapAt /\ history_start \in Slots /\ saved \in 0..MaxMsgs
    BY HistoryAssumption DEF Slots
  <2>3. history \in [Slots -> Messages \cup {NoMessage}]
    OBVIOUS
  <2>4. /\ pc \in [Writers -> {"idle", "store", "edit", "delete"}]
        /\ arg \in [Writers -> Messages \cup {NoMessage}]
    OBVIOUS
  <2> QED BY <1>1, <2>1, <2>2, <2>3, <2>4 DEF TypeOK
<1>5. TableOK
  BY <1>1 DEF TableOK
<1>6. RingOK
  BY <1>2 DEF RingOK
<1>7. ArgsOK /\ SendersOK
  BY <1>2, <1>3 DEF ArgsOK, SendersOK
<1>8. OrderOK
  <2>1. Complete = 0 /\ Cap \in Nat \ {0}
    BY <1>1, <1>3, HistoryAssumption DEF Complete
  <2> QED BY <1>2, <1>3, <2>1 DEF OrderOK
<1> QED
  BY <1>4, <1>5, <1>6, <1>7, <1>8 DEF HistoryInv

\* What the message is that EDIT and DELETE leave in the ring.
LEMMA EditedMessage ==
    ASSUME HistoryInv, NEW w \in Writers, NEW x \in Texts, NEW k \in 0..Stored - 1,
           room_edit_message(w, k, x)
    PROVE  \E m \in Messages :
              /\ m = [Window[k + 1] EXCEPT !.text = x]
              /\ m.id = Window[k + 1].id /\ m.sender = Window[k + 1].sender
              /\ m.text = x /\ ~m.deleted /\ ~Window[k + 1].deleted /\ m.sender = UserOf[w]
              /\ history' = [history EXCEPT ![Slot(k)] = m]
              /\ arg' = [arg EXCEPT ![w] = m]
              /\ k + 1 \in 1..Stored
<1>1. k + 1 \in 1..Stored /\ Window[k + 1] = history[Slot(k)] /\ Slot(k) \in Slots
  <2>1. Stored \in Nat /\ k + 1 \in 1..Stored /\ (k + 1) - 1 = k
    BY StoredRange, HistoryAssumption DEF HistoryInv
  <2> QED BY <2>1, SlotsDistinct DEF Window, HistoryInv
<1>2. Window[k + 1] \in Messages
  BY <1>1 DEF HistoryInv, RingOK
<1>3. /\ ~history[Slot(k)].deleted /\ history[Slot(k)].sender = UserOf[w]
      /\ history' = [history EXCEPT ![Slot(k)] = [history[Slot(k)] EXCEPT !.text = x]]
      /\ arg' = [arg EXCEPT ![w] = history'[Slot(k)]]
  BY DEF room_edit_message
<1> DEFINE m == [Window[k + 1] EXCEPT !.text = x]
<1>4. /\ m \in Messages /\ m.id = Window[k + 1].id /\ m.sender = Window[k + 1].sender
      /\ m.text = x /\ m.deleted = Window[k + 1].deleted
  BY <1>2 DEF Messages
<1>5. history'[Slot(k)] = m
  BY <1>1, <1>3 DEF HistoryInv, TypeOK
<1> HIDE DEF m
<1>6. m = [Window[k + 1] EXCEPT !.text = x]
  BY DEF m
<1>7. history' = [history EXCEPT ![Slot(k)] = m]
  BY <1>1, <1>3, <1>6
<1> QED
  BY <1>1, <1>3, <1>4, <1>5, <1>6, <1>7

LEMMA DeletedMessage ==
    ASSUME HistoryInv, NEW w \in Writers, NEW k \in 0..Stored - 1,
           room_delete_message(w, k)
    PROVE  \E m \in Messages :
              /\ m = [Window[k + 1] EXCEPT !.text = DeletedText, !.deleted = TRUE]
              /\ m.id = Window[k + 1].id /\ m.sender = Window[k + 1].sender
              /\ m.text = DeletedText /\ m.deleted /\ ~Window[k + 1].deleted
              /\ history' = [history EXCEPT ![Slot(k)] = m]
              /\ arg' = [arg EXCEPT ![w] = m]
              /\ k + 1 \in 1..Stored
<1>1. k + 1 \in 1..Stored /\ Window[k + 1] = history[Slot(k)] /\ Slot(k) \in Slots
  <2>1. Stored \in Nat /\ k + 1 \in 1..Stored /\ (k + 1) - 1 = k
    BY StoredRange, HistoryAssumption DEF HistoryInv
  <2> QED BY <2>1, SlotsDistinct DEF Window, HistoryInv
<1>2. Window[k + 1] \in Messages
  BY <1>1 DEF HistoryInv, RingOK
<1>3. history \in [Slots -> Messages \cup {NoMessage}]
  BY DEF HistoryInv, TypeOK
<1> DEFINE m == [Window[k + 1] EXCEPT !.text = DeletedText, !.deleted = TRUE]
<1>4. /\ ~history[Slot(k)].deleted
      /\ history' = [history EXCEPT ![Slot(k)] = m]
      /\ arg' = [arg EXCEPT ![w] = history'[Slot(k)]]
  <2>1. history' = [history EXCEPT ![Slot(k)].text = DeletedText,
                                   ![Slot(k)].deleted = TRUE]
    BY DEF room_delete_message
  <2>2. \A s \in Slots : history'[s] = IF s = Slot(k) THEN m ELSE history[s]
    BY <1>1, <1>2, <1>3, <2>1 DEF Messages
  <2>3. history' = [history EXCEPT ![Slot(k)] = m]
    BY <1>1, <1>3, <2>1, <2>2
  <2> QED BY <2>3 DEF room_delete_message
<1>5. /\ m \in Messages /\ m.id = Window[k + 1].id /\ m.sender = Window[k + 1].sender
      /\ m.text = DeletedText /\ m.deleted
  BY <1>2 DEF Messages
<1>6. m = [Window[k + 1] EXCEPT !.text = DeletedText, !.deleted = TRUE]
  OBVIOUS
<1> HIDE DEF m
<1>7. history'[Slot(k)] = m
  BY <1>1, <1>3, <1>4
<1> QED
  BY <1>1, <1>4, <1>5, <1>6, <1>7


\* The UPDATEs: of the row, unless it is deleted or the message has none, or
\* the statement fails.
LEMMA UpdatedRow ==
    ASSUME HistoryInv, NEW w \in Writers, db_edit_message(w) \/ db_delete_message(w)
    PROVE  /\ w \in Changing /\ End(w) /\ UNCHANGED <<ring, saved, crossed, outrun>>
           /\ arg[w] \in Messages
           /\ outrun \subseteq loose' /\ loose' \subseteq 1..2 * MaxMsgs
           /\ \/ UpdateFails(arg[w].id)
              \/ /\ loose' = IF pc[w] = "edit" THEN loose ELSE loose \ ({arg[w].id} \ outrun)
                 /\ table' = table /\ (arg[w].id \in 1..Rows => table[arg[w].id].deleted)
              \/ /\ loose' = IF pc[w] = "edit" THEN loose ELSE loose \ ({arg[w].id} \ outrun)
                 /\ arg[w].id \in 1..Rows /\ ~table[arg[w].id].deleted
                 /\ \E r \in Messages :
                       /\ r = [table[arg[w].id] EXCEPT
                                  !.text = IF pc[w] = "edit" THEN arg[w].text ELSE DeletedText,
                                  !.deleted = (pc[w] # "edit")]
                       /\ r.id = arg[w].id /\ r.sender = table[arg[w].id].sender
                       /\ r.deleted = (pc[w] # "edit")
                       /\ r.text = IF pc[w] = "edit" THEN arg[w].text ELSE DeletedText
                       /\ table' = [table EXCEPT ![arg[w].id] = r]
<1>1. /\ w \in Changing /\ End(w) /\ UNCHANGED <<ring, saved, crossed, outrun>>
      /\ pc[w] = "edit" <=> db_edit_message(w)
      /\ pc[w] # "edit" <=> db_delete_message(w)
  BY DEF db_edit_message, db_delete_message, Changing
<1>2. arg[w] \in Messages /\ DOMAIN table = 1..Rows /\ table \in [1..Rows -> Messages]
  BY <1>1 DEF HistoryInv, ArgsOK, TableOK
<1> DEFINE Succeeds ==
             /\ loose' = IF pc[w] = "edit" THEN loose ELSE loose \ ({arg[w].id} \ outrun)
             /\ table' = IF ~(arg[w].id \in 1..Rows /\ ~table[arg[w].id].deleted) THEN table
                         ELSE IF pc[w] = "edit"
                         THEN [table EXCEPT ![arg[w].id].text = arg[w].text]
                         ELSE [table EXCEPT ![arg[w].id].text = DeletedText,
                                            ![arg[w].id].deleted = TRUE]
<1>3. UpdateFails(arg[w].id) \/ Succeeds
  <2>1. CASE pc[w] = "edit"
    BY <1>1, <1>2, <2>1 DEF db_edit_message
  <2>2. CASE pc[w] # "edit"
    BY <1>1, <1>2, <2>2 DEF db_delete_message
  <2> QED BY <2>1, <2>2
<1>4. outrun \subseteq loose' /\ loose' \subseteq 1..2 * MaxMsgs
  <2>1. /\ outrun \subseteq loose /\ loose \subseteq 1..2 * MaxMsgs
        /\ arg[w].id \in 1..2 * MaxMsgs
    BY <1>2 DEF HistoryInv, TypeOK, Messages
  <2>2. CASE UpdateFails(arg[w].id)
    BY <2>1, <2>2 DEF UpdateFails
  <2>3. CASE loose' = IF pc[w] = "edit" THEN loose ELSE loose \ ({arg[w].id} \ outrun)
    BY <2>1, <2>3
  <2> QED BY <1>3, <2>2, <2>3
<1>5. CASE UpdateFails(arg[w].id)
  BY <1>1, <1>2, <1>4, <1>5
<1>6. CASE Succeeds /\ ~(arg[w].id \in 1..Rows /\ ~table[arg[w].id].deleted)
  BY <1>1, <1>2, <1>4, <1>6
<1>7. CASE Succeeds /\ arg[w].id \in 1..Rows /\ ~table[arg[w].id].deleted
  <2>1. PICK k \in 1..Rows : k = arg[w].id
    BY <1>7
  <2>2. PICK o \in Messages : o = table[k] /\ o.id = k /\ ~o.deleted
    BY <1>2, <1>7, <2>1 DEF HistoryInv, TableOK
  <2>3. CASE pc[w] = "edit"
    <3> DEFINE r == [o EXCEPT !.text = arg[w].text, !.deleted = FALSE]
    <3>1. /\ r \in Messages /\ r.id = k /\ r.sender = o.sender
          /\ r.deleted = FALSE /\ r.text = arg[w].text /\ r = [o EXCEPT !.text = arg[w].text]
      BY <1>2, <2>2 DEF Messages
    <3>2. table' = [table EXCEPT ![k].text = arg[w].text]
      BY <1>7, <2>1, <2>3
    <3>3. table' = [table EXCEPT ![k] = r]
      BY <2>2, <3>1, <3>2
    <3>4. r = [table[arg[w].id] EXCEPT
                  !.text = IF pc[w] = "edit" THEN arg[w].text ELSE DeletedText,
                  !.deleted = (pc[w] # "edit")]
      BY <2>1, <2>2, <2>3
    <3> HIDE DEF r
    <3> QED BY <1>1, <1>2, <1>4, <1>7, <2>1, <2>2, <2>3, <3>1, <3>3, <3>4
  <2>4. CASE pc[w] # "edit"
    <3> DEFINE r == [o EXCEPT !.text = DeletedText, !.deleted = TRUE]
    <3>1. /\ r \in Messages /\ r.id = k /\ r.sender = o.sender
          /\ r.deleted = TRUE /\ r.text = DeletedText
      BY <2>2 DEF Messages
    <3>2. table' = [table EXCEPT ![k].text = DeletedText, ![k].deleted = TRUE]
      BY <1>7, <2>1, <2>4
    <3>3. table' = [table EXCEPT ![k] = r]
      <4>1. \A i \in 1..Rows : table'[i] = IF i = k THEN r ELSE table[i]
        BY <1>2, <2>2, <3>2 DEF Messages
      <4> QED BY <1>2, <3>2, <4>1
    <3>4. r = [table[arg[w].id] EXCEPT
                  !.text = IF pc[w] = "edit" THEN arg[w].text ELSE DeletedText,
                  !.deleted = (pc[w] # "edit")]
      BY <2>1, <2>2, <2>4
    <3> HIDE DEF r
    <3> QED BY <1>1, <1>2, <1>4, <1>7, <2>1, <2>2, <2>4, <3>1, <3>3, <3>4
  <2> QED BY <2>3, <2>4
<1> QED
  BY <1>3, <1>5, <1>6, <1>7

LEMMA UpdateKeeps ==
    ASSUME HistoryInv, NEW w \in Writers, db_edit_message(w) \/ db_delete_message(w)
    PROVE  HistoryInv'
<1>1. /\ w \in Changing /\ End(w) /\ UNCHANGED <<ring, saved, crossed, outrun>>
      /\ outrun \subseteq loose' /\ loose' \subseteq 1..2 * MaxMsgs
  BY UpdatedRow
<1>2. CASE table' = table
  BY <1>1, <1>2, NoRowKeeps
<1>3. CASE table' # table
  <2>1. PICK r \in Messages :
           /\ arg[w].id \in 1..Rows /\ r.id = arg[w].id
           /\ r.sender = table[arg[w].id].sender
           /\ r.deleted => r.text = DeletedText
           /\ table' = [table EXCEPT ![arg[w].id] = r]
    BY <1>3, UpdatedRow DEF UpdateFails
  <2>2. PICK k \in 1..Rows : k = arg[w].id
    BY <2>1
  <2> QED BY <1>1, <2>1, <2>2, RowKeeps
<1> QED
  BY <1>2, <1>3

\* A second EDIT of a message makes its row a loose one.
LEMMA EditLoosens ==
    ASSUME HistoryInv, NEW w \in Writers, NEW x \in Texts, NEW k \in 0..Stored - 1,
           room_edit_message(w, k, x)
    PROVE  /\ loose \subseteq loose' /\ loose' \subseteq 1..2 * MaxMsgs
           /\ \A v \in Writers : pc[v] = "edit" /\ arg[v].id = history[Slot(k)].id
                                    => arg[v].id \in loose'
<1>1. loose' = loose \cup {arg[v].id : v \in {v \in Editing : arg[v].id = history[Slot(k)].id}}
  BY DEF room_edit_message
<1>2. \A v \in Editing : arg[v].id \in 1..2 * MaxMsgs
  BY DEF HistoryInv, ArgsOK, Changing, Editing, Messages
<1>3. loose \subseteq 1..2 * MaxMsgs
  BY DEF HistoryInv, TypeOK
<1> QED
  BY <1>1, <1>2, <1>3 DEF Editing

LEMMA NextHistoryInv ==
    ASSUME HistoryInv, [Next]_vars
    PROVE  HistoryInv'
<1>1. ASSUME NEW w \in Writers, NEW x \in Texts, db_save_message(w, x) PROVE HistoryInv'
  BY <1>1, SaveKeeps
<1>2. ASSUME NEW w \in Writers, room_add_history(w) PROVE HistoryInv'
  BY <1>2, PushKeeps
<1>3. ASSUME NEW w \in Writers, NEW x \in Texts, NEW k \in 0..Stored - 1,
             room_edit_message(w, k, x)
      PROVE  HistoryInv'
  <2>1. /\ pc[w] = "idle" /\ pc' = [pc EXCEPT ![w] = "edit"]
        /\ UNCHANGED <<table, saved, history_count, history_start, crossed, outrun>>
        /\ loose \subseteq loose' /\ loose' \subseteq 1..2 * MaxMsgs
    BY <1>3, EditLoosens DEF room_edit_message, Start, Idle
  <2>2. PICK m \in Messages :
           /\ m.id = Window[k + 1].id /\ m.sender = Window[k + 1].sender
           /\ history' = [history EXCEPT ![Slot(k)] = m]
           /\ arg' = [arg EXCEPT ![w] = m]
    BY <1>3, EditedMessage
  <2> QED BY <2>1, <2>2, ChangeKeeps
<1>4. ASSUME NEW w \in Writers, NEW k \in 0..Stored - 1, room_delete_message(w, k)
      PROVE  HistoryInv'
  <2>1. /\ pc[w] = "idle" /\ pc' = [pc EXCEPT ![w] = "delete"]
        /\ UNCHANGED <<table, saved, history_count, history_start, crossed, outrun>>
        /\ loose \subseteq loose' /\ loose' \subseteq 1..2 * MaxMsgs
    BY <1>4 DEF room_delete_message, Start, Idle, HistoryInv, TypeOK
  <2>2. PICK m \in Messages :
           /\ m.id = Window[k + 1].id /\ m.sender = Window[k + 1].sender
           /\ history' = [history EXCEPT ![Slot(k)] = m]
           /\ arg' = [arg EXCEPT ![w] = m]
    BY <1>4, DeletedMessage, ZenonT(30)
  <2> QED BY <2>1, <2>2, ChangeKeeps
<1>5. ASSUME NEW w \in Writers, db_edit_message(w) \/ db_delete_message(w)
      PROVE  HistoryInv'
  BY <1>5, UpdateKeeps
<1>6. ASSUME create_room \/ restart PROVE HistoryInv'
  BY <1>6, Reloaded, LoadKeeps
<1>7. ASSUME UNCHANGED vars PROVE HistoryInv'
  <2>1. Stored' = Stored /\ Window' = Window /\ Rows' = Rows
    BY <1>7, RingUnchanged DEF vars, ring, Rows
  <2>2. Storing' = Storing /\ Changing' = Changing
    BY <1>7 DEF vars, Storing, Changing
  <2>3. Complete' = Complete
    BY <2>1, <2>2 DEF Complete
  <2>4. TypeOK' /\ TableOK' /\ RingOK'
    BY <1>7, <2>1 DEF vars, HistoryInv, TypeOK, TableOK, RingOK
  <2>5. ArgsOK' /\ SendersOK'
    BY <1>7, <2>1, <2>2 DEF vars, HistoryInv, ArgsOK, SendersOK
  <2>6. OrderOK'
    BY <1>7, <2>1, <2>2, <2>3 DEF vars, HistoryInv, OrderOK
  <2> QED BY <2>4, <2>5, <2>6 DEF HistoryInv
<1> QED
  BY <1>1, <1>2, <1>3, <1>4, <1>5, <1>6, <1>7 DEF Next

\* The invariant of the ring, the table and the commands in progress
\* (registry.c:471-540, db.c), whatever overlaps and whatever fails.
THEOREM HistoryInvariant == Spec => []HistoryInv
<1>1. Init => HistoryInv
  BY InitHistoryInv
<1>2. HistoryInv /\ [Next]_vars => HistoryInv'
  BY NextHistoryInv
<1> QED
  BY <1>1, <1>2, PTL DEF Spec


-------------------------------------------------------------------------------
(* The ring implements the window of RoomLog. *)

\* The rows as the refinement mapping has them.
Kept == [i \in 1..Cardinality(DOMAIN table) |-> table[i]]

LEMMA AppendIs ==
    ASSUME NEW S, NEW s \in Seq(S), NEW e \in S
    PROVE  Append(s, e) = [i \in 1..Len(s) + 1 |-> IF i = Len(s) + 1 THEN e ELSE s[i]]
<1> DEFINE a == [i \in 1..Len(s) + 1 |-> IF i = Len(s) + 1 THEN e ELSE s[i]]
<1>1. a \in Seq(S) /\ Len(a) = Len(s) + 1
  OBVIOUS
<1>2. Append(s, e) \in Seq(S) /\ Len(Append(s, e)) = Len(s) + 1
  OBVIOUS
<1>3. \A i \in 1..Len(s) + 1 : a[i] = Append(s, e)[i]
  OBVIOUS
<1> HIDE DEF a
<1>4. a = Append(s, e)
  BY <1>1, <1>2, <1>3, SeqEqual
<1> QED
  BY <1>4 DEF a

LEMMA MappedSequences ==
    ASSUME HistoryInv
    PROVE  /\ Kept = table /\ table \in Seq(Messages) /\ Len(table) = Rows /\ Rows \in Nat
           /\ Window \in Seq(Messages) /\ Len(Window) = Stored /\ Stored \in 0..Cap
           /\ Window = [i \in 1..Stored |-> Window[i]]
<1>1. Stored \in 0..Cap /\ Stored \in Nat /\ Rows \in Nat
  BY StoredRange, HistoryAssumption DEF HistoryInv, TableOK, TypeOK
<1>2. Window \in [1..Stored -> Messages]
  <2>1. \A i \in 1..Stored : Window[i] \in Messages
    BY DEF HistoryInv, RingOK
  <2>2. Window = [i \in 1..Stored |-> Window[i]]
    BY DEF Window
  <2> QED BY <2>1, <2>2
<1>3. table \in [1..Rows -> Messages]
  BY DEF HistoryInv, TableOK
<1>4. Kept = table
  BY <1>3 DEF Kept, Rows
<1> QED
  BY <1>1, <1>2, <1>3, <1>4

LEMMA InitMapped == Init => Log!Init
<1> SUFFICES ASSUME Init PROVE Log!Init
  OBVIOUS
<1>1. HistoryInv
  BY InitHistoryInv
<1>2. Stored = 0 /\ Rows = 0
  BY HistoryAssumption, FS_EmptySet DEF Init, Stored, Rows
<1>3. Window = <<>> /\ Kept = <<>>
  BY <1>1, <1>2, MappedSequences
<1> QED
  BY <1>3 DEF Log!Init, Kept

\* A saved row is a Save, a message that enters the ring a Post.
LEMMA SaveMapped ==
    ASSUME HistoryInv, NEW w \in Writers, NEW x \in Texts, db_save_message(w, x)
    PROVE  Log!Next \/ UNCHANGED <<Window, Kept>>
<1>1. Window' = Window
  BY RingUnchanged DEF db_save_message
<1>2. PICK ok \in BOOLEAN, m \in Messages :
         /\ m.id = IF ok THEN Rows + 1 ELSE MaxMsgs + saved + 1
         /\ table' = IF ok THEN [i \in DOMAIN table \cup {m.id} |->
                                    IF i = m.id THEN m ELSE table[i]]
                     ELSE table
  BY SavedMessage
<1>3. CASE ~ok
  BY <1>1, <1>2, <1>3 DEF Kept
<1>4. CASE ok
  <2>1. /\ Rows' = Rows + 1
        /\ table' = [i \in 1..Rows + 1 |-> IF i = Rows + 1 THEN m ELSE table[i]]
    BY <1>2, <1>4, RowAdded DEF HistoryInv, TypeOK
  <2>2. table \in Seq(Messages) /\ Len(table) = Rows /\ Rows \in Nat /\ Kept = table
    BY MappedSequences
  <2>3. table' = Append(table, m)
    BY <2>1, <2>2, AppendIs
  <2>4. Kept' = Append(Kept, m)
    BY <2>1, <2>2, <2>3 DEF Kept, Rows
  <2>5. Log!Save(m)
    BY <1>1, <2>4 DEF Log!Save, Kept
  <2> QED BY <2>5 DEF Log!Next
<1> QED
  BY <1>3, <1>4

LEMMA PushMapped ==
    ASSUME HistoryInv, NEW w \in Writers, room_add_history(w)
    PROVE  Log!Next
<1>1. w \in Storing /\ Kept' = Kept
  BY DEF room_add_history, Storing, Kept
<1>2. PICK m \in Messages : m = arg[w]
  BY <1>1 DEF HistoryInv, ArgsOK
<1>3. /\ Window \in Seq(Messages) /\ Len(Window) = Stored /\ Stored \in 0..Cap
      /\ Cap \in Nat \ {0}
  BY MappedSequences, HistoryAssumption
<1>4. Window' = [i \in 1..Stored' |-> Window'[i]]
  BY DEF Window
<1>5. /\ Stored' = IF Stored < Cap THEN Stored + 1 ELSE Cap
      /\ Stored < Cap => \A i \in 1..Stored + 1 :
                            Window'[i] = IF i <= Stored THEN Window[i] ELSE m
      /\ Stored = Cap => \A i \in 1..Cap :
                            Window'[i] = IF i < Cap THEN Window[i + 1] ELSE m
  BY <1>2, WindowPushed DEF HistoryInv, RingOK
<1>6. Window' = Log!LastOf(Append(Window, m))
  <2>1. CASE Stored < Cap
    <3>1. Log!LastOf(Append(Window, m)) = Append(Window, m)
      BY <1>3, <2>1 DEF Log!LastOf
    <3>2. Window' = [i \in 1..Stored + 1 |-> IF i <= Stored THEN Window[i] ELSE m]
      BY <1>4, <1>5, <2>1
    <3>3. \A i \in 1..Stored + 1 : i <= Stored <=> i # Stored + 1
      BY <1>3
    <3>4. Window' = [i \in 1..Stored + 1 |-> IF i = Stored + 1 THEN m ELSE Window[i]]
      BY <3>2, <3>3
    <3> QED BY <1>3, <3>1, <3>4, AppendIs
  <2>2. CASE Stored = Cap
    <3>1. /\ Append(Window, m) \in Seq(Messages) /\ Len(Append(Window, m)) = Cap + 1
          /\ \A i \in 1..Cap + 1 : Append(Window, m)[i] = IF i <= Cap THEN Window[i] ELSE m
      BY <1>3, <2>2
    <3>2. PICK a : a = Append(Window, m)
      OBVIOUS
    <3>3. Log!LastOf(a) = SubSeq(a, Len(a) - Cap + 1, Len(a))
      BY <1>3, <3>1, <3>2 DEF Log!LastOf
    <3>4. Len(a) - Cap + 1 = 2 /\ Len(a) = Cap + 1 /\ a \in Seq(Messages)
      BY <1>3, <3>1, <3>2
    <3>5. SubSeq(a, 2, Cap + 1) = [i \in 1..Cap |-> a[i + 1]]
      BY <1>3, <3>4
    <3>6. \A i \in 1..Cap : a[i + 1] = IF i < Cap THEN Window[i + 1] ELSE m
      BY <1>3, <3>1, <3>2
    <3>7. Window' = [i \in 1..Cap |-> a[i + 1]]
      BY <1>3, <1>4, <1>5, <2>2, <3>6
    <3> QED BY <3>2, <3>3, <3>4, <3>5, <3>7
  <2> QED BY <1>3, <2>1, <2>2
<1>7. \A i \in 1..Len(Window) : Window[i].id # m.id
  BY <1>1, <1>2, <1>3 DEF HistoryInv, ArgsOK
<1>8. Log!Post(m)
  BY <1>1, <1>6, <1>7 DEF Log!Post, Kept
<1> QED
  BY <1>2, <1>8 DEF Log!Next


\* EDIT and DELETE change the window, their UPDATEs the stored rows.
LEMMA ChangeMapped ==
    ASSUME HistoryInv, NEW w \in Writers, NEW k \in 0..Stored - 1,
           \/ \E x \in Texts : room_edit_message(w, k, x)
           \/ room_delete_message(w, k)
    PROVE  Log!Next
<1>1. Kept' = Kept /\ UNCHANGED <<history_count, history_start>>
  BY DEF room_edit_message, room_delete_message, Kept
<1>2. PICK m \in Messages, x \in Texts \cup {DeletedText}, del \in BOOLEAN :
         /\ history' = [history EXCEPT ![Slot(k)] = m]
         /\ m = [Window[k + 1] EXCEPT !.text = x, !.deleted = del]
         /\ ~Window[k + 1].deleted /\ k + 1 \in 1..Stored
  <2>1. CASE \E x \in Texts : room_edit_message(w, k, x)
    <3>1. PICK x \in Texts : room_edit_message(w, k, x)
      BY <2>1
    <3>2. PICK m \in Messages :
             /\ m = [Window[k + 1] EXCEPT !.text = x] /\ ~Window[k + 1].deleted
             /\ history' = [history EXCEPT ![Slot(k)] = m] /\ k + 1 \in 1..Stored
      BY <3>1, EditedMessage
    <3>3. Window[k + 1] \in Messages
      BY <3>2 DEF HistoryInv, RingOK
    <3>4. [Window[k + 1] EXCEPT !.text = x] = [Window[k + 1] EXCEPT !.text = x, !.deleted = FALSE]
      BY <3>2, <3>3 DEF Messages
    <3> QED BY <3>2, <3>4
  <2>2. CASE room_delete_message(w, k)
    <3>1. PICK m \in Messages :
             /\ m = [Window[k + 1] EXCEPT !.text = DeletedText, !.deleted = TRUE]
             /\ ~Window[k + 1].deleted
             /\ history' = [history EXCEPT ![Slot(k)] = m] /\ k + 1 \in 1..Stored
      BY <2>2, DeletedMessage
    <3> QED BY <3>1
  <2> QED BY <2>1, <2>2
<1>3. /\ Stored' = Stored
      /\ \A i \in 1..Stored : Window'[i] = IF i = k + 1 THEN m ELSE Window[i]
  <2>1. TypeOK
    BY DEF HistoryInv
  <2>2. history' = [history EXCEPT ![Slot(k)] = m]
    BY <1>2
  <2> QED BY <1>1, <2>1, <2>2, WindowChanged
<1>4. Window' = [i \in 1..Stored' |-> Window'[i]]
  BY DEF Window
<1>5. /\ Window \in Seq(Messages) /\ Len(Window) = Stored
      /\ Window = [i \in 1..Stored |-> Window[i]]
  BY MappedSequences
<1>6. Window' = [Window EXCEPT ![k + 1] = m]
  BY <1>2, <1>3, <1>4, <1>5
<1>7. PICK s : s = Window
  OBVIOUS
<1>8. Log!Changed(s, k + 1, x, del) = [s EXCEPT ![k + 1] = m]
  <2>1. Log!Changed(s, k + 1, x, del) =
           [s EXCEPT ![k + 1].text = x, ![k + 1].deleted = del]
    BY <1>2, <1>7 DEF Log!Changed
  <2>2. s \in [1..Stored -> Messages] /\ k + 1 \in 1..Stored
    <3>1. s \in Seq(Messages) /\ Len(s) = Stored
      BY <1>5, <1>7
    <3>2. s \in [1..Len(s) -> Messages]
      BY <3>1, LenProperties
    <3> QED BY <1>2, <3>1, <3>2
  <2> QED BY <1>2, <1>7, <2>1, <2>2 DEF Messages
<1>9. Log!ChangeWindow(k + 1, x, del)
  BY <1>1, <1>6, <1>7, <1>8 DEF Log!ChangeWindow, Kept
<1> QED
  BY <1>2, <1>5, <1>9 DEF Log!Next

LEMMA UpdateMapped ==
    ASSUME HistoryInv, NEW w \in Writers, db_edit_message(w) \/ db_delete_message(w)
    PROVE  Log!Next \/ UNCHANGED <<Window, Kept>>
<1>1. Window' = Window
  BY UpdatedRow, RingUnchanged
<1>2. CASE table' = table
  BY <1>1, <1>2 DEF Kept
<1>3. CASE table' # table
  <2>1. PICK r \in Messages, k \in 1..Rows, x \in Texts \cup {DeletedText}, del \in BOOLEAN :
           /\ ~table[k].deleted
           /\ r = [table[k] EXCEPT !.text = x, !.deleted = del]
           /\ table' = [table EXCEPT ![k] = r]
    <3>1. arg[w].text \in Texts \cup {DeletedText} /\ arg[w].id \in 1..Rows
      BY <1>3, UpdatedRow DEF Messages, UpdateFails
    <3> DEFINE x == IF pc[w] = "edit" THEN arg[w].text ELSE DeletedText
               del == pc[w] # "edit"
    <3>2. x \in Texts \cup {DeletedText} /\ del \in BOOLEAN
      BY <3>1
    <3>3. PICK r \in Messages :
             /\ ~table[arg[w].id].deleted
             /\ r = [table[arg[w].id] EXCEPT !.text = x, !.deleted = del]
             /\ table' = [table EXCEPT ![arg[w].id] = r]
      BY <1>3, UpdatedRow DEF UpdateFails
    <3> HIDE DEF x, del
    <3> QED BY <3>1, <3>2, <3>3
  <2>2. /\ Kept = table /\ table \in Seq(Messages) /\ Len(table) = Rows
        /\ table \in [1..Rows -> Messages]
    BY MappedSequences DEF HistoryInv, TableOK
  <2>3. DOMAIN table' = DOMAIN table /\ table' = [i \in 1..Rows |-> table'[i]]
    BY <2>1, <2>2
  <2>4. Kept' = table'
    BY <2>3 DEF Kept, Rows
  <2>5. PICK s : s = table
    OBVIOUS
  <2>6. Log!Changed(s, k, x, del) = [s EXCEPT ![k] = r]
    <3>1. Log!Changed(s, k, x, del) = [s EXCEPT ![k].text = x, ![k].deleted = del]
      BY <2>1, <2>5 DEF Log!Changed
    <3> QED BY <2>1, <2>2, <2>5, <3>1 DEF Messages
  <2>7. Kept' = Log!Changed(s, k, x, del) /\ Kept = s /\ Len(s) = Rows
    BY <2>1, <2>2, <2>4, <2>5, <2>6
  <2>8. Log!ChangeStored(k, x, del)
    BY <1>1, <2>7 DEF Log!ChangeStored, Kept
  <2>9. k \in 1..Len(Kept)
    BY <2>7
  <2> QED BY <2>1, <2>8, <2>9 DEF Log!Next, Kept
<1> QED
  BY <1>2, <1>3

\* Creating the room again is a Reload.
LEMMA LoadMapped ==
    ASSUME HistoryInv, create_room \/ restart
    PROVE  Log!Next
<1>1. Kept' = Kept /\ Kept = table /\ table \in Seq(Messages) /\ Len(table) = Rows
  BY MappedSequences, Reloaded DEF Kept
<1>2. PICK n \in 0..Loadable :
         Stored' = n /\ \A i \in 1..n : Window'[i] = table[Rows - Loadable + i]
  BY WindowLoaded, Reloaded DEF HistoryInv
<1>3. /\ Rows \in Nat /\ Cap \in Nat \ {0} /\ Loadable \in 0..Cap /\ Loadable <= Rows
  BY RowsLoaded, HistoryAssumption DEF HistoryInv, TypeOK
<1>4. Window' = [i \in 1..n |-> table[Rows - Loadable + i]]
  <2>1. Window' = [i \in 1..Stored' |-> Window'[i]]
    BY DEF Window
  <2> QED BY <1>2, <2>1
<1>5. PICK s : s = table
  OBVIOUS
<1>6. PICK l : l = [i \in 1..Loadable |-> s[Rows - Loadable + i]]
  OBVIOUS
<1>7. Log!LastOf(s) = l
  <2>1. CASE Rows <= Cap
    <3>1. Loadable = Rows /\ Log!LastOf(s) = s
      BY <1>1, <1>5, <2>1 DEF Loadable, Log!LastOf
    <3>2. \A i \in 1..Rows : Rows - Rows + i = i
      BY <1>3
    <3>3. s = [i \in 1..Rows |-> s[i]]
      BY <1>1, <1>5
    <3> QED BY <1>6, <3>1, <3>2, <3>3
  <2>2. CASE ~(Rows <= Cap)
    <3>1. Loadable = Cap /\ Log!LastOf(s) = SubSeq(s, Rows - Cap + 1, Rows)
      BY <1>1, <1>5, <2>2 DEF Loadable, Log!LastOf
    <3>2. SubSeq(s, Rows - Cap + 1, Rows) = [i \in 1..Cap |-> s[Rows - Cap + i]]
      BY <1>1, <1>3, <1>5, <2>2
    <3> QED BY <1>6, <3>1, <3>2
  <2> QED BY <2>1, <2>2
<1>8. l \in Seq(Messages) /\ Len(l) = Loadable
  <2>1. \A i \in 1..Loadable : s[Rows - Loadable + i] \in Messages
    BY <1>1, <1>3, <1>5
  <2> QED BY <1>3, <1>6, <2>1
<1>9. Window' = SubSeq(l, 1, n)
  <2>1. SubSeq(l, 1, n) = [i \in 1..n |-> l[i]]
    BY <1>2, <1>3, <1>8
  <2>2. \A i \in 1..n : i \in 1..Loadable
    BY <1>2, <1>3
  <2>3. \A i \in 1..n : l[i] = table[Rows - Loadable + i]
    BY <1>5, <1>6, <2>2
  <2> QED BY <1>4, <2>1, <2>3
<1>10. n \in 0..Len(Log!LastOf(s)) /\ Window' = SubSeq(Log!LastOf(s), 1, n)
  BY <1>2, <1>7, <1>8, <1>9
<1>11. Kept' = Kept /\ Kept = s
  BY <1>1, <1>5
<1>12. Log!Reload
  BY <1>10, <1>11 DEF Log!Reload, Kept
<1> QED
  BY <1>12 DEF Log!Next

LEMMA NextMapped ==
    ASSUME HistoryInv, [Next]_vars
    PROVE  Log!Next \/ UNCHANGED <<Window, Kept>>
<1>1. ASSUME UNCHANGED vars PROVE UNCHANGED <<Window, Kept>>
  BY <1>1, RingUnchanged DEF vars, ring, Kept
<1> QED
  BY <1>1, SaveMapped, PushMapped, ChangeMapped, UpdateMapped, LoadMapped DEF Next

\* The ring of room_t, with its index arithmetic and the total that falls back,
\* behaves as the window of the last Cap messages, and the table as the log of
\* RoomLog, for every capacity and every overlap (room_add_history,
\* room_send_history, room_edit_message, room_delete_message, db_load_history).
THEOREM RingImplementsLog == Spec => ImplementsLog
<1>1. Init => Log!Init
  BY InitMapped
<1>2. HistoryInv /\ [Next]_vars =>
         [Log!Next]_<<Window, [i \in 1..Cardinality(DOMAIN table) |-> table[i]]>>
  BY NextMapped DEF Kept
<1> QED
  BY <1>1, <1>2, HistoryInvariant, PTL DEF Spec, ImplementsLog, Log!Spec


-------------------------------------------------------------------------------
(* Memory and table agree. *)

\* The EDITs and DELETEs in progress on row k stay.
LEMMA PendingSame ==
    ASSUME NEW k \in 1..Rows, k \in 1..Rows',
           \A v \in Writers : \/ v \in Changing /\ arg[v].id = k
                              \/ v \in Changing' /\ arg'[v].id = k
                              => pc'[v] = pc[v] /\ arg'[v] = arg[v]
    PROVE  Edits'[k] = Edits[k] /\ Deletes'[k] = Deletes[k]
<1>1. \A v \in Writers :
         /\ (pc'[v] = "edit" /\ arg'[v].id = k) <=> (pc[v] = "edit" /\ arg[v].id = k)
         /\ (pc'[v] = "delete" /\ arg'[v].id = k) <=> (pc[v] = "delete" /\ arg[v].id = k)
         /\ pc[v] = "edit" /\ arg[v].id = k => arg'[v] = arg[v]
  BY DEF Changing
<1>2. {v \in Writers : pc'[v] = "edit" /\ arg'[v].id = k}
        = {v \in Writers : pc[v] = "edit" /\ arg[v].id = k}
  BY <1>1
<1>3. Edits'[k] = Edits[k]
  BY <1>1, <1>2 DEF Edits
<1>4. Deletes'[k] = Deletes[k]
  BY <1>1 DEF Deletes
<1> QED
  BY <1>3, <1>4

\* MSG: the new row is not shown yet, and when it is nobody has touched it.
LEMMA SaveKeepsContent ==
    ASSUME HistoryInv, ContentInv, NEW w \in Writers, NEW x \in Texts,
           db_save_message(w, x)
    PROVE  ContentInv'
<1>1. Window' = Window /\ Stored' = Stored /\ UNCHANGED <<loose, outrun>>
  BY RingUnchanged DEF db_save_message
<1>2. /\ pc[w] = "idle" /\ pc' = [pc EXCEPT ![w] = "store"] /\ w \in Writers
      /\ pc \in [Writers -> {"idle", "store", "edit", "delete"}]
      /\ arg \in [Writers -> Messages \cup {NoMessage}]
      /\ saved \in 0..MaxMsgs - 1 /\ MaxMsgs \in Nat /\ Rows \in 0..saved
  BY HistoryAssumption DEF db_save_message, Start, Idle, HistoryInv, TypeOK, TableOK
<1>3. PICK m \in Messages :
         /\ arg' = [arg EXCEPT ![w] = m]
         /\ \/ table' = table
            \/ /\ m.id = Rows + 1
               /\ table' = [i \in DOMAIN table \cup {m.id} |->
                               IF i = m.id THEN m ELSE table[i]]
  BY SavedMessage
<1>4. /\ Rows' \in {Rows, Rows + 1}
      /\ \A k \in 1..Rows : table'[k] = table[k]
  <2>1. CASE table' = table
    BY <2>1 DEF Rows
  <2>2. CASE table' # table
    <3>1. /\ Rows' = Rows + 1
          /\ table' = [i \in 1..Rows + 1 |-> IF i = Rows + 1 THEN m ELSE table[i]]
      BY <1>2, <1>3, <2>2, RowAdded DEF HistoryInv
    <3> QED BY <1>2, <3>1
  <2> QED BY <2>1, <2>2
<1>5. \A i \in 1..Stored : Window[i].id # Rows + 1
  <2>1. Rows + 1 \notin Given(Rows, saved)
    BY <1>2 DEF Given
  <2> QED BY <2>1 DEF HistoryInv, RingOK
<1>6. \A v \in Writers : v \in Changing \/ v \in Changing' =>
                            pc'[v] = pc[v] /\ arg'[v] = arg[v]
  BY <1>2, <1>3 DEF Changing
<1>7. ASSUME NEW i \in 1..Stored, NEW k \in 1..Rows', Window[i].id = k
      PROVE  /\ k \notin loose' => Agree(Window[i], table'[k], Edits'[k], Deletes'[k])
             /\ k \notin outrun' => Marked(Window[i], table'[k], Deletes'[k])
  <2>1. k \in 1..Rows
    BY <1>2, <1>4, <1>5, <1>7
  <2>2. Edits'[k] = Edits[k] /\ Deletes'[k] = Deletes[k]
    BY <1>6, <2>1, PendingSame
  <2> QED BY <1>1, <1>4, <1>7, <2>1, <2>2 DEF ContentInv
<1> QED
  BY <1>1, <1>7 DEF ContentInv

LEMMA PushKeepsContent ==
    ASSUME HistoryInv, ContentInv, NEW w \in Writers, room_add_history(w)
    PROVE  ContentInv'
<1>1. /\ w \in Storing /\ w \notin Changing /\ End(w) /\ Rows' = Rows
      /\ UNCHANGED <<table, loose, outrun>> /\ pc[w] # "idle"
  BY DEF room_add_history, Storing, Changing, Rows
<1>2. /\ Changing' = Changing
      /\ \A v \in Writers \ {w} : arg'[v] = arg[v] /\ pc'[v] = pc[v]
  BY <1>1, Ended DEF HistoryInv
<1>3. PICK m \in Messages : m = arg[w]
  BY <1>1 DEF HistoryInv, ArgsOK
<1>4. /\ Stored \in 0..Cap /\ Cap \in Nat \ {0}
      /\ Stored' = IF Stored < Cap THEN Stored + 1 ELSE Cap
      /\ Stored < Cap => \A i \in 1..Stored + 1 :
                            Window'[i] = IF i <= Stored THEN Window[i] ELSE m
      /\ Stored = Cap => \A i \in 1..Cap :
                            Window'[i] = IF i < Cap THEN Window[i + 1] ELSE m
  BY <1>3, WindowPushed, StoredRange, HistoryAssumption DEF HistoryInv, RingOK
<1>5. \A i \in 1..Stored' : Window'[i] = m \/ \E j \in 1..Stored : Window'[i] = Window[j]
  <2>1. CASE Stored < Cap
    BY <1>4, <2>1
  <2>2. CASE Stored = Cap
    BY <1>4, <2>2
  <2> QED BY <1>4, <2>1, <2>2
<1>6. \A v \in Writers : v \in Changing \/ v \in Changing' =>
                            pc'[v] = pc[v] /\ arg'[v] = arg[v]
  BY <1>1, <1>2
<1>7. ASSUME NEW k \in 1..Rows, m.id = k
      PROVE  Agree(m, table[k], Edits[k], Deletes[k]) /\ Marked(m, table[k], Deletes[k])
  <2>1. m = table[k] /\ ~m.deleted
    BY <1>1, <1>3, <1>7 DEF HistoryInv, ArgsOK
  <2>2. \A v \in Changing : arg[v].id # k
    BY <1>1, <1>3, <1>7 DEF HistoryInv, ArgsOK
  <2>3. Edits[k] = {} /\ Deletes[k] = {}
    BY <2>2 DEF Edits, Deletes, Changing
  <2> QED BY <2>1, <2>3 DEF Agree, Marked
<1>8. ASSUME NEW i \in 1..Stored', NEW k \in 1..Rows, Window'[i].id = k
      PROVE  /\ k \notin loose' => Agree(Window'[i], table[k], Edits'[k], Deletes'[k])
             /\ k \notin outrun' => Marked(Window'[i], table[k], Deletes'[k])
  <2>1. Edits'[k] = Edits[k] /\ Deletes'[k] = Deletes[k]
    BY <1>1, <1>6, PendingSame
  <2>2. /\ k \notin loose => Agree(Window'[i], table[k], Edits[k], Deletes[k])
        /\ k \notin outrun => Marked(Window'[i], table[k], Deletes[k])
    BY <1>5, <1>7, <1>8 DEF ContentInv
  <2> QED BY <1>1, <2>1, <2>2
<1> QED
  BY <1>1, <1>8 DEF ContentInv

\* The room created again shows rows; the commands that are still to change one
\* of them are those that the exceptions name.
LEMMA LoadKeepsContent ==
    ASSUME HistoryInv, create_room \/ restart
    PROVE  ContentInv'
<1>1. PICK n \in 0..Loadable :
         Stored' = n /\ \A i \in 1..n : Window'[i] = table[Rows - Loadable + i]
  BY WindowLoaded, Reloaded DEF HistoryInv
<1>2. \A i \in 1..n : Rows - Loadable + i \in 1..Rows
  BY <1>1, RowsLoaded, HistoryAssumption DEF HistoryInv, TypeOK
<1>3. UNCHANGED table /\ Rows' = Rows
  BY Reloaded
<1>4. ASSUME NEW i \in 1..Stored', NEW k \in 1..Rows, Window'[i].id = k
      PROVE  /\ k \notin loose' => Agree(Window'[i], table[k], Edits'[k], Deletes'[k])
             /\ k \notin outrun' => Marked(Window'[i], table[k], Deletes'[k])
  <2>1. Window'[i] = table[k] /\ (table[k].deleted => table[k].text = DeletedText)
    BY <1>1, <1>2, <1>4 DEF HistoryInv, TableOK
  <2>2. k \notin outrun' => Deletes'[k] = {}
    <3>1. \A v \in Writers : pc'[v] = "delete" /\ arg'[v].id = k => k \in outrun'
      BY Reloaded DEF Changing
    <3> QED BY <1>3, <3>1 DEF Deletes
  <2>3. k \notin loose' => Edits'[k] = {} /\ Deletes'[k] = {}
    <3>1. \A v \in Writers : pc'[v] \in {"edit", "delete"} /\ arg'[v].id = k => k \in loose'
      BY Reloaded DEF Changing
    <3> QED BY <1>3, <3>1 DEF Edits, Deletes
  <2> QED BY <2>1, <2>2, <2>3 DEF Agree, Marked
<1> QED
  BY <1>3, <1>4 DEF ContentInv


LEMMA SameMessage ==
    ASSUME NEW m \in Messages, NEW n \in Messages, m.id = n.id, m.sender = n.sender,
           m.text = n.text, m.deleted <=> n.deleted
    PROVE  m = n
  BY DEF Messages

\* EDIT: unless another EDIT of the message is in progress, its text is the last.
LEMMA EditKeepsContent ==
    ASSUME HistoryInv, ContentInv, NEW w \in Writers, NEW x \in Texts,
           NEW j \in 0..Stored - 1, room_edit_message(w, j, x)
    PROVE  ContentInv'
<1>1. /\ pc[w] = "idle" /\ pc' = [pc EXCEPT ![w] = "edit"] /\ Rows' = Rows
      /\ UNCHANGED <<table, history_count, history_start, outrun>> /\ loose \subseteq loose'
  BY EditLoosens DEF room_edit_message, Start, Idle, Rows
<1>2. PICK m \in Messages :
         /\ m.id = Window[j + 1].id /\ m.text = x /\ ~m.deleted /\ ~Window[j + 1].deleted
         /\ history' = [history EXCEPT ![Slot(j)] = m]
         /\ arg' = [arg EXCEPT ![w] = m] /\ j + 1 \in 1..Stored
  BY EditedMessage
<1>3. /\ Stored' = Stored
      /\ \A i \in 1..Stored : Window'[i] = IF i = j + 1 THEN m ELSE Window[i]
  <2>1. TypeOK /\ history' = [history EXCEPT ![Slot(j)] = m]
    BY <1>2 DEF HistoryInv
  <2> QED BY <1>1, <2>1, WindowChanged
<1>4. /\ pc'[w] = "edit" /\ arg'[w] = m /\ w \notin Changing
      /\ \A v \in Writers \ {w} : pc'[v] = pc[v] /\ arg'[v] = arg[v]
  BY <1>1, <1>2 DEF HistoryInv, TypeOK, Changing
<1>5. ASSUME NEW i \in 1..Stored, NEW k \in 1..Rows, Window'[i].id = k
      PROVE  /\ k \notin loose' => Agree(Window'[i], table[k], Edits'[k], Deletes'[k])
             /\ k \notin outrun' => Marked(Window'[i], table[k], Deletes'[k])
  <2>1. CASE i = j + 1
    <3>1. Window'[i] = m /\ m.id = k /\ ~Window[i].deleted /\ Window[i].id = k
      BY <1>2, <1>3, <1>5, <2>1
    <3>2. ASSUME k \notin outrun PROVE Marked(m, table[k], Deletes'[k])
      <4>1. ~table[k].deleted /\ Deletes[k] = {}
        BY <1>5, <3>1, <3>2 DEF ContentInv, Marked
      <4>2. \A v \in Writers : ~(pc[v] = "delete" /\ arg[v].id = k)
        BY <4>1 DEF Deletes
      <4>3. Deletes'[k] = {}
        BY <1>1, <1>4, <4>2 DEF Deletes
      <4> QED BY <4>1, <4>3 DEF Marked
    <3>3. ASSUME k \notin loose' PROVE Agree(m, table[k], Edits'[k], Deletes'[k])
      <4>1. Agree(Window[i], table[k], Edits[k], Deletes[k])
        BY <1>1, <3>1, <3>3 DEF ContentInv
      <4>2. ~table[k].deleted /\ Deletes[k] = {}
        BY <3>1, <4>1 DEF Agree
      <4>3. \A v \in Writers : pc[v] = "edit" => arg[v].id # k
        <5>1. history[Slot(j)].id = k
          <6>1. Stored \in Nat /\ (j + 1) - 1 = j
            BY StoredRange, HistoryAssumption DEF HistoryInv
          <6> QED BY <1>2, <2>1, <3>1, <6>1 DEF Window
        <5> QED BY <3>3, <5>1, EditLoosens
      <4>4. {v \in Writers : pc'[v] = "edit" /\ arg'[v].id = k} = {w}
        BY <1>4, <3>1, <4>3
      <4>5. Edits'[k] = {arg'[w].text}
        BY <1>1, <4>4 DEF Edits
      <4>6. \A v \in Writers : ~(pc[v] = "delete" /\ arg[v].id = k)
        BY <4>2 DEF Deletes
      <4>7. Deletes'[k] = {}
        BY <1>1, <1>4, <4>6 DEF Deletes
      <4> QED BY <1>2, <1>4, <4>2, <4>5, <4>7 DEF Agree
    <3> QED BY <1>1, <3>1, <3>2, <3>3
  <2>2. CASE i # j + 1
    <3>1. Window'[i] = Window[i] /\ k # m.id
      BY <1>2, <1>3, <1>5, <2>2 DEF HistoryInv, RingOK
    <3>2. Edits'[k] = Edits[k] /\ Deletes'[k] = Deletes[k]
      BY <1>1, <1>4, <3>1, PendingSame
    <3> QED BY <1>1, <1>5, <3>1, <3>2 DEF ContentInv
  <2> QED BY <2>1, <2>2
<1> QED
  BY <1>1, <1>3, <1>5 DEF ContentInv

\* DELETE: the row follows.
LEMMA DeleteKeepsContent ==
    ASSUME HistoryInv, ContentInv, NEW w \in Writers, NEW j \in 0..Stored - 1,
           room_delete_message(w, j)
    PROVE  ContentInv'
<1>1. /\ pc[w] = "idle" /\ pc' = [pc EXCEPT ![w] = "delete"] /\ Rows' = Rows
      /\ UNCHANGED <<table, history_count, history_start, loose, outrun>>
  BY DEF room_delete_message, Start, Idle, Rows
<1>2. PICK m \in Messages :
         /\ m.id = Window[j + 1].id /\ m.text = DeletedText /\ m.deleted
         /\ history' = [history EXCEPT ![Slot(j)] = m]
         /\ arg' = [arg EXCEPT ![w] = m] /\ j + 1 \in 1..Stored
  BY DeletedMessage
<1>3. /\ Stored' = Stored
      /\ \A i \in 1..Stored : Window'[i] = IF i = j + 1 THEN m ELSE Window[i]
  <2>1. TypeOK /\ history' = [history EXCEPT ![Slot(j)] = m]
    BY <1>2 DEF HistoryInv
  <2> QED BY <1>1, <2>1, WindowChanged
<1>4. /\ pc'[w] = "delete" /\ arg'[w] = m /\ w \notin Changing
      /\ \A v \in Writers \ {w} : pc'[v] = pc[v] /\ arg'[v] = arg[v]
  BY <1>1, <1>2 DEF HistoryInv, TypeOK, Changing
<1>5. ASSUME NEW i \in 1..Stored, NEW k \in 1..Rows, Window'[i].id = k
      PROVE  /\ k \notin loose' => Agree(Window'[i], table[k], Edits'[k], Deletes'[k])
             /\ k \notin outrun' => Marked(Window'[i], table[k], Deletes'[k])
  <2>1. CASE i = j + 1
    <3>1. Window'[i] = m /\ m.id = k
      BY <1>2, <1>3, <1>5, <2>1
    <3>2. w \in Deletes'[k]
      BY <1>1, <1>4, <3>1 DEF Deletes
    <3> QED BY <1>2, <3>1, <3>2 DEF Agree, Marked
  <2>2. CASE i # j + 1
    <3>1. Window'[i] = Window[i] /\ k # m.id
      BY <1>2, <1>3, <1>5, <2>2 DEF HistoryInv, RingOK
    <3>2. Edits'[k] = Edits[k] /\ Deletes'[k] = Deletes[k]
      BY <1>1, <1>4, <3>1, PendingSame
    <3> QED BY <1>1, <1>5, <3>1, <3>2 DEF ContentInv
  <2> QED BY <2>1, <2>2
<1> QED
  BY <1>1, <1>3, <1>5 DEF ContentInv

\* The UPDATE makes the row what memory shows, unless a DELETE is still to come;
\* one that fails makes it a loose one, and the one of a DELETE mends it.
LEMMA UpdateKeepsContent ==
    ASSUME HistoryInv, ContentInv, NEW w \in Writers,
           db_edit_message(w) \/ db_delete_message(w)
    PROVE  ContentInv'
<1>1. /\ w \in Changing /\ End(w) /\ arg[w] \in Messages /\ pc[w] # "idle"
      /\ Stored' = Stored /\ Window' = Window /\ outrun' = outrun
      /\ outrun \subseteq loose
  BY UpdatedRow, RingUnchanged DEF Changing, HistoryInv, TypeOK
<1>2. /\ \A v \in Writers \ {w} : arg'[v] = arg[v] /\ pc'[v] = pc[v]
      /\ pc'[w] = "idle" /\ pc[w] \in {"edit", "delete"}
  BY <1>1, Ended DEF HistoryInv, TypeOK, End, Changing
<1>3. PICK e : e = arg[w].id
  OBVIOUS
<1>4. /\ Rows' = Rows /\ table \in [1..Rows -> Messages]
      /\ \A k \in 1..Rows : k # e => table'[k] = table[k] /\ (k \in loose' <=> k \in loose)
      /\ e \in 1..Rows =>
            \/ e \in loose' /\ table'[e] = table[e]
            \/ /\ table'[e] \in Messages /\ table'[e].id = e
               /\ table'[e].sender = table[e].sender
               /\ table[e].deleted => table'[e] = table[e]
               /\ ~table[e].deleted =>
                     /\ table'[e].deleted = (pc[w] # "edit")
                     /\ table'[e].text = IF pc[w] = "edit" THEN arg[w].text ELSE DeletedText
               /\ e \notin loose' /\ e \notin outrun =>
                     pc[w] = "delete" \/ e \notin loose
  <2>1. /\ table \in [1..Rows -> Messages]
        /\ \A k \in 1..Rows : table[k].id = k
    BY DEF HistoryInv, TableOK
  <2>2. CASE UpdateFails(e)
    <3>1. table' = table /\ loose' = loose \cup {e} /\ Rows' = Rows
      BY <2>2 DEF UpdateFails, Rows
    <3> QED BY <2>1, <3>1
  <2>3. CASE /\ loose' = IF pc[w] = "edit" THEN loose ELSE loose \ ({e} \ outrun)
             /\ table' = table /\ (e \in 1..Rows => table[e].deleted)
    <3>1. Rows' = Rows
      BY <2>3 DEF Rows
    <3> QED BY <1>2, <2>1, <2>3, <3>1
  <2>4. CASE /\ loose' = IF pc[w] = "edit" THEN loose ELSE loose \ ({e} \ outrun)
             /\ e \in 1..Rows /\ ~table[e].deleted
             /\ \E r \in Messages :
                   /\ r.id = e /\ r.sender = table[e].sender /\ r.deleted = (pc[w] # "edit")
                   /\ r.text = IF pc[w] = "edit" THEN arg[w].text ELSE DeletedText
                   /\ table' = [table EXCEPT ![e] = r]
    <3>1. PICK r \in Messages :
             /\ r.id = e /\ r.sender = table[e].sender /\ r.deleted = (pc[w] # "edit")
             /\ r.text = IF pc[w] = "edit" THEN arg[w].text ELSE DeletedText
             /\ table' = [table EXCEPT ![e] = r]
      BY <2>4
    <3>2. Rows' = Rows
      BY <2>1, <3>1 DEF Rows
    <3>3. table'[e] = r /\ \A k \in 1..Rows : k # e => table'[k] = table[k]
      BY <2>1, <2>4, <3>1
    <3>4. /\ \A k \in 1..Rows : k # e => (k \in loose' <=> k \in loose)
          /\ e \notin loose' /\ e \notin outrun => pc[w] = "delete" \/ e \notin loose
      BY <1>2, <2>4
    <3> QED BY <2>1, <2>4, <3>1, <3>2, <3>3, <3>4
  <2> QED BY <1>3, <2>2, <2>3, <2>4, UpdatedRow
<1>5. ASSUME NEW i \in 1..Stored, NEW k \in 1..Rows, Window[i].id = k
      PROVE  /\ k \notin loose' => Agree(Window[i], table'[k], Edits'[k], Deletes'[k])
             /\ k \notin outrun => Marked(Window[i], table'[k], Deletes'[k])
  <2>1. PICK m \in Messages : m = Window[i] /\ m.id = k
    BY <1>5 DEF HistoryInv, RingOK
  <2>2. /\ k \notin loose => Agree(m, table[k], Edits[k], Deletes[k])
        /\ k \notin outrun => Marked(m, table[k], Deletes[k])
    BY <1>5, <2>1 DEF ContentInv
  <2>3. CASE k # e
    <3>1. Edits'[k] = Edits[k] /\ Deletes'[k] = Deletes[k]
      BY <1>2, <1>3, <1>4, <2>3, PendingSame DEF Changing
    <3> QED BY <1>4, <2>1, <2>2, <2>3, <3>1
  <2>4. CASE k = e
    <3>1. /\ \A v \in Writers : pc'[v] = "edit" => pc[v] = "edit" /\ arg'[v] = arg[v]
          /\ \A v \in Writers : pc'[v] = "delete" => pc[v] = "delete" /\ arg'[v] = arg[v]
      BY <1>2
    <3>2. Edits'[k] \subseteq Edits[k] /\ Deletes'[k] \subseteq Deletes[k]
      BY <1>4, <3>1 DEF Edits, Deletes
    <3>3. /\ pc[w] = "edit" => arg[w].text \in Edits[k]
          /\ pc[w] = "delete" => w \in Deletes[k]
      BY <1>3, <2>4 DEF Edits, Deletes
    <3>4. ASSUME k \notin outrun PROVE Marked(m, table'[k], Deletes'[k])
      <4>1. CASE table[k].deleted \/ Deletes[k] # {}
        BY <2>2, <3>4, <4>1 DEF Marked
      <4>2. CASE ~table[k].deleted /\ Deletes[k] = {}
        <5>1. ~table'[k].deleted
          BY <1>2, <1>4, <2>4, <3>3, <4>2
        <5> QED BY <3>2, <4>2, <5>1 DEF Marked
      <4> QED BY <4>1, <4>2
    <3>5. ASSUME k \notin loose' PROVE Agree(m, table'[k], Edits'[k], Deletes'[k])
      <4>1. /\ table'[k] \in Messages /\ table'[k].id = k
            /\ table'[k].sender = table[k].sender
            /\ table[k].deleted => table'[k] = table[k]
            /\ ~table[k].deleted =>
                  /\ table'[k].deleted = (pc[w] # "edit")
                  /\ table'[k].text = IF pc[w] = "edit" THEN arg[w].text ELSE DeletedText
            /\ k \notin outrun => pc[w] = "delete" \/ k \notin loose
        BY <1>4, <2>4, <3>5
      <4>2. m.sender = table[k].sender /\ (table[k].deleted => table[k].text = DeletedText)
        BY <1>5, <2>1 DEF HistoryInv, SendersOK, TableOK
      <4>3. k \notin outrun
        BY <1>1, <2>4, <3>5, UpdatedRow
      <4>4. CASE pc[w] = "delete"
        <5>1. m.deleted /\ m.text = DeletedText
          BY <2>2, <3>3, <4>3, <4>4 DEF Marked
        <5>2. table'[k].deleted /\ table'[k].text = DeletedText
          BY <4>1, <4>2, <4>4
        <5>3. m = table'[k]
          BY <2>1, <4>1, <4>2, <5>1, <5>2, SameMessage
        <5> QED BY <5>1, <5>3 DEF Agree
      <4>5. CASE pc[w] = "edit"
        <5>1. Agree(m, table[k], Edits[k], Deletes[k])
          BY <2>2, <4>1, <4>3, <4>5
        <5>2. Deletes'[k] = Deletes[k]
          <6>1. \A v \in Writers : pc'[v] = "delete" <=> pc[v] = "delete"
            BY <1>2, <4>5
          <6> QED BY <1>4, <3>1, <6>1 DEF Deletes
        <5>3. CASE m.deleted
          <6>1. m.text = DeletedText /\ (m = table[k] \/ Deletes[k] # {})
            BY <5>1, <5>3 DEF Agree
          <6>2. m = table[k] => m = table'[k]
            BY <4>1, <5>3
          <6> QED BY <5>2, <5>3, <6>1, <6>2 DEF Agree
        <5>4. CASE ~m.deleted
          <6>1. ~table[k].deleted /\ Deletes[k] = {} /\ Edits[k] \subseteq {m.text}
            BY <5>1, <5>4 DEF Agree
          <6>2. table'[k].text = m.text /\ ~table'[k].deleted
            BY <3>3, <4>1, <4>5, <6>1
          <6>3. m = table'[k]
            BY <2>1, <4>1, <4>2, <5>4, <6>2, SameMessage
          <6> QED BY <3>2, <5>2, <5>4, <6>1, <6>2, <6>3 DEF Agree
        <5> QED BY <5>3, <5>4
      <4> QED BY <1>2, <4>4, <4>5
    <3> QED BY <2>1, <3>4, <3>5
  <2> QED BY <2>3, <2>4
<1> QED
  BY <1>1, <1>4, <1>5 DEF ContentInv

LEMMA InitContentInv == Init => ContentInv
<1> SUFFICES ASSUME Init PROVE ContentInv
  OBVIOUS
<1>1. Stored = 0
  BY HistoryAssumption DEF Init, Stored
<1>2. 1..Stored = {}
  BY <1>1
<1> QED
  BY <1>2 DEF ContentInv

LEMMA NextContentInv ==
    ASSUME HistoryInv, ContentInv, [Next]_vars
    PROVE  ContentInv'
<1>1. ASSUME NEW w \in Writers, NEW x \in Texts, db_save_message(w, x) PROVE ContentInv'
  BY <1>1, SaveKeepsContent
<1>2. ASSUME NEW w \in Writers, room_add_history(w) PROVE ContentInv'
  BY <1>2, PushKeepsContent
<1>3. ASSUME NEW w \in Writers, NEW x \in Texts, NEW k \in 0..Stored - 1,
             room_edit_message(w, k, x)
      PROVE  ContentInv'
  BY <1>3, EditKeepsContent
<1>4. ASSUME NEW w \in Writers, NEW k \in 0..Stored - 1, room_delete_message(w, k)
      PROVE  ContentInv'
  BY <1>4, DeleteKeepsContent
<1>5. ASSUME NEW w \in Writers, db_edit_message(w) \/ db_delete_message(w)
      PROVE  ContentInv'
  BY <1>5, UpdateKeepsContent
<1>6. ASSUME create_room \/ restart PROVE ContentInv'
  BY <1>6, LoadKeepsContent
<1>7. ASSUME UNCHANGED vars PROVE ContentInv'
  <2>1. Stored' = Stored /\ Window' = Window /\ Rows' = Rows
    BY <1>7, RingUnchanged DEF vars, ring, Rows
  <2>2. Edits' = Edits /\ Deletes' = Deletes
    BY <1>7, <2>1 DEF vars, Edits, Deletes
  <2> QED BY <1>7, <2>1, <2>2 DEF vars, ContentInv
<1> QED
  BY <1>1, <1>2, <1>3, <1>4, <1>5, <1>6, <1>7 DEF Next

\* When no command is in progress a message that is shown is its row.
LEMMA IdleAgrees ==
    ASSUME HistoryInv, ContentInv, Idle = Writers,
           NEW i \in 1..Stored, Window[i].id \in 1..Rows, Window[i].id \notin loose
    PROVE  Window[i] = table[Window[i].id]
<1>1. PICK k \in 1..Rows : k = Window[i].id
  OBVIOUS
<1>2. \A w \in Writers : pc[w] = "idle"
  BY DEF Idle
<1>3. Edits[k] = {} /\ Deletes[k] = {}
  BY <1>2 DEF Edits, Deletes
<1>4. Agree(Window[i], table[k], Edits[k], Deletes[k])
  BY <1>1 DEF ContentInv
<1> QED
  BY <1>1, <1>3, <1>4 DEF Agree

LEMMA ContentAgrees ==
    ASSUME HistoryInv, ContentInv
    PROVE  StoreAgrees /\ DeletionsShown
<1>1. Stored \in Nat /\ Len(Window) = Stored
  <2>1. Stored \in Nat
    BY StoredRange, HistoryAssumption DEF HistoryInv
  <2> QED BY <2>1 DEF Window
<1>2. DOMAIN table = 1..Rows
  BY DEF HistoryInv, TableOK
<1>3. StoreAgrees
  BY <1>1, <1>2, IdleAgrees DEF StoreAgrees, ContentSurvives, HistoryInv
<1>4. DeletionsShown
  BY <1>1, <1>2 DEF DeletionsShown, ContentInv, Marked
<1> QED
  BY <1>3, <1>4

LEMMA ContentLoads ==
    ASSUME HistoryInv, ContentInv
    PROVE  WindowSurvives
<1> SUFFICES ASSUME Idle = Writers, ~crossed
             PROVE  /\ Len(Window) = Len(db_load_history)
                    /\ \A i \in 1..Len(db_load_history) :
                          /\ Window[i].id = db_load_history[i].id
                          /\ db_load_history[i].id \notin loose =>
                                Window[i] = db_load_history[i]
  BY DEF WindowSurvives
<1>1. Storing = {}
  BY DEF Storing, Idle
<1>2. /\ Rows \in Nat /\ Loadable \in Nat /\ Loadable <= Rows
      /\ db_load_history = [i \in 1..Loadable |-> table[Rows - Loadable + i]]
      /\ Len(db_load_history) = Loadable
  BY RowsLoaded, HistoryAssumption DEF HistoryInv, TypeOK
<1>3. Complete = Rows
  BY <1>1 DEF Complete
<1>4. Stored = Loadable /\ \A i \in 1..Stored : Window[i].id = Rows - Stored + i
  <2>1. Cap \in Nat
    BY HistoryAssumption
  <2> QED BY <1>2, <1>3, <2>1 DEF HistoryInv, OrderOK, Loadable
<1>5. Len(Window) = Loadable
  BY <1>2, <1>4 DEF Window
<1>6. ASSUME NEW i \in 1..Loadable
      PROVE  /\ Window[i].id = db_load_history[i].id
             /\ db_load_history[i].id \notin loose => Window[i] = db_load_history[i]
  <2>1. /\ Window[i].id = Rows - Loadable + i /\ Rows - Loadable + i \in 1..Rows
        /\ db_load_history[i] = table[Rows - Loadable + i]
    BY <1>2, <1>4
  <2>2. db_load_history[i].id = Rows - Loadable + i
    BY <2>1 DEF HistoryInv, TableOK
  <2> QED BY <1>4, <2>1, <2>2, IdleAgrees
<1> QED
  BY <1>2, <1>5, <1>6

\* The invariant that relates memory, rows and the commands between the two.
THEOREM ContentInvariant == Spec => []ContentInv
<1>1. Init => ContentInv
  BY InitContentInv
<1>2. HistoryInv /\ ContentInv /\ [Next]_vars => ContentInv'
  BY NextContentInv
<1> QED
  BY <1>1, <1>2, HistoryInvariant, PTL DEF Spec

\* Whenever no command is in progress, what a room replays from memory has the
\* text and the deletion mark of its rows: of every message whose UPDATEs
\* succeeded, whose EDITs did not overlap and which no creation of the room
\* overtook, and of every message whose DELETE reached its row, however many
\* connections a user has and wherever the server was stopped (room_add_history,
\* room_edit_message and room_delete_message with their UPDATEs, create_room).
THEOREM StoreAlwaysAgrees == Spec => []StoreAgrees
<1>1. HistoryInv /\ ContentInv => StoreAgrees
  BY ContentAgrees
<1> QED
  BY <1>1, HistoryInvariant, ContentInvariant, PTL

\* At every moment, and whatever fails: a message whose row is deleted is replayed
\* as deleted, but for a room created between the two steps of its DELETE
\* (room_delete_message before db_delete_message, registry.c:651-656).
THEOREM DeletionsAlwaysShown == Spec => []DeletionsShown
<1>1. HistoryInv /\ ContentInv => DeletionsShown
  BY ContentAgrees
<1> QED
  BY <1>1, HistoryInvariant, ContentInvariant, PTL

\* The replay from memory and the one from the database are the same messages in
\* the same order, so the history survives a restart (README.md), unless a save
\* or the load failed or two MSGs took their ids in one order and entered the ring
\* in the other; and of the same content but for those StoreAgrees excepts.
THEOREM WindowAlwaysSurvives == Spec => []WindowSurvives
<1>1. HistoryInv /\ ContentInv => WindowSurvives
  BY ContentLoads
<1> QED
  BY <1>1, HistoryInvariant, ContentInvariant, PTL


===============================================================================
