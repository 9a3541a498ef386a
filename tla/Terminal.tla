------------------------------- MODULE Terminal --------------------------------
(***************************************************************************)
(* The terminal client, src/replies/client.c: main reads lines from the    *)
(* user and sends them, receiver_thread reads lines from the server and    *)
(* shows them.  They share running, current_room and the socket, without a *)
(* lock.                                                                   *)
(*                                                                         *)
(* What is shown is left out; a line from the server is one of the few     *)
(* that change state, or "other".  recv returns what has arrived, so a     *)
(* line may be cut: both halves are then handled as lines of their own.    *)
(***************************************************************************)
EXTENDS Integers, Sequences, FiniteSets

CONSTANTS Names,                 \* room names
          MaxFromServer,         \* lines the server sends
          MaxTyped               \* lines the user types

ASSUME TerminalAssumption == MaxFromServer \in Nat /\ MaxTyped \in Nat

VARIABLES running,
          current_room,          \* a name, NoName or "torn"
          mainpc, recvpc,        \* where the two threads are
          typed,                 \* the user's line: its kind and room
          typedCount,
          copying,               \* main is inside its strncpy to current_room ...
          touched,               \* ... and the receiver wrote there meanwhile
          line,                  \* lines of the last recv still to be handled
          wire, sentCount,       \* lines under way to the client, lines sent
          srv,                   \* "up", "closed"
          ssl,                   \* "tls", "plain", and "freed" in the end
          late                   \* history: lines sent after running was cleared

termVars == <<running, current_room, mainpc, recvpc, typed, typedCount, copying,
              touched, line, wire, sentCount, srv, ssl, late>>
mainVars == <<mainpc, typed, typedCount, copying, late>>
recvVars == <<recvpc, line>>
srvVars  == <<wire, sentCount, srv>>

\* The empty string, current_room[0] = '\0'.
NoName == "no_name"

NoLine == [kind |-> "none", room |-> NoName]
Empty(kind) == [kind |-> kind, room |-> NoName]
About(kind, r) == [kind |-> kind, room |-> r]

\* The lines from the server that handle_server_line tells apart here.
FromServer == {Empty("OK_LEFT"), Empty("ERR_KICKED"), Empty("ERR_SERVER_SHUTDOWN"),
               Empty("other")} \cup {About("NOTICE_JOINED", r) : r \in Names}

TerminalInit ==
    /\ running = TRUE
    /\ current_room = NoName
    /\ mainpc = "connect" /\ recvpc = "none"
    /\ typed = NoLine /\ typedCount = 0 /\ copying = FALSE /\ touched = FALSE
    /\ line = <<>>
    /\ wire = <<>> /\ sentCount = 0 /\ srv = "up"
    /\ ssl \in {"tls", "plain"}
    /\ late = 0

-------------------------------------------------------------------------------
(***************************************************************************)
(* The server, as far as the client sees it.                               *)
(***************************************************************************)
ServerSends(l) ==
    /\ srv = "up" /\ sentCount < MaxFromServer
    /\ wire' = Append(wire, l)
    /\ sentCount' = sentCount + 1
    /\ UNCHANGED <<running, current_room, mainVars, touched, recvVars, srv, ssl>>

ServerCloses ==
    /\ srv = "up"
    /\ srv' = "closed"
    /\ UNCHANGED <<running, current_room, mainVars, touched, recvVars, wire,
                   sentCount, ssl>>

-------------------------------------------------------------------------------
(***************************************************************************)
(* receiver_thread.                                                        *)
(***************************************************************************)
\* client_recv returns the lines that have arrived, the last one perhaps in
\* half; the other half is then the first line of the next recv.
Cut(l) == [l EXCEPT !.kind = IF l.kind = "NOTICE_JOINED" THEN "cut_JOINED" ELSE "other"]

client_recv ==
    /\ recvpc = "recv" /\ running /\ wire # <<>>
    /\ \/ line' = wire /\ wire' = <<>>
       \/ LET n == Len(wire)
              last == wire[n] IN
          /\ last.kind # "half"
          /\ line' = [wire EXCEPT ![n] = Cut(last)]
          /\ wire' = <<Empty("half")>>
    /\ recvpc' = "lines"
    /\ UNCHANGED <<running, current_room, mainVars, touched, sentCount, srv, ssl>>

\* A write to current_room while main is writing there, too.
WriteRoom(value) ==
    /\ current_room' = value
    /\ touched' = copying

HandleOk(l) == l.kind = "OK_LEFT" /\ WriteRoom(NoName) /\ UNCHANGED running

\* BANNED is shown like any other error: current_room stays.
HandleErr(l) ==
    \/ l.kind = "ERR_KICKED" /\ WriteRoom(NoName) /\ UNCHANGED running
    \/ /\ l.kind = "ERR_SERVER_SHUTDOWN"
       /\ running' = FALSE
       /\ UNCHANGED <<current_room, touched>>

\* Anybody's JOINED notice names the room this client is taken to be in; one
\* that was cut in its last word names another room.
HandleNotice(l) ==
    /\ UNCHANGED running
    /\ \/ l.kind = "NOTICE_JOINED" /\ WriteRoom(l.room)
       \/ l.kind = "cut_JOINED" /\ WriteRoom("torn")
       \/ l.kind = "cut_JOINED" /\ UNCHANGED <<current_room, touched>>

\* Everything else is shown and changes nothing.
HandleShown(l) ==
    /\ l.kind \in {"other", "half"}
    /\ UNCHANGED <<running, current_room, touched>>

\* All lines of one recv are handled, also after running was cleared.
handle_server_line ==
    /\ recvpc = "lines" /\ line # <<>>
    /\ LET l == Head(line) IN HandleOk(l) \/ HandleErr(l) \/ HandleNotice(l) \/ HandleShown(l)
    /\ line' = Tail(line)
    /\ UNCHANGED <<mainVars, recvpc, srvVars, ssl>>

NextRecv ==
    /\ recvpc = "lines" /\ line = <<>>
    /\ recvpc' = "recv"
    /\ UNCHANGED <<running, current_room, mainVars, touched, line, srvVars, ssl>>

\* Mutant: a lost connection ends the thread and nothing else.
ReceiverEnds_Silent ==
    /\ recvpc = "recv"
    /\ ~running \/ (wire = <<>> /\ srv = "closed")
    /\ recvpc' = "ended"
    /\ UNCHANGED <<running, current_room, mainVars, touched, line, srvVars, ssl>>

\* running was cleared, or recv returns 0: the thread clears it and ends.
ReceiverEnds ==
    /\ recvpc = "recv"
    /\ ~running \/ (wire = <<>> /\ srv = "closed")
    /\ running' = FALSE
    /\ recvpc' = "ended"
    /\ UNCHANGED <<current_room, mainVars, touched, line, srvVars, ssl>>

-------------------------------------------------------------------------------
(***************************************************************************)
(* main.                                                                   *)
(***************************************************************************)
\* connect and tls_connect.  When the greeting or the handshake fails the client
\* goes on in plain text, whatever the server speaks.
tls_connect ==
    /\ mainpc = "connect"
    /\ ssl' \in {ssl, "plain"}
    /\ mainpc' = "test" /\ recvpc' = "recv"
    /\ UNCHANGED <<running, current_room, typed, typedCount, copying, late, touched,
                   line, srvVars>>

\* Mutant: running is not looked at again.
TestRunning_Ignored ==
    /\ mainpc = "test"
    /\ mainpc' = "input"
    /\ UNCHANGED <<running, current_room, typed, typedCount, copying, late, touched,
                   recvVars, srvVars, ssl>>

\* running is read before fgets blocks, and not afterwards.
TestRunning ==
    /\ mainpc = "test"
    /\ mainpc' = IF running THEN "input" ELSE "leave"
    /\ UNCHANGED <<running, current_room, typed, typedCount, copying, late, touched,
                   recvVars, srvVars, ssl>>

UserLines == {Empty("/quit"), Empty("/help"), Empty("command")}
             \cup {About("enter", r) : r \in Names}

\* fgets returns a line: an empty one, /help or /quit is not sent; JOIN and
\* CREATE set current_room before the server has answered.
fgets(l) ==
    /\ mainpc = "input" /\ typedCount < MaxTyped
    /\ typedCount' = typedCount + 1
    /\ mainpc' = CASE l.kind = "/quit"   -> "leave"
                   [] l.kind = "/help"   -> "test"
                   [] l.kind = "enter"   -> "copy"
                   [] l.kind = "command" -> "send"
    /\ typed' = IF l.kind \in {"enter", "command"} THEN l ELSE NoLine
    /\ copying' = (l.kind = "enter")
    /\ touched' = FALSE
    /\ UNCHANGED <<running, current_room, late, recvVars, srvVars, ssl>>

\* The user closes the input.
EndOfInput ==
    /\ mainpc = "input"
    /\ mainpc' = "leave"
    /\ UNCHANGED <<running, current_room, typed, typedCount, copying, late, touched,
                   recvVars, srvVars, ssl>>

\* strncpy ends.  Two writers at once leave the one, the other or a mixture.
CopyRoom ==
    /\ mainpc = "copy"
    /\ current_room' \in IF touched THEN {typed.room, current_room, "torn"}
                                    ELSE {typed.room}
    /\ copying' = FALSE /\ touched' = FALSE
    /\ mainpc' = "send"
    /\ UNCHANGED <<running, typed, typedCount, late, recvVars, srvVars, ssl>>

\* To a peer that is gone, the first send still succeeds; later ones fail, or
\* end the process, for the client does not ignore SIGPIPE.
client_send ==
    /\ mainpc = "send"
    /\ \/ mainpc' = "test"
       \/ srv = "closed" /\ mainpc' \in {"leave", "exited"}
    /\ typed' = NoLine
    /\ late' = IF running THEN late ELSE late + 1
    /\ UNCHANGED <<running, current_room, typedCount, copying, touched, recvVars,
                   srvVars, ssl>>

\* The thread is detached and not waited for: it may still be in recv when the
\* socket is closed and the SSL object freed.
Leave ==
    /\ mainpc = "leave"
    /\ running' = FALSE
    /\ ssl' = "freed"
    /\ mainpc' = "exited"
    /\ UNCHANGED <<current_room, typed, typedCount, copying, late, touched,
                   recvVars, srvVars>>

MainStep == TestRunning \/ CopyRoom \/ client_send \/ Leave

ReceiverStep == client_recv \/ handle_server_line \/ NextRecv \/ ReceiverEnds

\* The process ends with main, and the receiver with it.
TerminalNext ==
    /\ mainpc # "exited"
    /\ \/ \E l \in FromServer : ServerSends(l)
       \/ ServerCloses
       \/ ReceiverStep
       \/ tls_connect
       \/ MainStep
       \/ \E l \in UserLines : fgets(l)
       \/ EndOfInput

\* Both threads keep running; the server, the network and the user owe nothing.
TerminalFairness ==
    /\ WF_termVars(mainpc # "exited" /\ ReceiverStep)
    /\ WF_termVars(mainpc # "exited" /\ MainStep)

TerminalSpec == TerminalInit /\ [][TerminalNext]_termVars /\ TerminalFairness

-------------------------------------------------------------------------------
(***************************************************************************)
(* Properties.                                                             *)
(***************************************************************************)
\* The type of every variable (client.c, shared state).
TerminalTypeOK ==
    /\ running \in BOOLEAN /\ copying \in BOOLEAN /\ touched \in BOOLEAN
    /\ current_room \in Names \cup {NoName, "torn"}
    /\ mainpc \in {"connect", "test", "input", "copy", "send", "leave", "exited"}
    /\ recvpc \in {"none", "recv", "lines", "ended"}
    /\ typedCount \in 0..MaxTyped /\ sentCount \in 0..MaxFromServer
    /\ Len(wire) <= MaxFromServer + 1 /\ Len(line) <= MaxFromServer + 1
    /\ ssl \in {"tls", "plain", "freed"}
    /\ typed \in UserLines \cup {NoLine}

\* running is tested before main blocks in fgets, so a line may still be sent
\* after the receiver has said goodbye, but never a second one.
AtMostOneLate == late <= 1

\* The client's state is in range, and nothing but the line the user was already
\* asked for goes out after the end (client.c, main).
StopsSending == TerminalTypeOK /\ AtMostOneLate

\* A server that is gone is noticed (receiver_thread), also when its
\* SERVER_SHUTDOWN line is cut in two, never sent, or the last of many.
DisconnectNoticed == srv = "closed" /\ mainpc # "connect" ~> ~running \/ mainpc = "exited"

\* Once running is cleared, main ends unless it is waiting for the user; it does
\* not wait for him twice.
EndsWhenStopped == ~running /\ mainpc # "input" ~> mainpc = "exited"
===============================================================================
