--------------------------------- MODULE Wire ----------------------------------
(***************************************************************************)
(* From bytes to commands: the read and line loops of handle_client, the   *)
(* two parsers (pre_parse_srijal_commands in src/src/client_handler.c,     *)
(* parse_incoming_command_server in src/src/protocol.c) and what they hand *)
(* to process_line.                                                        *)
(*                                                                         *)
(* A line is a keyword and a number of further words; a peer sends lines   *)
(* as words and newlines, which are read in any portions.                  *)
(* A connection is served by one worker at a time (EventLoop, OneOwner),   *)
(* two connections by two workers.  They share one thing: the position     *)
(* that strtok keeps in a static variable, read when a call begins and     *)
(* written when it ends.                                                   *)
(*                                                                         *)
(* Sockets are plain, so what is left unread raises an event at the next   *)
(* rearm.  With TLS (conn_recv) bytes can be left inside the SSL object,   *)
(* which epoll does not see; that is not modelled.                         *)
(***************************************************************************)
EXTENDS Integers, Sequences, FiniteSetsExt

CONSTANTS Conns,
          Lines,                 \* the lines a peer may send: [key, more] records
          MaxLines,              \* lines per peer
          MaxTotal,              \* lines altogether
          BufSize                \* CONN_BUF_SIZE - 1, in words and newlines

ASSUME WireAssumption ==
    /\ MaxLines \in Nat /\ MaxTotal \in Nat /\ BufSize \in Nat \ {0}
    /\ \A l \in Lines : l.more \in Nat

\* What the strtok parser takes from a line after the keyword: single words, or
\* the rest of the line.
ArgModes(key) ==
    CASE key \in {"REGISTER", "LOGIN", "WHO", "ROOMS"} -> <<"word", "word">>
      [] key \in {"RECONNECT", "CREATE", "JOIN", "LEAVE", "KICK", "PROMOTE",
                  "STATUS", "DELETE"} -> <<"word">>
      [] key \in {"EDIT", "PM"} -> <<"word", "rest">>
      [] key = "MSG" -> <<"rest">>
      [] key = "HISTORY" -> <<"word", "word", "word">>
      [] OTHER -> <<>>

\* Keywords recognised before, some only when they stand alone.
Alone == {"LOGOUT_ALL", "STOP_TYPING", "SESSIONS", "TYPING"}
WithArgs == {"REVOKE_SESSION", "CREATE_PRIVATE", "UNBLOCK", "UNMUTE", "BLOCK",
             "MUTE", "BAN", "LOGOUT", "READ", "DECLINE", "DEMOTE", "INVITE", "ACCEPT"}

VARIABLES script,                \* per peer: the lines it has begun to send
          stream,                \* per peer: the words and newlines it has sent
          got, used,             \* per connection: how much of its stream was
                                 \* read into buf, and removed from buf
          hup,                   \* peers that closed
          closing,               \* connections whose hang-up the loop has seen
          wpc,                   \* where the worker of a connection is
          args,                  \* arguments taken from the line so far
          seen,                  \* the position strtok has read
          cursor,                \* strtok's static variable
          mixed,                 \* history: another line was parsed meanwhile
          executed               \* history: the commands given to process_line

wireVars == <<script, stream, got, used, hup, closing, wpc, args, seen, cursor,
              mixed, executed>>

NULL == <<>>
Junk == <<"junk">>
NoPlace == [conn |-> "none", line |-> 0, word |-> 0]

\* Word w of line k is <<k, w>>, its newline <<k, 0>>.
sent(c) == Len(stream[c])
LineUnderWay(c) == sent(c) > 0 /\ stream[c][sent(c)][2] # 0

buf(c) == SubSeq(stream[c], used[c] + 1, got[c])
NewlineAt(c) == {i \in DOMAIN buf(c) : buf(c)[i][2] = 0}
LineLen(c) == (CHOOSE i \in NewlineAt(c) : \A j \in NewlineAt(c) : i <= j) - 1

\* The line being processed: the line its first word or newline belongs to.
Current(c) == buf(c)[1][1]
Line(c) == script[c][Current(c)]

WireInit ==
    /\ script = [c \in Conns |-> <<>>]
    /\ stream = [c \in Conns |-> <<>>]
    /\ got = [c \in Conns |-> 0]
    /\ used = [c \in Conns |-> 0]
    /\ hup = {} /\ closing = {}
    /\ wpc = [c \in Conns |-> "armed"]
    /\ args = [c \in Conns |-> <<>>]
    /\ seen = [c \in Conns |-> NoPlace]
    /\ cursor = NoPlace
    /\ mixed = [c \in Conns |-> FALSE]
    /\ executed = [c \in Conns |-> <<>>]

Goto(c, label) == wpc' = [wpc EXCEPT ![c] = label]

-------------------------------------------------------------------------------
(***************************************************************************)
(* The peer, and the event that wakes a worker.                            *)
(***************************************************************************)
peerLeaves == <<got, used, hup, closing, wpc, args, seen, cursor, mixed, executed>>

\* The keyword of a new line.
BeginLine(c) ==
    /\ c \notin hup /\ ~LineUnderWay(c)
    /\ Len(script[c]) < MaxLines
    /\ MapThenSumSet(LAMBDA d : Len(script[d]), Conns) < MaxTotal
    /\ \E l \in Lines : script' = [script EXCEPT ![c] = Append(@, l)]
    /\ stream' = [stream EXCEPT ![c] = Append(@, <<Len(script[c]) + 1, 1>>)]
    /\ UNCHANGED peerLeaves

\* Its next word, or the newline.
ContinueLine(c) ==
    LET k == stream[c][sent(c)][1]
        w == stream[c][sent(c)][2] IN
    /\ c \notin hup /\ LineUnderWay(c)
    /\ stream' = [stream EXCEPT ![c] =
           Append(@, <<k, IF w = script[c][k].more + 1 THEN 0 ELSE w + 1>>)]
    /\ UNCHANGED script /\ UNCHANGED peerLeaves

HangUp(c) ==
    /\ c \notin hup
    /\ hup' = hup \cup {c}
    /\ UNCHANGED <<script, stream, got, used, closing, wpc, args, seen, cursor,
                   mixed, executed>>

\* Mutant: EPOLLRDHUP is not asked for.
Wake_NoMark(c) ==
    /\ wpc[c] = "armed"
    /\ c \in hup \/ got[c] < sent(c)
    /\ Goto(c, "read")
    /\ UNCHANGED <<script, stream, got, used, hup, closing, args, seen, cursor, mixed, executed>>

\* The loop hands a readable connection to a worker, and marks it when the peer
\* has closed.
Wake(c) ==
    /\ wpc[c] = "armed"
    /\ c \in hup \/ got[c] < sent(c)
    /\ closing' = IF c \in hup THEN closing \cup {c} ELSE closing
    /\ Goto(c, "read")
    /\ UNCHANGED <<script, stream, got, used, hup, args, seen, cursor, mixed, executed>>

-------------------------------------------------------------------------------
(***************************************************************************)
(* handle_client.                                                          *)
(***************************************************************************)
Space(c) == BufSize - (got[c] - used[c])

\* One recv: what has arrived, as far as there is room.
conn_recv(c) ==
    /\ wpc[c] = "read" /\ c \notin closing
    /\ Space(c) > 0 /\ got[c] < sent(c)
    /\ got' = [got EXCEPT ![c] = IF sent(c) - @ <= Space(c) THEN sent(c)
                                                            ELSE @ + Space(c)]
    /\ UNCHANGED <<script, stream, used, hup, closing, wpc, args, seen, cursor,
                   mixed, executed>>

\* The buffer is full, or recv says EAGAIN.
ReadEnds(c) ==
    /\ wpc[c] = "read" /\ c \notin closing
    /\ Space(c) = 0 \/ (got[c] = sent(c) /\ c \notin hup)
    /\ Goto(c, "lines")
    /\ UNCHANGED <<script, stream, got, used, hup, closing, args, seen, cursor,
                   mixed, executed>>

\* recv returns 0, or the loop has seen the hang-up: lines that are complete in
\* the buffer, or unread in the socket, are dropped.
Disconnect(c) ==
    /\ wpc[c] = "read"
    /\ \/ c \in closing
       \/ Space(c) > 0 /\ got[c] = sent(c) /\ c \in hup
    /\ Goto(c, "closed")
    /\ UNCHANGED <<script, stream, got, used, hup, closing, args, seen, cursor,
                   mixed, executed>>

epoll_rearm(c) ==
    /\ wpc[c] = "lines" /\ NewlineAt(c) = {}
    /\ Goto(c, "armed")
    /\ UNCHANGED <<script, stream, got, used, hup, closing, args, seen, cursor,
                   mixed, executed>>

-------------------------------------------------------------------------------
(***************************************************************************)
(* One line: the parsers.                                                  *)
(***************************************************************************)
PreParsed(l) == l.key \in WithArgs \/ (l.key \in Alone /\ l.more = 0)

Modes(l) == ArgModes(l.key)

\* An argument: where it starts, and whether it is the rest of the line.
Arg(c, k, w, mode) == <<c, k, w, mode>>

\* The arguments that the line itself has for its command.
OwnArgs(c, k) ==
    LET l == script[c][k] IN
    [i \in DOMAIN Modes(l) |-> IF i <= l.more THEN Arg(c, k, i + 1, Modes(l)[i])
                                              ELSE NULL]

\* Mutant: the rest of the buffer goes, too.
Compacted_Reset(c) == got[c]

\* Mutant: the newline stays.
Compacted_NoNewline(c) == used[c] + LineLen(c)

\* The line and its newline are removed from the front of buf.
Compacted(c) == used[c] + LineLen(c) + 1

Execute(c, a) ==
    /\ executed' = [executed EXCEPT ![c] =
           Append(@, [line |-> Current(c), args |-> a, mixed |-> mixed'[c],
                      pre |-> PreParsed(Line(c))])]
    /\ used' = [used EXCEPT ![c] = Compacted(c)]
    /\ Goto(c, "lines")

\* pre_parse_srijal_commands finds the arguments in the line, without strtok.
PreParse(c) ==
    /\ wpc[c] = "lines" /\ NewlineAt(c) # {}
    /\ PreParsed(Line(c))
    /\ mixed' = [mixed EXCEPT ![c] = FALSE]
    /\ Execute(c, <<>>)
    /\ UNCHANGED <<script, stream, got, hup, closing, args, seen, cursor>>

InParser == {c \in Conns : wpc[c] \in {"strtok", "strtok_ends"}}

\* The first strtok call cuts the keyword off the line itself and leaves the
\* position behind it.
ParseKeyword(c) ==
    /\ wpc[c] = "lines" /\ NewlineAt(c) # {}
    /\ ~PreParsed(Line(c))
    /\ cursor' = [conn |-> c, line |-> Current(c), word |-> 2]
    /\ mixed' = [d \in Conns |-> IF d = c THEN InParser # {}
                                 ELSE mixed[d] \/ d \in InParser]
    /\ Goto(c, "strtok")
    /\ UNCHANGED <<script, stream, got, used, hup, closing, args, seen, executed>>

\* A further call begins: it reads the position, whoever left it there.
strtok_begin(c) ==
    /\ wpc[c] = "strtok"
    /\ Len(args[c]) < Len(Modes(Line(c)))
    /\ seen' = [seen EXCEPT ![c] = cursor]
    /\ Goto(c, "strtok_ends")
    /\ UNCHANGED <<script, stream, got, used, hup, closing, args, cursor, mixed, executed>>

\* The buffer the position points into is still being parsed.
Valid(p) == p.conn \in Conns /\ wpc[p.conn] \in {"strtok", "strtok_ends"}
            /\ Current(p.conn) = p.line

\* Mutant: the position is not moved.
strtok_end_Stay(c) ==
    LET p == seen[c] IN
    /\ wpc[c] = "strtok_ends"
    /\ args' = [args EXCEPT ![c] =
           Append(@, Arg(p.conn, p.line, p.word, Modes(Line(c))[Len(args[c]) + 1]))]
    /\ cursor' = p
    /\ seen' = [seen EXCEPT ![c] = NoPlace]
    /\ Goto(c, "strtok")
    /\ UNCHANGED <<script, stream, got, used, hup, closing, mixed, executed>>

\* It ends: it returns the word, or the rest, that it found there, or NULL at
\* the end of that line, and writes the position back.  A buffer that has moved
\* on since holds anything.
strtok_end(c) ==
    LET p == seen[c]
        mode == Modes(Line(c))[Len(args[c]) + 1]
        words == script[p.conn][p.line].more + 1 IN
    /\ wpc[c] = "strtok_ends"
    /\ \/ /\ Valid(p) /\ p.word <= words
          /\ args' = [args EXCEPT ![c] = Append(@, Arg(p.conn, p.line, p.word, mode))]
          /\ cursor' = [p EXCEPT !.word = IF mode = "rest" THEN words + 1 ELSE @ + 1]
       \/ /\ Valid(p) /\ p.word > words
          /\ args' = [args EXCEPT ![c] = Append(@, NULL)]
          /\ cursor' = p
       \/ /\ ~Valid(p)
          /\ \E a \in {NULL, Junk} : args' = [args EXCEPT ![c] = Append(@, a)]
          /\ cursor' = p
    /\ seen' = [seen EXCEPT ![c] = NoPlace]
    /\ Goto(c, "strtok")
    /\ UNCHANGED <<script, stream, got, used, hup, closing, mixed, executed>>

\* The command is complete; process_line runs it, and its result, also the 1 of
\* LOGOUT, is ignored.
process_line(c) ==
    /\ wpc[c] = "strtok"
    /\ Len(args[c]) = Len(Modes(Line(c)))
    /\ UNCHANGED mixed
    /\ Execute(c, args[c])
    /\ args' = [args EXCEPT ![c] = <<>>]
    /\ UNCHANGED <<script, stream, got, hup, closing, seen, cursor>>

Work(c) ==
    \/ conn_recv(c) \/ ReadEnds(c) \/ Disconnect(c) \/ epoll_rearm(c)
    \/ PreParse(c) \/ ParseKeyword(c) \/ strtok_begin(c) \/ strtok_end(c)
    \/ process_line(c)

WireNext ==
    \/ \E c \in Conns : BeginLine(c)
    \/ \E c \in Conns : ContinueLine(c)
    \/ \E c \in Conns : HangUp(c)
    \/ \E c \in Conns : Wake(c)
    \/ \E c \in Conns : Work(c)

\* Workers keep running and the loop keeps turning; peers owe nothing.
WireFairness == \A c \in Conns : WF_wireVars(Wake(c) \/ Work(c))

WireSpec == WireInit /\ [][WireNext]_wireVars /\ WireFairness

-------------------------------------------------------------------------------
(***************************************************************************)
(* Properties.                                                             *)
(***************************************************************************)
\* The type of the counters; buf is never filled beyond CONN_BUF_SIZE - 1 and
\* never given back more than it holds (handle_client).
WireTypeOK ==
    \A c \in Conns :
       /\ used[c] \in 0..got[c] /\ got[c] \in 0..sent(c)
       /\ Len(script[c]) <= MaxLines
       /\ got[c] - used[c] <= BufSize
       /\ wpc[c] \in {"armed", "read", "lines", "strtok", "strtok_ends", "closed"}
       /\ Len(args[c]) <= 3 /\ Len(executed[c]) <= MaxLines

\* However the stream is cut into reads and however often the buffer fills up,
\* the commands of a connection are its lines, each once and in order: no line
\* is skipped, split, joined or taken from another connection (handle_client).
CommandsInOrder ==
    \A c \in Conns : \A i \in DOMAIN executed[c] : executed[c][i].line = i

\* The buffer loses, repeats and mixes no line (handle_client, the read and the
\* line loop), and stays within its bounds.
LinesIntact == WireTypeOK /\ CommandsInOrder

\* A command has the arguments of its own line when it is parsed without strtok,
\* or while no other line was being parsed (parse_incoming_command_server).
ExactUnlessMixed ==
    \A c \in Conns : \A i \in DOMAIN executed[c] :
       LET x == executed[c][i] IN
       x.pre \/ x.mixed \/ x.args = OwnArgs(c, x.line)

\* client_handler.c: "strtok inside parse_incoming mutates it, which is fine
\* since we compact afterward": a command has the arguments of its own line.
OwnArguments ==
    \A c \in Conns : \A i \in DOMAIN executed[c] :
       LET x == executed[c][i] IN x.pre \/ x.args = OwnArgs(c, x.line)

Arrived(c, k) == \E i \in 1..sent(c) : stream[c][i] = <<k, 0>>
Fits(c, k) == \A j \in 1..k : script[c][j].more + 2 <= BufSize

\* A line that has arrived is executed, however it was cut up, unless the peer
\* closes or a line up to it does not fit into the buffer (handle_client,
\* "Extract and process every complete line").
LineExecuted ==
    \A c \in Conns : \A k \in 1..MaxLines :
       (Arrived(c, k) /\ Fits(c, k))
       ~> (Len(executed[c]) >= k \/ c \in hup)

\* A peer that closes is let go of, also with a buffer that filled up without a
\* newline and is not read into any more (handle_client, disconnect_cleanup).
HangupCloses == \A c \in Conns : c \in hup ~> wpc[c] = "closed"
===============================================================================
