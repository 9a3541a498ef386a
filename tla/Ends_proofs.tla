------------------------------ MODULE Ends_proofs ------------------------------
(***************************************************************************)
(* Proofs about the two ends of a connection, Terminal and Wire.           *)
(*                                                                         *)
(* Terminal, the two threads of the client, for any rooms and numbers of   *)
(* lines: AtMostOneLate is not inductive; it needs that running is never   *)
(* set again, and where main can be once a line was late (LateOK).         *)
(*                                                                         *)
(* Wire, the service of connections by the server, for any numbers of      *)
(* peers and lines and any size of the buffer: the commands of a           *)
(* connection are numbered by the newlines in its stream (StreamsOK,       *)
(* BufferOK), and a worker that is alone in the strtok parser finds the    *)
(* position where it left it (ParserOK).                                   *)
(***************************************************************************)
EXTENDS Terminal, Wire, SequenceTheorems, WellFoundedInduction, TLAPS

\* What the server or half of its line looks like to the client.
ServerLines == FromServer \cup {Empty("half")}
CutLines == ServerLines \cup {Empty("other")} \cup {About("cut_JOINED", r) : r \in Names}

\* Lines wait in order, no more of them than were sent and one half.
LinesOK ==
    /\ wire \in Seq(ServerLines) /\ Len(wire) <= sentCount + 1
    /\ line \in Seq(CutLines) /\ Len(line) <= sentCount + 1

\* What main copies to current_room is a room the user named.
TypedOK == mainpc = "copy" => typed.room \in Names

\* A line is late only once running is cleared, and main then does not come
\* back to the input.
LateOK ==
    /\ late \in {0, 1}
    /\ late = 1 => ~running /\ mainpc \in {"test", "leave", "exited"}

TerminalInv == TerminalTypeOK /\ LinesOK /\ TypedOK /\ LateOK

-------------------------------------------------------------------------------
LEMMA TerminalInitInv == TerminalInit => TerminalInv
<1> SUFFICES ASSUME TerminalInit PROVE TerminalInv
  OBVIOUS
<1>1. /\ <<>> \in Seq(ServerLines) /\ <<>> \in Seq(CutLines) /\ Len(<<>>) = 0
  BY EmptySeq
<1>2. TerminalTypeOK
  <2>1. typedCount \in 0..MaxTyped /\ sentCount \in 0..MaxFromServer
    BY TerminalAssumption DEF TerminalInit
  <2>2. Len(wire) <= MaxFromServer + 1 /\ Len(line) <= MaxFromServer + 1
    BY <1>1, TerminalAssumption DEF TerminalInit
  <2> QED BY <2>1, <2>2 DEF TerminalInit, TerminalTypeOK
<1>3. LinesOK
  BY <1>1 DEF TerminalInit, LinesOK
<1>4. TypedOK /\ LateOK
  BY DEF TerminalInit, TypedOK, LateOK
<1> QED
  BY <1>2, <1>3, <1>4 DEF TerminalInv

\* The server sends and closes.
LEMMA ServerStep ==
    ASSUME TerminalInv, (\E l \in FromServer : ServerSends(l)) \/ ServerCloses
    PROVE  TerminalInv'
<1>1. CASE ServerCloses
  BY <1>1 DEF ServerCloses, TerminalInv, TerminalTypeOK, LinesOK, TypedOK, LateOK, mainVars,
              recvVars
<1>2. ASSUME NEW l \in FromServer, ServerSends(l)
      PROVE  TerminalInv'
  <2>1. /\ wire' \in Seq(ServerLines) /\ Len(wire') = Len(wire) + 1
    BY <1>2 DEF ServerSends, TerminalInv, LinesOK, ServerLines
  <2>2. /\ sentCount' = sentCount + 1 /\ sentCount < MaxFromServer /\ sentCount \in Nat
        /\ UNCHANGED <<running, current_room, mainpc, typed, typedCount, copying, late,
                       touched, recvpc, line, ssl>>
    BY <1>2 DEF ServerSends, TerminalInv, TerminalTypeOK, mainVars, recvVars
  <2>3. TerminalTypeOK' /\ LinesOK'
    BY <2>1, <2>2, TerminalAssumption DEF TerminalInv, TerminalTypeOK, LinesOK
  <2> QED BY <2>2, <2>3 DEF TerminalInv, TypedOK, LateOK
<1> QED BY <1>1, <1>2

\* What client_recv returns.
LEMMA RecvStep ==
    ASSUME TerminalInv, client_recv
    PROVE  TerminalInv'
<1>1. /\ wire \in Seq(ServerLines) /\ Len(wire) <= sentCount + 1 /\ wire # <<>>
      /\ sentCount \in 0..MaxFromServer
  BY DEF client_recv, TerminalInv, LinesOK, TerminalTypeOK
<1>2. Len(wire) \in Nat \ {0} /\ wire[Len(wire)] \in ServerLines
  BY <1>1, EmptySeq, ElementOfSeq
<1>3. \A l \in ServerLines : Cut(l) \in CutLines
  <2>1. \A l \in FromServer : Cut(l) \in CutLines
    <3>1. ASSUME NEW r \in Names, NEW l, l = About("NOTICE_JOINED", r)
          PROVE  Cut(l) = About("cut_JOINED", r)
      BY <3>1 DEF Cut, About
    <3>2. ASSUME NEW k \in {"OK_LEFT", "ERR_KICKED", "ERR_SERVER_SHUTDOWN", "other", "half"}
          PROVE  Cut(Empty(k)) = Empty("other")
      BY <3>2 DEF Cut, Empty
    <3> QED BY <3>1, <3>2 DEF FromServer, CutLines
  <2>2. Cut(Empty("half")) = Empty("other")
    BY DEF Cut, Empty
  <2> QED BY <2>1, <2>2 DEF ServerLines, CutLines
<1>4. ServerLines \subseteq CutLines
  BY DEF CutLines
<1>5. /\ line' \in Seq(CutLines) /\ Len(line') = Len(wire)
      /\ wire' \in Seq(ServerLines) /\ Len(wire') <= 1
  <2>1. CASE line' = wire /\ wire' = <<>>
    BY <1>1, <1>4, <2>1, SeqMonotonic, EmptySeq
  <2>2. CASE /\ line' = [wire EXCEPT ![Len(wire)] = Cut(wire[Len(wire)])]
             /\ wire' = <<Empty("half")>>
    <3>1. wire \in Seq(CutLines)
      BY <1>1, <1>4, SeqMonotonic
    <3>2. Cut(wire[Len(wire)]) \in CutLines /\ Len(wire) \in 1..Len(wire)
      BY <1>2, <1>3
    <3>3. line' \in Seq(CutLines) /\ Len(line') = Len(wire)
      BY <2>2, <3>1, <3>2, ExceptSeq
    <3>4. Empty("half") \in ServerLines
      BY DEF ServerLines
    <3>5. wire' \in Seq(ServerLines) /\ Len(wire') = 1
      BY <2>2, <3>4
    <3> QED BY <3>3, <3>5
  <2> QED BY <2>1, <2>2 DEF client_recv
<1>6. /\ recvpc' = "lines"
      /\ UNCHANGED <<running, current_room, mainpc, typed, typedCount, copying, late,
                     touched, sentCount, ssl>>
  BY DEF client_recv, mainVars
<1>7. TerminalTypeOK' /\ LinesOK'
  BY <1>1, <1>2, <1>5, <1>6, TerminalAssumption DEF TerminalInv, TerminalTypeOK, LinesOK
<1> QED
  BY <1>6, <1>7 DEF TerminalInv, TypedOK, LateOK

\* A line of the server changes running, to FALSE, or current_room.
LEMMA LineStep ==
    ASSUME TerminalInv, handle_server_line
    PROVE  TerminalInv'
<1>1. /\ line \in Seq(CutLines) /\ line # <<>> /\ line' = Tail(line)
      /\ UNCHANGED <<mainpc, typed, typedCount, copying, late, recvpc, wire, sentCount, srv, ssl>>
  BY DEF handle_server_line, TerminalInv, LinesOK, mainVars, srvVars
<1>2. Head(line) \in CutLines /\ line' \in Seq(CutLines) /\ Len(line') = Len(line) - 1
      /\ Len(line) \in Nat
  BY <1>1, HeadTailProperties
<1>3. Head(line).kind = "NOTICE_JOINED" => Head(line).room \in Names
  <2>1. \A k \in {"OK_LEFT", "ERR_KICKED", "ERR_SERVER_SHUTDOWN", "other", "half"} :
            Empty(k).kind # "NOTICE_JOINED"
    BY DEF Empty
  <2>2. \A k, r : About(k, r).room = r
    BY DEF About
  <2>3. CASE \E k \in {"OK_LEFT", "ERR_KICKED", "ERR_SERVER_SHUTDOWN", "other", "half"} :
                 Head(line) = Empty(k)
    BY <2>1, <2>3
  <2>4. CASE \E k \in {"NOTICE_JOINED", "cut_JOINED"}, r \in Names : Head(line) = About(k, r)
    BY <2>2, <2>4
  <2> QED BY <1>2, <2>3, <2>4 DEF CutLines, ServerLines, FromServer
<1>4. /\ running' = running \/ running' = FALSE
      /\ touched' = touched \/ touched' = copying
      /\ current_room' \in Names \cup {NoName, "torn"}
  <2>1. current_room \in Names \cup {NoName, "torn"}
    BY DEF TerminalInv, TerminalTypeOK
  <2>2. CASE HandleOk(Head(line)) \/ HandleErr(Head(line)) \/ HandleShown(Head(line))
    BY <2>1, <2>2 DEF HandleOk, HandleErr, HandleShown, WriteRoom
  <2>3. CASE HandleNotice(Head(line))
    BY <1>3, <2>1, <2>3 DEF HandleNotice, WriteRoom
  <2> QED BY <2>2, <2>3 DEF handle_server_line
<1>5. LinesOK'
  BY <1>1, <1>2 DEF TerminalInv, TerminalTypeOK, LinesOK
<1>6. TerminalTypeOK'
  <2>1. running' \in BOOLEAN /\ touched' \in BOOLEAN
    BY <1>4 DEF TerminalInv, TerminalTypeOK
  <2>2. Len(wire') <= MaxFromServer + 1 /\ Len(line') <= MaxFromServer + 1
    BY <1>1, <1>2, TerminalAssumption DEF TerminalInv, TerminalTypeOK
  <2> QED BY <1>1, <1>4, <2>1, <2>2 DEF TerminalInv, TerminalTypeOK
<1>7. TypedOK' /\ LateOK'
  BY <1>1, <1>4 DEF TerminalInv, TypedOK, LateOK
<1> QED
  BY <1>5, <1>6, <1>7 DEF TerminalInv

\* The rest of the receiver, and the connection.
LEMMA ReceiverRest ==
    ASSUME TerminalInv, NextRecv \/ ReceiverEnds \/ tls_connect
    PROVE  TerminalInv'
<1>1. /\ running' = running \/ running' = FALSE
      /\ recvpc' \in {"recv", "ended"} /\ mainpc' \in {mainpc, "test"} /\ ssl' \in {ssl, "plain"}
      /\ UNCHANGED <<current_room, typed, typedCount, copying, late, touched, line, wire, sentCount>>
  BY DEF NextRecv, ReceiverEnds, tls_connect, mainVars, srvVars
<1>2. running' \in BOOLEAN
  BY <1>1 DEF TerminalInv, TerminalTypeOK
<1>3. TerminalTypeOK' /\ LinesOK'
  BY <1>1, <1>2 DEF TerminalInv, TerminalTypeOK, LinesOK
<1>4. TypedOK' /\ LateOK'
  BY <1>1 DEF TerminalInv, TypedOK, LateOK
<1> QED
  BY <1>3, <1>4 DEF TerminalInv

\* fgets returns a line, or nothing.
LEMMA InputStep ==
    ASSUME TerminalInv, (\E l \in UserLines : fgets(l)) \/ EndOfInput
    PROVE  TerminalInv'
<1>1. CASE EndOfInput
  BY <1>1 DEF EndOfInput, recvVars, srvVars, TerminalInv, TerminalTypeOK, LinesOK, TypedOK, LateOK
<1>2. ASSUME NEW l \in UserLines, fgets(l)
      PROVE  TerminalInv'
  <2>1. /\ l.kind \in {"/quit", "/help", "command", "enter"}
        /\ l.kind = "enter" => l.room \in Names
    <3>1. \A k : Empty(k).kind = k
      BY DEF Empty
    <3>2. \A r : About("enter", r).kind = "enter" /\ About("enter", r).room = r
      BY DEF About
    <3>3. CASE \E k \in {"/quit", "/help", "command"} : l = Empty(k)
      BY <3>1, <3>3
    <3>4. CASE \E r \in Names : l = About("enter", r)
      BY <3>2, <3>4
    <3> QED BY <1>2, <3>3, <3>4 DEF UserLines
  <2>2. /\ mainpc = "input" /\ mainpc' \in {"leave", "test", "copy", "send"}
        /\ mainpc' = "copy" => l.kind = "enter"
        /\ typed' = IF l.kind \in {"enter", "command"} THEN l ELSE NoLine
    BY <1>2, <2>1 DEF fgets
  <2>3. /\ typedCount' = typedCount + 1 /\ typedCount < MaxTyped
        /\ copying' \in BOOLEAN /\ touched' = FALSE
        /\ UNCHANGED <<running, current_room, late, recvpc, line, wire, sentCount, ssl>>
    BY <1>2 DEF fgets, recvVars, srvVars
  <2>4. TerminalTypeOK' /\ LinesOK'
    <3>1. typedCount' \in 0..MaxTyped
      BY <2>3, TerminalAssumption DEF TerminalInv, TerminalTypeOK
    <3>2. typed' \in UserLines \cup {NoLine}
      BY <2>2
    <3> QED BY <2>2, <2>3, <3>1, <3>2 DEF TerminalInv, TerminalTypeOK, LinesOK
  <2>5. TypedOK'
    BY <2>1, <2>2 DEF TypedOK
  <2>6. LateOK'
    BY <2>2, <2>3 DEF TerminalInv, LateOK
  <2> QED BY <2>4, <2>5, <2>6 DEF TerminalInv
<1> QED BY <1>1, <1>2

\* main tests running, copies a name, sends and leaves.
LEMMA MainSteps ==
    ASSUME TerminalInv, MainStep
    PROVE  TerminalInv'
<1>1. UNCHANGED <<recvpc, line, wire, sentCount>>
  BY DEF MainStep, TestRunning, CopyRoom, client_send, Leave, recvVars, srvVars
<1>2. CASE TestRunning
  BY <1>1, <1>2 DEF TestRunning, TerminalInv, TerminalTypeOK, LinesOK, TypedOK, LateOK
<1>3. CASE CopyRoom
  BY <1>1, <1>3 DEF CopyRoom, TerminalInv, TerminalTypeOK, LinesOK, TypedOK, LateOK
<1>4. CASE client_send
  <2>1. /\ mainpc = "send" /\ mainpc' \in {"test", "leave", "exited"} /\ typed' = NoLine
        /\ late' = IF running THEN late ELSE late + 1
        /\ UNCHANGED <<running, current_room, typedCount, copying, touched, ssl>>
    BY <1>4 DEF client_send
  <2>2. TerminalTypeOK' /\ LinesOK' /\ TypedOK'
    BY <1>1, <2>1 DEF TerminalInv, TerminalTypeOK, LinesOK, TypedOK
  <2> QED BY <2>1, <2>2 DEF TerminalInv, TerminalTypeOK, LateOK
<1>5. CASE Leave
  BY <1>1, <1>5 DEF Leave, TerminalInv, TerminalTypeOK, LinesOK, TypedOK, LateOK
<1> QED
  BY <1>2, <1>3, <1>4, <1>5 DEF MainStep

LEMMA TerminalNextInv == TerminalInv /\ [TerminalNext]_termVars => TerminalInv'
<1> SUFFICES ASSUME TerminalInv, [TerminalNext]_termVars PROVE TerminalInv'
  OBVIOUS
<1>1. CASE UNCHANGED termVars
  BY <1>1 DEF termVars, TerminalInv, TerminalTypeOK, LinesOK, TypedOK, LateOK
<1> QED
  BY <1>1, ServerStep, RecvStep, LineStep, ReceiverRest, InputStep, MainSteps
     DEF TerminalNext, ReceiverStep

\* StopsSending (client.c, main and receiver_thread), for any rooms and numbers of
\* lines: however the threads interleave, whatever the server sends and cuts in
\* two, at most the one line the user was already asked for goes out after running
\* was cleared.
THEOREM TerminalStops == TerminalSpec => []StopsSending
<1>1. TerminalInv => StopsSending
  BY DEF TerminalInv, StopsSending, AtMostOneLate, LateOK
<1> QED
  BY <1>1, TerminalInitInv, TerminalNextInv, PTL DEF TerminalSpec

-------------------------------------------------------------------------------
(***************************************************************************)
(* The server's end: Wire.                                                 *)
(***************************************************************************)
Units == Nat \X Nat
ArgSet == {NULL, Junk} \cup (Conns \X Nat \X Nat \X {"word", "rest"})
Places == [conn : Conns \cup {"none"}, line : Nat, word : Nat]
Commands == [line : Nat, args : Seq(ArgSet), mixed : BOOLEAN, pre : BOOLEAN]

WireTypes ==
    /\ script \in [Conns -> Seq(Lines)]
    /\ stream \in [Conns -> Seq(Units)]
    /\ got \in [Conns -> Nat] /\ used \in [Conns -> Nat]
    /\ wpc \in [Conns -> {"armed", "read", "lines", "strtok", "strtok_ends", "closed"}]
    /\ args \in [Conns -> Seq(ArgSet)]
    /\ seen \in [Conns -> Places] /\ cursor \in Places
    /\ mixed \in [Conns -> BOOLEAN]
    /\ executed \in [Conns -> Seq(Commands)]

\* A stream s of n lines: it begins with the first line and is in the last one; a
\* newline is followed by the next line, and between newlines is one line.
IsStream(s, n) ==
    /\ \A p \in 1..Len(s) : s[p][1] \in 1..n
    /\ IF Len(s) = 0 THEN n = 0 ELSE s[1][1] = 1 /\ s[Len(s)][1] = n
    /\ \A p, q \in 1..Len(s) : q = p + 1 /\ s[p][2] = 0 => s[q][1] = s[p][1] + 1
    /\ \A p, q \in 1..Len(s) :
          p <= q /\ (\A m \in p..q - 1 : s[m][2] # 0) => s[q][1] = s[p][1]

StreamsOK ==
    \A c \in Conns : IsStream(stream[c], Len(script[c])) /\ Len(script[c]) <= MaxLines

\* What was removed from the buffer are the executed lines, with their newlines.
BufferOK ==
    \A c \in Conns :
       /\ used[c] <= got[c] /\ got[c] <= sent(c) /\ got[c] - used[c] <= BufSize
       /\ used[c] = 0 => Len(executed[c]) = 0
       /\ used[c] > 0 => stream[c][used[c]] = <<Len(executed[c]), 0>>

\* The line to be executed next.
Due(c) == Len(executed[c]) + 1

\* The position after n arguments of the line.
Behind(c, n) ==
    LET more == script[c][Due(c)].more IN
    [conn |-> c, line |-> Due(c), word |-> IF n <= more THEN n + 2 ELSE more + 2]

\* A worker in the parser has a whole line before it.  When no other line was parsed
\* meanwhile it is alone there, has its own arguments, and the position is its own
\* while there are arguments to come.
Parsing(c, n, modes) ==
    /\ \E p \in used[c] + 1..got[c] : stream[c][p][2] = 0
    /\ n <= Len(modes)
    /\ wpc[c] = "strtok_ends" => n < Len(modes)
    /\ mixed[c] = FALSE =>
          /\ InParser = {c}
          /\ \A i \in 1..n : args[c][i] = OwnArgs(c, Due(c))[i]
          /\ n < Len(modes) => cursor = Behind(c, n)
          /\ wpc[c] = "strtok_ends" => seen[c] = Behind(c, n)

ParserOK ==
    \A c \in Conns :
       IF c \in InParser THEN Parsing(c, Len(args[c]), Modes(script[c][Due(c)]))
                         ELSE args[c] = <<>>

\* The commands are the lines in order, with their own arguments unless mixed up.
CommandsOK ==
    \A c \in Conns :
       /\ Len(executed[c]) <= Len(script[c])
       /\ \A i \in 1..Len(executed[c]) :
             LET x == executed[c][i] IN
             /\ x.line = i
             /\ x.pre = FALSE /\ x.mixed = FALSE => x.args = OwnArgs(c, i)

WireInv == WireTypes /\ StreamsOK /\ BufferOK /\ ParserOK /\ CommandsOK

-------------------------------------------------------------------------------
\* A nonempty set of places has a first one.
LEMMA LeastPlace ==
    ASSUME NEW T \in SUBSET Nat, T # {}
    PROVE  \E n \in T : \A m \in T : n <= m
<1>1. \E R : /\ IsWellFoundedOn(R, Nat)
             /\ \A x, y \in Nat : <<y, x>> \in R <=> y < x
  <2>1. IsWellFoundedOn(OpToRel(<, Nat), Nat)
    BY NatLessThanWellFounded
  <2>2. \A x, y \in Nat : <<y, x>> \in OpToRel(<, Nat) <=> y < x
    BY DEF OpToRel
  <2> QED BY <2>1, <2>2, Zenon
<1>2. PICK R : /\ IsWellFoundedOn(R, Nat)
               /\ \A x, y \in Nat : <<y, x>> \in R <=> y < x
  BY <1>1
<1>3. PICK n \in T : \A m \in T : ~(<<m, n>> \in R)
  BY <1>2, WFMin
<1>4. \A m \in T : m \in Nat /\ ~(m < n)
  BY <1>2, <1>3
<1>5. \A m \in T : n <= m
  BY <1>4
<1> QED
  BY <1>5

\* What the strtok parser takes: a rest only in the end, and at most three arguments.
LEMMA ModesOK ==
    ASSUME NEW l
    PROVE  /\ Modes(l) \in Seq({"word", "rest"}) /\ Len(Modes(l)) <= 3
           /\ \A i \in 1..Len(Modes(l)) : Modes(l)[i] = "rest" => i = Len(Modes(l))
<1> DEFINE ms == Modes(l)
<1>1. \/ ms = <<>> \/ ms = <<"word">> \/ ms = <<"rest">>
      \/ ms = <<"word", "word">> \/ ms = <<"word", "rest">>
      \/ ms = <<"word", "word", "word">>
  BY DEF Modes, ArgModes
<1> HIDE DEF ms
<1> SUFFICES /\ ms \in Seq({"word", "rest"}) /\ Len(ms) <= 3
             /\ \A i \in 1..Len(ms) : ms[i] = "rest" => i = Len(ms)
  BY DEF ms
<1>2. CASE ms = <<>>
  BY <1>2, EmptySeq
<1>3. CASE ms = <<"word">>
  BY <1>3
<1>4. CASE ms = <<"rest">>
  BY <1>4
<1>5. CASE ms = <<"word", "word">>
  BY <1>5
<1>6. CASE ms = <<"word", "rest">>
  BY <1>6
<1>7. CASE ms = <<"word", "word", "word">>
  BY <1>7
<1> QED BY <1>1, <1>2, <1>3, <1>4, <1>5, <1>6, <1>7

\* A new line may begin behind a newline.
LEMMA StreamBegins ==
    ASSUME NEW s \in Seq(Units), NEW n \in Nat, IsStream(s, n),
           Len(s) = 0 \/ s[Len(s)][2] = 0
    PROVE  /\ IsStream(Append(s, <<n + 1, 1>>), n + 1)
           /\ Append(s, <<n + 1, 1>>) \in Seq(Units)
<1> DEFINE t == Append(s, <<n + 1, 1>>)
<1>1. /\ t \in Seq(Units) /\ Len(t) = Len(s) + 1 /\ Len(s) \in Nat
      /\ \A p \in 1..Len(s) : t[p] = s[p]
      /\ t[Len(s) + 1] = <<n + 1, 1>>
  <2>1. <<n + 1, 1>> \in Units
    BY DEF Units
  <2> QED BY <2>1, AppendProperties, LenProperties
<1> HIDE DEF t
<1>2. \A p \in 1..Len(t) : t[p][1] \in 1..n + 1
  BY <1>1 DEF IsStream
<1>3. t[1][1] = 1 /\ t[Len(t)][1] = n + 1 /\ Len(t) # 0
  <2>1. CASE Len(s) = 0
    BY <1>1, <2>1 DEF IsStream
  <2>2. CASE Len(s) # 0
    BY <1>1, <2>2 DEF IsStream
  <2> QED BY <2>1, <2>2
<1>4. ASSUME NEW p \in 1..Len(t), NEW q \in 1..Len(t), q = p + 1, t[p][2] = 0
      PROVE  t[q][1] = t[p][1] + 1
  <2>1. CASE q = Len(t)
    BY <1>1, <1>4, <2>1 DEF IsStream
  <2>2. CASE q # Len(t)
    BY <1>1, <1>4, <2>2 DEF IsStream
  <2> QED BY <2>1, <2>2
<1>5. ASSUME NEW p \in 1..Len(t), NEW q \in 1..Len(t), p <= q,
             \A m \in p..q - 1 : t[m][2] # 0
      PROVE  t[q][1] = t[p][1]
  <2>1. CASE q = Len(t) /\ p = q
    BY <2>1
  <2>2. CASE q = Len(t) /\ p # q
    <3>1. Len(s) \in p..q - 1 /\ Len(s) \in 1..Len(s)
      BY <1>1, <1>5, <2>2
    <3> QED BY <1>1, <1>5, <3>1
  <2>3. CASE q # Len(t)
    <3>1. p \in 1..Len(s) /\ q \in 1..Len(s)
      BY <1>1, <1>5, <2>3
    <3>2. \A m \in p..q - 1 : s[m][2] # 0
      BY <1>1, <1>5, <3>1
    <3>3. s[q][1] = s[p][1]
      BY <1>5, <3>1, <3>2 DEF IsStream
    <3> QED BY <1>1, <3>1, <3>3
  <2> QED BY <2>1, <2>2, <2>3
<1>6. IsStream(t, n + 1)
  BY <1>2, <1>3, <1>4, <1>5 DEF IsStream
<1> QED BY <1>1, <1>6 DEF t

\* And a line may go on until its newline.
LEMMA StreamContinues ==
    ASSUME NEW s \in Seq(Units), NEW n \in Nat, IsStream(s, n),
           Len(s) > 0, s[Len(s)][2] # 0, NEW w \in Nat
    PROVE  /\ IsStream(Append(s, <<s[Len(s)][1], w>>), n)
           /\ Append(s, <<s[Len(s)][1], w>>) \in Seq(Units)
<1> DEFINE t == Append(s, <<s[Len(s)][1], w>>)
<1>0. Len(s) \in 1..Len(s) /\ s[Len(s)][1] = n
  BY LenProperties DEF IsStream
<1>1. /\ t \in Seq(Units) /\ Len(t) = Len(s) + 1 /\ Len(s) \in Nat
      /\ \A p \in 1..Len(s) : t[p] = s[p]
      /\ t[Len(s) + 1] = <<n, w>>
  <2>1. <<n, w>> \in Units
    BY DEF Units
  <2> QED BY <1>0, <2>1, AppendProperties, LenProperties
<1> HIDE DEF t
<1>2. \A p \in 1..Len(t) : t[p][1] \in 1..n
  BY <1>0, <1>1 DEF IsStream
<1>3. t[1][1] = 1 /\ t[Len(t)][1] = n /\ Len(t) # 0
  BY <1>0, <1>1 DEF IsStream
<1>4. ASSUME NEW p \in 1..Len(t), NEW q \in 1..Len(t), q = p + 1, t[p][2] = 0
      PROVE  t[q][1] = t[p][1] + 1
  <2>1. q # Len(t)
    BY <1>0, <1>1, <1>4
  <2> QED BY <1>1, <1>4, <2>1 DEF IsStream
<1>5. ASSUME NEW p \in 1..Len(t), NEW q \in 1..Len(t), p <= q,
             \A m \in p..q - 1 : t[m][2] # 0
      PROVE  t[q][1] = t[p][1]
  <2>1. CASE p = q
    BY <2>1
  <2>2. CASE p # q
    <3> DEFINE r == IF q = Len(t) THEN Len(s) ELSE q
    <3>1. p \in 1..Len(s) /\ r \in 1..Len(s) /\ p <= r /\ r <= q
      BY <1>0, <1>1, <1>5, <2>2
    <3>2. \A m \in p..r - 1 : s[m][2] # 0
      BY <1>1, <1>5, <3>1
    <3>3. s[r][1] = s[p][1]
      BY <1>5, <3>1, <3>2 DEF IsStream
    <3>4. t[q][1] = s[r][1]
      BY <1>0, <1>1, <1>5, <3>1
    <3> QED BY <1>1, <3>1, <3>3, <3>4
  <2> QED BY <2>1, <2>2
<1>6. IsStream(t, n)
  BY <1>2, <1>3, <1>4, <1>5 DEF IsStream
<1> QED BY <1>1, <1>6 DEF t

LEMMA WireInitInv == WireInit => WireInv
<1> SUFFICES ASSUME WireInit PROVE WireInv
  OBVIOUS
<1>1. NoPlace \in Places
  BY DEF NoPlace, Places
<1>2. WireTypes
  BY <1>1, EmptySeq DEF WireInit, WireTypes
<1>3. StreamsOK
  BY EmptySeq, WireAssumption DEF WireInit, StreamsOK, IsStream
<1>4. BufferOK
  BY WireAssumption DEF WireInit, BufferOK, sent
<1>5. ParserOK /\ CommandsOK
  BY DEF WireInit, ParserOK, CommandsOK, InParser
<1> QED BY <1>2, <1>3, <1>4, <1>5 DEF WireInv

\* The buffer is the part of the stream that was read and not removed.
LEMMA BufferIs ==
    ASSUME WireTypes, BufferOK, NEW c \in Conns
    PROVE  /\ NewlineAt(c) = {i \in 1..got[c] - used[c] : stream[c][used[c] + i][2] = 0}
           /\ used[c] < got[c] => buf(c)[1] = stream[c][used[c] + 1]
<1>1. /\ stream[c] \in Seq(Units) /\ got[c] \in Nat /\ used[c] \in Nat
      /\ used[c] <= got[c] /\ got[c] <= Len(stream[c])
  BY DEF WireTypes, BufferOK, sent
<1>2. \A i \in used[c] + 1..got[c] : stream[c][i] \in Units
  BY <1>1, ElementOfSeq
<1>3. /\ buf(c) \in Seq(Units)
      /\ Len(buf(c)) = IF used[c] + 1 <= got[c] THEN got[c] - (used[c] + 1) + 1 ELSE 0
      /\ \A i \in 1..got[c] - (used[c] + 1) + 1 : buf(c)[i] = stream[c][used[c] + 1 + i - 1]
  <2>1. used[c] + 1 \in Int /\ got[c] \in Int
    BY <1>1
  <2> QED BY <1>2, <2>1, SubSeqProperties DEF buf
<1>4. Len(buf(c)) = got[c] - used[c] /\ DOMAIN buf(c) = 1..got[c] - used[c]
  BY <1>1, <1>3, LenProperties
<1>5. \A i \in 1..got[c] - used[c] : buf(c)[i] = stream[c][used[c] + i]
  BY <1>1, <1>3
<1> QED BY <1>1, <1>4, <1>5 DEF NewlineAt

\* The line at the front of the buffer is the one to be executed next, and the first
\* newline is its end.
LEMMA FrontLine ==
    ASSUME WireInv, NEW c \in Conns, NewlineAt(c) # {}
    PROVE  /\ Current(c) = Due(c) /\ Due(c) \in 1..Len(script[c])
           /\ Line(c) = script[c][Due(c)]
           /\ Compacted(c) \in used[c] + 1..got[c]
           /\ stream[c][Compacted(c)] = <<Due(c), 0>>
<1> DEFINE s == stream[c]
           u == used[c]
           n == Compacted(c)
<1>1. /\ s \in Seq(Units) /\ got[c] \in Nat /\ u \in Nat
      /\ u <= got[c] /\ got[c] <= Len(s) /\ Len(s) \in Nat
      /\ Len(executed[c]) \in Nat
  BY LenProperties DEF WireInv, WireTypes, BufferOK, sent
<1>2. NewlineAt(c) = {i \in 1..got[c] - u : s[u + i][2] = 0}
  BY BufferIs DEF WireInv
<1>3. \E i \in NewlineAt(c) : \A j \in NewlineAt(c) : i <= j
  <2>1. NewlineAt(c) \in SUBSET Nat
    BY <1>1, <1>2
  <2> QED BY <2>1, LeastPlace
<1>4. LineLen(c) + 1 \in NewlineAt(c) /\ \A j \in NewlineAt(c) : LineLen(c) + 1 <= j
      /\ LineLen(c) \in Int
  <2> DEFINE i == CHOOSE i \in NewlineAt(c) : \A j \in NewlineAt(c) : i <= j
  <2>1. i \in NewlineAt(c) /\ \A j \in NewlineAt(c) : i <= j
    BY <1>3
  <2>2. LineLen(c) = i - 1
    BY DEF LineLen
  <2> HIDE DEF i
  <2>3. i \in Int
    BY <1>1, <1>2, <2>1
  <2> QED BY <2>1, <2>2, <2>3
<1>5. n = u + (LineLen(c) + 1)
  BY <1>1, <1>4 DEF Compacted
<1> HIDE DEF n
<1>6. /\ n \in u + 1..got[c] /\ s[n][2] = 0
      /\ \A m \in u + 1..n - 1 : s[m][2] # 0
  <2>1. n \in u + 1..got[c] /\ s[n][2] = 0
    <3>1. LineLen(c) + 1 \in 1..got[c] - u /\ s[u + (LineLen(c) + 1)][2] = 0
      BY <1>2, <1>4
    <3> HIDE DEF s, u
    <3> QED BY <1>1, <1>4, <1>5, <3>1
  <2>2. ASSUME NEW m \in u + 1..n - 1, s[m][2] = 0
        PROVE  FALSE
    <3> HIDE DEF s, u
    <3>1. m - u \in 1..got[c] - u /\ u + (m - u) = m /\ m - u < LineLen(c) + 1
      BY <1>1, <1>4, <1>5, <2>1
    <3>2. m - u \in NewlineAt(c)
      BY <1>2, <2>2, <3>1
    <3> QED BY <1>1, <1>4, <3>1, <3>2
  <2> QED BY <2>1, <2>2
<1>7. IsStream(s, Len(script[c]))
  BY DEF WireInv, StreamsOK
<1>8. u + 1 \in 1..Len(s) /\ n \in 1..Len(s) /\ u + 1 <= n
  BY <1>1, <1>6
<1>9. s[u + 1][1] = Due(c)
  <2>1. CASE u = 0
    BY <1>1, <1>7, <1>8, <2>1 DEF WireInv, BufferOK, IsStream, Due
  <2>2. CASE u > 0
    <3>1. u \in 1..Len(s) /\ s[u] = <<Len(executed[c]), 0>>
      BY <1>1, <2>2 DEF WireInv, BufferOK
    <3>2. s[u][2] = 0 /\ s[u][1] = Len(executed[c])
      BY <3>1
    <3> HIDE DEF s, u
    <3>3. s[u + 1][1] = s[u][1] + 1
      BY <1>7, <1>8, <3>1, <3>2 DEF IsStream
    <3> QED BY <3>2, <3>3 DEF Due
  <2> QED BY <1>1, <2>1, <2>2
<1>10. s[n][1] = Due(c)
  BY <1>6, <1>7, <1>8, <1>9 DEF IsStream
<1>11. Current(c) = Due(c)
  <2>1. used[c] < got[c]
    BY <1>1, <1>6
  <2>2. buf(c)[1] = s[u + 1]
    BY <2>1, BufferIs DEF WireInv
  <2> QED BY <1>9, <2>2 DEF Current
<1>12. Due(c) \in 1..Len(script[c])
  BY <1>7, <1>8, <1>9 DEF IsStream
<1>13. s[n] = <<Due(c), 0>>
  <2>1. s[n] \in Units
    BY <1>1, <1>8, ElementOfSeq
  <2> HIDE DEF s
  <2> QED BY <1>6, <1>10, <2>1 DEF Units
<1> QED BY <1>6, <1>11, <1>12, <1>13 DEF n, Line

\* A worker in the parser has the line that is due before it.
LEMMA ParsedLine ==
    ASSUME WireInv, NEW c \in InParser
    PROVE  /\ c \in Conns /\ NewlineAt(c) # {}
           /\ Current(c) = Due(c) /\ Due(c) \in 1..Len(script[c])
           /\ Line(c) = script[c][Due(c)] /\ Line(c) \in Lines
<1>1. c \in Conns
  BY DEF InParser
<1>2. \E p \in used[c] + 1..got[c] : stream[c][p][2] = 0
  BY <1>1 DEF WireInv, ParserOK, Parsing
<1>3. PICK p \in used[c] + 1..got[c] : stream[c][p][2] = 0
  BY <1>2
<1>4. used[c] \in Nat /\ got[c] \in Nat
  BY <1>1 DEF WireInv, WireTypes
<1>5. p - used[c] \in 1..got[c] - used[c] /\ used[c] + (p - used[c]) = p
  BY <1>3, <1>4
<1>6. NewlineAt(c) = {i \in 1..got[c] - used[c] : stream[c][used[c] + i][2] = 0}
  BY <1>1, BufferIs DEF WireInv
<1>7. NewlineAt(c) # {}
  BY <1>3, <1>5, <1>6
<1>8. script[c] \in Seq(Lines)
  BY <1>1 DEF WireInv, WireTypes
<1> QED BY <1>1, <1>7, <1>8, FrontLine, ElementOfSeq

\* The arguments that a line has for its command depend on nothing but the line.
LEMMA OwnArgsKept ==
    ASSUME NEW c, NEW k, script'[c][k] = script[c][k]
    PROVE  OwnArgs(c, k)' = OwnArgs(c, k)
BY DEF OwnArgs

\* The peer sends: its stream and its lines grow.
LEMMA PeerSends ==
    ASSUME WireInv, NEW c \in Conns, BeginLine(c) \/ ContinueLine(c)
    PROVE  WireInv'
<1>1. /\ UNCHANGED <<got, used, wpc, args, seen, cursor, mixed, executed>>
      /\ \A d \in Conns : d # c => script'[d] = script[d] /\ stream'[d] = stream[d]
  BY DEF BeginLine, ContinueLine, peerLeaves, WireInv, WireTypes
<1>2. \A d \in Conns : script[d] \in Seq(Lines) /\ stream[d] \in Seq(Units)
  BY DEF WireInv, WireTypes
<1>3. IsStream(stream[c], Len(script[c])) /\ Len(script[c]) \in Nat /\ Len(stream[c]) \in Nat
      /\ Len(script[c]) <= MaxLines
  BY <1>2, LenProperties DEF WireInv, StreamsOK
<1>4. /\ script' \in [Conns -> Seq(Lines)] /\ stream' \in [Conns -> Seq(Units)]
      /\ Len(script'[c]) \in Nat /\ Len(script'[c]) >= Len(script[c])
      /\ \A k \in 1..Len(script[c]) : script'[c][k] = script[c][k]
      /\ Len(stream'[c]) \in Nat /\ Len(stream'[c]) >= Len(stream[c])
      /\ \A k \in 1..Len(stream[c]) : stream'[c][k] = stream[c][k]
      /\ IsStream(stream'[c], Len(script'[c])) /\ Len(script'[c]) <= MaxLines
  <2>1. CASE BeginLine(c)
    <3>0. ~LineUnderWay(c) /\ Len(script[c]) < MaxLines
      BY <2>1, Zenon DEF BeginLine
    <3>1. PICK l \in Lines : script' = [script EXCEPT ![c] = Append(script[c], l)]
      BY <2>1 DEF BeginLine
    <3>2. stream' = [stream EXCEPT ![c] = Append(stream[c], <<Len(script[c]) + 1, 1>>)]
      BY <2>1 DEF BeginLine
    <3>3. script'[c] = Append(script[c], l)
      BY <3>1 DEF WireInv, WireTypes
    <3>4. stream'[c] = Append(stream[c], <<Len(script[c]) + 1, 1>>)
      BY <3>2 DEF WireInv, WireTypes
    <3>5. Len(stream[c]) = 0 \/ stream[c][Len(stream[c])][2] = 0
      BY <1>3, <3>0 DEF LineUnderWay, sent
    <3>6. /\ script'[c] \in Seq(Lines) /\ Len(script'[c]) = Len(script[c]) + 1
          /\ \A k \in 1..Len(script[c]) : script'[c][k] = script[c][k]
      BY <1>2, <3>3, AppendProperties
    <3>7. IsStream(stream'[c], Len(script[c]) + 1) /\ stream'[c] \in Seq(Units)
      BY <1>2, <1>3, <3>4, <3>5, StreamBegins
    <3>8. <<Len(script[c]) + 1, 1>> \in Units
      BY <1>3 DEF Units
    <3>9. /\ Len(stream'[c]) = Len(stream[c]) + 1
          /\ \A k \in 1..Len(stream[c]) : stream'[c][k] = stream[c][k]
      BY <1>2, <3>4, <3>8, AppendProperties
    <3>10. script' \in [Conns -> Seq(Lines)] /\ stream' \in [Conns -> Seq(Units)]
      BY <3>1, <3>2, <3>3, <3>4, <3>6, <3>7 DEF WireInv, WireTypes
    <3>11. Len(script[c]) + 1 <= MaxLines
      BY <1>3, <3>0, WireAssumption
    <3> QED BY <1>3, <3>6, <3>7, <3>9, <3>10, <3>11
  <2>2. CASE ContinueLine(c)
    <3> DEFINE u == stream[c][Len(stream[c])]
               w == IF u[2] = script[c][u[1]].more + 1 THEN 0 ELSE u[2] + 1
    <3>1. /\ stream' = [stream EXCEPT ![c] = Append(stream[c], <<u[1], w>>)]
          /\ script' = script
          /\ Len(stream[c]) > 0 /\ u[2] # 0
      BY <2>2 DEF ContinueLine, LineUnderWay, sent
    <3>2. u \in Units /\ u[1] \in Nat /\ u[2] \in Nat
      <4>1. u \in Units
        BY <1>2, <1>3, <3>1, ElementOfSeq
      <4> HIDE DEF u
      <4> QED BY <4>1 DEF Units
    <3>3. w \in Nat
      <4> HIDE DEF u
      <4> QED BY <3>2
    <3>4. stream'[c] = Append(stream[c], <<u[1], w>>)
      BY <3>1 DEF WireInv, WireTypes
    <3> HIDE DEF w
    <3>5. IsStream(stream'[c], Len(script[c])) /\ stream'[c] \in Seq(Units)
      BY <1>2, <1>3, <3>1, <3>3, <3>4, StreamContinues
    <3>6. <<u[1], w>> \in Units
      <4> HIDE DEF u
      <4> QED BY <3>2, <3>3 DEF Units
    <3>7. /\ Len(stream'[c]) = Len(stream[c]) + 1
          /\ \A k \in 1..Len(stream[c]) : stream'[c][k] = stream[c][k]
      BY <1>2, <3>4, <3>6, AppendProperties
    <3>8. script' \in [Conns -> Seq(Lines)] /\ stream' \in [Conns -> Seq(Units)]
      BY <3>1, <3>4, <3>5 DEF WireInv, WireTypes
    <3> QED BY <1>3, <3>1, <3>5, <3>7, <3>8
  <2> QED BY <2>1, <2>2
<1>5. WireTypes' /\ StreamsOK'
  <2>1. WireTypes'
    BY <1>1, <1>4 DEF WireInv, WireTypes
  <2>2. ASSUME NEW d \in Conns
        PROVE  IsStream(stream'[d], Len(script'[d])) /\ Len(script'[d]) <= MaxLines
    <3>1. CASE d = c
      BY <1>4, <3>1
    <3>2. CASE d # c
      BY <1>1, <3>2 DEF WireInv, StreamsOK
    <3> QED BY <3>1, <3>2
  <2>3. StreamsOK'
    BY <2>2 DEF StreamsOK
  <2> QED BY <2>1, <2>3
<1>6. \A d \in Conns : /\ \A k \in 1..Len(script[d]) : script'[d][k] = script[d][k]
                       /\ \A k \in 1..Len(stream[d]) : stream'[d][k] = stream[d][k]
                       /\ Len(script'[d]) >= Len(script[d]) /\ Len(stream'[d]) >= Len(stream[d])
                       /\ Len(script'[d]) \in Nat /\ Len(stream'[d]) \in Nat
                       /\ Len(script[d]) \in Nat /\ Len(stream[d]) \in Nat
                       /\ Len(executed[d]) \in Nat /\ got[d] \in Nat /\ used[d] \in Nat
  <2>1. ASSUME NEW d \in Conns
        PROVE  /\ Len(script[d]) \in Nat /\ Len(stream[d]) \in Nat
               /\ Len(executed[d]) \in Nat /\ got[d] \in Nat /\ used[d] \in Nat
    BY <1>2, LenProperties DEF WireInv, WireTypes
  <2>2. ASSUME NEW d \in Conns
        PROVE  /\ \A k \in 1..Len(script[d]) : script'[d][k] = script[d][k]
               /\ \A k \in 1..Len(stream[d]) : stream'[d][k] = stream[d][k]
               /\ Len(script'[d]) >= Len(script[d]) /\ Len(stream'[d]) >= Len(stream[d])
               /\ Len(script'[d]) \in Nat /\ Len(stream'[d]) \in Nat
    <3>1. CASE d = c
      BY <1>4, <3>1
    <3>2. CASE d # c
      BY <1>1, <2>1, <3>2
    <3> QED BY <3>1, <3>2
  <2> QED BY <2>1, <2>2
<1>7. BufferOK'
  <2> SUFFICES ASSUME NEW d \in Conns
               PROVE  /\ used[d] <= got[d] /\ got[d] <= Len(stream'[d])
                      /\ got[d] - used[d] <= BufSize
                      /\ used[d] = 0 => Len(executed[d]) = 0
                      /\ used[d] > 0 => stream'[d][used[d]] = <<Len(executed[d]), 0>>
    BY <1>1 DEF BufferOK, sent
  <2>1. /\ used[d] <= got[d] /\ got[d] <= Len(stream[d])
        /\ got[d] - used[d] <= BufSize
        /\ used[d] = 0 => Len(executed[d]) = 0
        /\ used[d] > 0 => stream[d][used[d]] = <<Len(executed[d]), 0>>
    BY DEF WireInv, BufferOK, sent
  <2>2. /\ Len(stream'[d]) >= Len(stream[d]) /\ Len(stream'[d]) \in Nat
        /\ Len(stream[d]) \in Nat /\ got[d] \in Nat /\ used[d] \in Nat
        /\ \A k \in 1..Len(stream[d]) : stream'[d][k] = stream[d][k]
    BY <1>6
  <2>3. used[d] > 0 => stream'[d][used[d]] = stream[d][used[d]]
    <3>1. used[d] > 0 => used[d] \in 1..Len(stream[d])
      BY <2>1, <2>2
    <3> QED BY <2>2, <3>1
  <2>4. got[d] <= Len(stream'[d])
    BY <2>1, <2>2
  <2> QED BY <2>1, <2>3, <2>4
<1>8. ParserOK'
  <2>1. InParser' = InParser
    BY <1>1 DEF InParser
  <2>2. ASSUME NEW d \in InParser
        PROVE  Parsing(d, Len(args[d]), Modes(script[d][Due(d)]))'
    <3>1. d \in Conns /\ Due(d) \in 1..Len(script[d])
      BY ParsedLine
    <3>2. script'[d][Due(d)] = script[d][Due(d)] /\ executed'[d] = executed[d]
      BY <1>1, <1>6, <3>1
    <3>3. /\ Due(d)' = Due(d) /\ Behind(d, Len(args[d]))' = Behind(d, Len(args[d]))
          /\ OwnArgs(d, Due(d))' = OwnArgs(d, Due(d))
          /\ Modes(script[d][Due(d)])' = Modes(script[d][Due(d)])
      <4>1. Due(d)' = Due(d)
        BY <3>2 DEF Due
      <4>2. Behind(d, Len(args[d]))' = Behind(d, Len(args[d]))
        BY <1>1, <3>2, <4>1 DEF Behind
      <4>3. OwnArgs(d, Due(d))' = OwnArgs(d, Due(d))
        BY <3>2, <4>1 DEF OwnArgs
      <4> QED BY <3>2, <4>1, <4>2, <4>3
    <3>4. Parsing(d, Len(args[d]), Modes(script[d][Due(d)]))
      BY <3>1 DEF WireInv, ParserOK
    <3>5. \E p \in used[d] + 1..got[d] : stream'[d][p][2] = 0
      <4>1. PICK p \in used[d] + 1..got[d] : stream[d][p][2] = 0
        BY <3>4 DEF Parsing
      <4>2. got[d] <= Len(stream[d])
        BY <3>1 DEF WireInv, BufferOK, sent
      <4>3. p \in 1..Len(stream[d])
        BY <1>6, <3>1, <4>2
      <4> QED BY <1>6, <3>1, <4>1, <4>3
    <3> QED BY <1>1, <2>1, <3>3, <3>4, <3>5 DEF Parsing
  <2>3. \A d \in Conns : d \notin InParser => args'[d] = <<>>
    BY <1>1 DEF WireInv, ParserOK
  <2> QED BY <2>1, <2>2, <2>3 DEF ParserOK
<1>9. CommandsOK'
  <2> SUFFICES ASSUME NEW d \in Conns
               PROVE  /\ Len(executed[d]) <= Len(script'[d])
                      /\ \A i \in 1..Len(executed[d]) :
                            LET x == executed[d][i] IN
                            /\ x.line = i
                            /\ x.pre = FALSE /\ x.mixed = FALSE => x.args = OwnArgs(d, i)'
    BY <1>1 DEF CommandsOK
  <2>1. Len(executed[d]) <= Len(script[d])
    BY DEF WireInv, CommandsOK
  <2>2. \A i \in 1..Len(executed[d]) : script'[d][i] = script[d][i]
    BY <1>6, <2>1
  <2>3. \A i \in 1..Len(executed[d]) : OwnArgs(d, i)' = OwnArgs(d, i)
    BY <2>2, OwnArgsKept
  <2> QED BY <1>6, <2>1, <2>3 DEF WireInv, CommandsOK
<1> QED BY <1>5, <1>7, <1>8, <1>9 DEF WireInv

\* Reading, rearming and hanging up: the parsers and the commands are left alone.
LEMMA OutsideParser ==
    ASSUME WireInv, NEW c \in Conns, c \notin InParser,
           NEW l \in {"armed", "read", "lines", "closed"}, wpc' = [wpc EXCEPT ![c] = l],
           got' \in [Conns -> Nat], \A d \in Conns : d # c => got'[d] = got[d],
           got[c] <= got'[c], got'[c] <= sent(c), got'[c] - used[c] <= BufSize,
           UNCHANGED <<script, stream, used, args, seen, cursor, mixed, executed>>
    PROVE  WireInv'
<1>1. WireTypes' /\ StreamsOK'
  BY DEF WireInv, WireTypes, StreamsOK
<1>2. CommandsOK'
  <2>1. \A d \in Conns : \A i : OwnArgs(d, i)' = OwnArgs(d, i)
    BY DEF OwnArgs
  <2> QED BY <2>1 DEF WireInv, CommandsOK
<1>3. BufferOK'
  <2> SUFFICES ASSUME NEW d \in Conns
               PROVE  /\ used[d] <= got'[d] /\ got'[d] <= sent(d)
                      /\ got'[d] - used[d] <= BufSize
                      /\ used[d] = 0 => Len(executed[d]) = 0
                      /\ used[d] > 0 => stream[d][used[d]] = <<Len(executed[d]), 0>>
    BY DEF BufferOK, sent
  <2>1. /\ used[d] <= got[d] /\ got[d] <= sent(d)
        /\ got[d] - used[d] <= BufSize
        /\ used[d] = 0 => Len(executed[d]) = 0
        /\ used[d] > 0 => stream[d][used[d]] = <<Len(executed[d]), 0>>
    BY DEF WireInv, BufferOK
  <2>2. used[d] \in Nat /\ got[d] \in Nat /\ got'[d] \in Nat
    BY DEF WireInv, WireTypes
  <2> QED BY <2>1, <2>2
<1>4. ParserOK'
  <2>1. InParser' = InParser
    BY DEF InParser, WireInv, WireTypes
  <2>2. ASSUME NEW d \in InParser
        PROVE  Parsing(d, Len(args[d]), Modes(script[d][Due(d)]))'
    <3>1. d \in Conns /\ d # c /\ got'[d] = got[d] /\ wpc'[d] = wpc[d]
      BY DEF InParser, WireInv, WireTypes
    <3>2. Parsing(d, Len(args[d]), Modes(script[d][Due(d)]))
      BY <3>1 DEF WireInv, ParserOK
    <3>3. /\ Due(d)' = Due(d) /\ OwnArgs(d, Due(d))' = OwnArgs(d, Due(d))
          /\ Modes(script[d][Due(d)])' = Modes(script[d][Due(d)])
          /\ Behind(d, Len(args[d]))' = Behind(d, Len(args[d]))
      BY DEF Due, Behind, OwnArgs
    <3> QED BY <2>1, <3>1, <3>2, <3>3 DEF Parsing
  <2> QED BY <2>1, <2>2 DEF WireInv, ParserOK
<1> QED BY <1>1, <1>2, <1>3, <1>4 DEF WireInv

\* A line is executed with the arguments that were found for it, and removed.
LEMMA ExecuteStep ==
    ASSUME WireInv, NEW c \in Conns, NewlineAt(c) # {}, NEW a \in Seq(ArgSet), Execute(c, a),
           mixed' \in [Conns -> BOOLEAN], \A d \in Conns : d # c => mixed'[d] = mixed[d],
           args' = [args EXCEPT ![c] = <<>>],
           PreParsed(Line(c)) = FALSE /\ mixed'[c] = FALSE => a = OwnArgs(c, Due(c)),
           UNCHANGED <<script, stream, got, seen, cursor>>
    PROVE  WireInv'
<1> DEFINE x == [line |-> Current(c), args |-> a, mixed |-> mixed'[c],
                 pre |-> PreParsed(Line(c))]
<1>1. /\ Current(c) = Due(c) /\ Due(c) \in 1..Len(script[c])
      /\ Compacted(c) \in used[c] + 1..got[c]
      /\ stream[c][Compacted(c)] = <<Due(c), 0>>
  BY FrontLine
<1>2. /\ executed \in [Conns -> Seq(Commands)] /\ executed[c] \in Seq(Commands)
      /\ Len(executed[c]) \in Nat /\ used[c] \in Nat /\ got[c] \in Nat
      /\ Due(c) = Len(executed[c]) + 1
  BY LenProperties DEF WireInv, WireTypes, Due
<1>3. x \in Commands
  <2>1. PreParsed(Line(c)) \in BOOLEAN
    BY Zenon DEF PreParsed
  <2>2. Current(c) \in Nat /\ mixed'[c] \in BOOLEAN
    BY <1>1, <1>2
  <2> QED BY <2>1, <2>2 DEF Commands
<1>4. /\ executed' = [executed EXCEPT ![c] = Append(executed[c], x)]
      /\ used' = [used EXCEPT ![c] = Compacted(c)]
      /\ wpc' = [wpc EXCEPT ![c] = "lines"]
  BY DEF Execute, Goto
<1>5. x.line = Due(c) /\ (x.pre = FALSE /\ x.mixed = FALSE => x.args = OwnArgs(c, Due(c)))
  BY <1>1
<1> HIDE DEF x
<1>6. /\ executed'[c] = Append(executed[c], x) /\ used'[c] = Compacted(c)
      /\ wpc'[c] = "lines" /\ args'[c] = <<>>
      /\ \A d \in Conns : d # c => /\ executed'[d] = executed[d] /\ used'[d] = used[d]
                                   /\ wpc'[d] = wpc[d] /\ args'[d] = args[d]
  BY <1>2, <1>4 DEF WireInv, WireTypes
<1>7. /\ executed'[c] \in Seq(Commands) /\ Len(executed'[c]) = Due(c)
      /\ \A i \in 1..Len(executed[c]) : executed'[c][i] = executed[c][i]
      /\ executed'[c][Due(c)] = x
  BY <1>2, <1>3, <1>6, AppendProperties
<1>8. WireTypes' /\ StreamsOK'
  <2>1. executed' \in [Conns -> Seq(Commands)]
    BY <1>2, <1>4, <1>6, <1>7
  <2>2. used' \in [Conns -> Nat]
    <3>1. Compacted(c) \in Nat
      BY <1>1, <1>2
    <3> QED BY <1>4, <3>1 DEF WireInv, WireTypes
  <2>3. args' \in [Conns -> Seq(ArgSet)]
    BY EmptySeq DEF WireInv, WireTypes
  <2> QED BY <1>4, <2>1, <2>2, <2>3 DEF WireInv, WireTypes, StreamsOK
<1>9. BufferOK'
  <2> SUFFICES ASSUME NEW d \in Conns
               PROVE  /\ used'[d] <= got[d] /\ got[d] <= sent(d)
                      /\ got[d] - used'[d] <= BufSize
                      /\ used'[d] = 0 => Len(executed'[d]) = 0
                      /\ used'[d] > 0 => stream[d][used'[d]] = <<Len(executed'[d]), 0>>
    BY DEF BufferOK, sent
  <2>1. /\ used[d] <= got[d] /\ got[d] <= sent(d)
        /\ got[d] - used[d] <= BufSize
        /\ used[d] = 0 => Len(executed[d]) = 0
        /\ used[d] > 0 => stream[d][used[d]] = <<Len(executed[d]), 0>>
    BY DEF WireInv, BufferOK
  <2>2. CASE d = c
    <3>1. used'[d] > used[d] /\ used'[d] <= got[d] /\ used'[d] \in Nat
      BY <1>1, <1>2, <1>6, <2>2
    <3>2. got[d] - used'[d] <= BufSize
      BY <1>2, <2>1, <2>2, <3>1, WireAssumption
    <3> QED BY <1>1, <1>2, <1>6, <1>7, <2>1, <2>2, <3>1, <3>2
  <2>3. CASE d # c
    BY <1>6, <2>1, <2>3
  <2> QED BY <2>2, <2>3
<1>10. ParserOK'
  <2>1. InParser' = InParser \ {c}
    BY <1>6 DEF InParser
  <2>2. ASSUME NEW d \in InParser, d # c
        PROVE  Parsing(d, Len(args[d]), Modes(script[d][Due(d)]))'
    <3>1. /\ d \in Conns /\ used'[d] = used[d] /\ wpc'[d] = wpc[d] /\ mixed'[d] = mixed[d]
          /\ args'[d] = args[d] /\ executed'[d] = executed[d]
      BY <1>6, <2>2 DEF InParser
    <3>2. Parsing(d, Len(args[d]), Modes(script[d][Due(d)]))
      BY <3>1 DEF WireInv, ParserOK
    <3>3. InParser = {d} => InParser' = {d}
      BY <2>1, <2>2
    <3>4. Due(d)' = Due(d)
      BY <3>1 DEF Due
    <3>5. /\ Modes(script[d][Due(d)])' = Modes(script[d][Due(d)])
          /\ OwnArgs(d, Due(d))' = OwnArgs(d, Due(d))
          /\ Behind(d, Len(args[d]))' = Behind(d, Len(args[d]))
      BY <3>1, <3>4 DEF OwnArgs, Behind
    <3> QED BY <3>1, <3>2, <3>3, <3>4, <3>5 DEF Parsing
  <2>3. \A d \in Conns : d \notin InParser' => args'[d] = <<>>
    BY <1>6, <2>1 DEF WireInv, ParserOK
  <2> QED BY <2>1, <2>2, <2>3 DEF ParserOK
<1>11. CommandsOK'
  <2>0. \A d \in Conns : \A i : OwnArgs(d, i)' = OwnArgs(d, i)
    BY DEF OwnArgs
  <2> SUFFICES ASSUME NEW d \in Conns
               PROVE  /\ Len(executed'[d]) <= Len(script'[d])
                      /\ \A i \in 1..Len(executed'[d]) :
                            LET y == executed'[d][i] IN
                            /\ y.line = i
                            /\ y.pre = FALSE /\ y.mixed = FALSE => y.args = OwnArgs(d, i)'
    BY DEF CommandsOK
  <2>1. /\ Len(executed[d]) <= Len(script[d])
        /\ \A i \in 1..Len(executed[d]) :
              LET y == executed[d][i] IN
              /\ y.line = i
              /\ y.pre = FALSE /\ y.mixed = FALSE => y.args = OwnArgs(d, i)
    BY DEF WireInv, CommandsOK
  <2>2. CASE d = c
    <3>1. ASSUME NEW i \in 1..Len(executed'[c])
          PROVE  LET y == executed'[c][i] IN
                 /\ y.line = i
                 /\ y.pre = FALSE /\ y.mixed = FALSE => y.args = OwnArgs(c, i)
      <4>1. CASE i = Due(c)
        BY <1>5, <1>7, <4>1
      <4>2. CASE i # Due(c)
        <5>1. i \in 1..Len(executed[c])
          BY <1>2, <1>7, <3>1, <4>2
        <5> QED BY <1>7, <2>1, <2>2, <5>1
      <4> QED BY <4>1, <4>2
    <3>2. Len(executed'[c]) <= Len(script[c])
      BY <1>1, <1>7
    <3> QED BY <2>0, <2>2, <3>1, <3>2
  <2>3. CASE d # c
    BY <1>6, <2>0, <2>1, <2>3
  <2> QED BY <2>2, <2>3
<1> QED BY <1>8, <1>9, <1>10, <1>11 DEF WireInv

\* What the parser steps leave alone.
LEMMA ParserFrame ==
    ASSUME WireInv, NEW c \in Conns, NEW l \in {"strtok", "strtok_ends"},
           wpc' = [wpc EXCEPT ![c] = l],
           args' \in [Conns -> Seq(ArgSet)], seen' \in [Conns -> Places], cursor' \in Places,
           mixed' \in [Conns -> BOOLEAN],
           UNCHANGED <<script, stream, got, used, executed>>
    PROVE  WireTypes' /\ StreamsOK' /\ BufferOK' /\ CommandsOK'
<1>1. WireTypes' /\ StreamsOK'
  BY DEF WireInv, WireTypes, StreamsOK
<1>2. BufferOK'
  BY DEF WireInv, BufferOK, sent
<1>3. \A d \in Conns : \A i : OwnArgs(d, i)' = OwnArgs(d, i)
  BY DEF OwnArgs
<1>4. CommandsOK'
  BY <1>3 DEF WireInv, CommandsOK
<1> QED BY <1>1, <1>2, <1>4

\* With these unchanged, the line that is due and its arguments are unchanged.
LEMMA DueFrame ==
    ASSUME UNCHANGED <<script, executed>>, NEW d
    PROVE  /\ Due(d)' = Due(d) /\ OwnArgs(d, Due(d))' = OwnArgs(d, Due(d))
           /\ Modes(script[d][Due(d)])' = Modes(script[d][Due(d)])
           /\ \A n : Behind(d, n)' = Behind(d, n)
BY DEF Due, OwnArgs, Behind

\* The keyword: whoever is in the parser is mixed up from now on.
LEMMA KeywordStep ==
    ASSUME WireInv, NEW c \in Conns, ParseKeyword(c)
    PROVE  WireInv'
<1>1. /\ wpc[c] = "lines" /\ NewlineAt(c) # {}
      /\ wpc' = [wpc EXCEPT ![c] = "strtok"]
      /\ cursor' = [conn |-> c, line |-> Current(c), word |-> 2]
      /\ UNCHANGED <<script, stream, got, used, args, seen, executed>>
  BY DEF ParseKeyword, Goto
<1>2. mixed' = [d \in Conns |-> IF d = c THEN InParser # {} ELSE mixed[d] \/ d \in InParser]
  BY DEF ParseKeyword
<1>3. mixed' \in [Conns -> BOOLEAN]
  <2>1. \A d \in Conns : mixed[d] \in BOOLEAN
    BY DEF WireInv, WireTypes
  <2>2. \A d \in Conns : (IF d = c THEN InParser # {} ELSE mixed[d] \/ d \in InParser) \in BOOLEAN
    BY <2>1
  <2> QED BY <1>2, <2>2
<1>4. /\ Current(c) = Due(c) /\ Due(c) \in 1..Len(script[c])
      /\ Compacted(c) \in used[c] + 1..got[c]
      /\ stream[c][Compacted(c)] = <<Due(c), 0>>
  BY <1>1, FrontLine
<1>5. script[c][Due(c)] \in Lines /\ script[c][Due(c)].more \in Nat
  <2>1. script[c] \in Seq(Lines)
    BY DEF WireInv, WireTypes
  <2> QED BY <1>4, <2>1, ElementOfSeq, WireAssumption
<1>6. cursor' \in Places
  BY <1>1, <1>4 DEF Places
<1>7. WireTypes' /\ StreamsOK' /\ BufferOK' /\ CommandsOK'
  BY <1>1, <1>3, <1>6, ParserFrame DEF WireInv, WireTypes
<1>8. /\ InParser' = InParser \cup {c} /\ wpc'[c] = "strtok"
      /\ \A d \in Conns : d # c => wpc'[d] = wpc[d]
      /\ c \notin InParser
  BY <1>1 DEF InParser, WireInv, WireTypes
<1>9. args[c] = <<>> /\ Len(args[c]) = 0
  BY <1>8 DEF WireInv, ParserOK
<1>10. Parsing(c, Len(args[c]), Modes(script[c][Due(c)]))'
  <2> DEFINE modes == Modes(script[c][Due(c)])
  <2>1. \E p \in used[c] + 1..got[c] : stream[c][p][2] = 0
    BY <1>4
  <2>2. Len(modes) \in Nat
    BY ModesOK, LenProperties
  <2>3. mixed'[c] = FALSE => InParser' = {c}
    BY <1>2, <1>8
  <2>4. cursor' = Behind(c, 0)
    BY <1>1, <1>4, <1>5 DEF Behind
  <2>5. /\ Due(c)' = Due(c) /\ modes' = modes /\ Behind(c, 0)' = Behind(c, 0)
    BY <1>1, DueFrame
  <2> HIDE DEF modes
  <2>6. Parsing(c, 0, modes)'
    BY <1>1, <1>8, <2>1, <2>2, <2>3, <2>4, <2>5 DEF Parsing
  <2>7. Len(args[c])' = 0
    BY <1>1, <1>9
  <2> QED BY <2>6, <2>7 DEF modes
<1>11. ASSUME NEW d \in InParser
       PROVE  Parsing(d, Len(args[d]), Modes(script[d][Due(d)]))'
  <2>1. /\ d \in Conns /\ d # c /\ wpc'[d] = wpc[d]
    BY <1>8 DEF InParser
  <2>2. mixed'[d] = TRUE
    BY <1>2, <2>1
  <2>3. Parsing(d, Len(args[d]), Modes(script[d][Due(d)]))
    BY <2>1 DEF WireInv, ParserOK
  <2>4. Modes(script[d][Due(d)])' = Modes(script[d][Due(d)]) /\ args'[d] = args[d]
    BY <1>1, DueFrame
  <2> QED BY <1>1, <2>1, <2>2, <2>3, <2>4 DEF Parsing
<1>12. ParserOK'
  <2>1. \A d \in Conns : d \notin InParser' => args'[d] = <<>>
    BY <1>1, <1>8 DEF WireInv, ParserOK
  <2> QED BY <1>8, <1>10, <1>11, <2>1 DEF ParserOK
<1> QED BY <1>7, <1>12 DEF WireInv

\* A call begins: it reads the position, which is its own unless mixed up.
LEMMA CallBegins ==
    ASSUME WireInv, NEW c \in Conns, strtok_begin(c)
    PROVE  WireInv'
<1>1. /\ wpc[c] = "strtok" /\ Len(args[c]) < Len(Modes(Line(c)))
      /\ wpc' = [wpc EXCEPT ![c] = "strtok_ends"]
      /\ seen' = [seen EXCEPT ![c] = cursor]
      /\ UNCHANGED <<script, stream, got, used, args, cursor, mixed, executed>>
  BY DEF strtok_begin, Goto
<1>2. c \in InParser
  BY <1>1 DEF InParser
<1>3. Line(c) = script[c][Due(c)]
  BY <1>2, ParsedLine
<1>4. WireTypes' /\ StreamsOK' /\ BufferOK' /\ CommandsOK'
  <2>1. seen' \in [Conns -> Places]
    BY <1>1 DEF WireInv, WireTypes
  <2> QED BY <1>1, <2>1, ParserFrame DEF WireInv, WireTypes
<1>5. /\ InParser' = InParser
      /\ wpc'[c] = "strtok_ends" /\ seen'[c] = cursor
      /\ \A d \in Conns : d # c => wpc'[d] = wpc[d] /\ seen'[d] = seen[d]
  BY <1>1 DEF InParser, WireInv, WireTypes
<1>6. ASSUME NEW d \in InParser
      PROVE  Parsing(d, Len(args[d]), Modes(script[d][Due(d)]))'
  <2>1. d \in Conns
    BY DEF InParser
  <2>2. Parsing(d, Len(args[d]), Modes(script[d][Due(d)]))
    BY <2>1 DEF WireInv, ParserOK
  <2>3. /\ Due(d)' = Due(d) /\ OwnArgs(d, Due(d))' = OwnArgs(d, Due(d))
        /\ Modes(script[d][Due(d)])' = Modes(script[d][Due(d)])
        /\ Behind(d, Len(args[d]))' = Behind(d, Len(args[d])) /\ args'[d] = args[d]
    <3>1. UNCHANGED <<script, executed, args>>
      BY <1>1
    <3> QED BY <3>1 DEF Due, OwnArgs, Behind
  <2>4. d = c => Len(args[d]) < Len(Modes(script[d][Due(d)]))
    BY <1>1, <1>3
  <2>5. CASE d = c
    BY <1>1, <1>5, <2>2, <2>3, <2>4, <2>5 DEF Parsing
  <2>6. CASE d # c
    BY <1>1, <1>5, <2>1, <2>2, <2>3, <2>6 DEF Parsing
  <2> QED BY <2>5, <2>6
<1>7. ParserOK'
  BY <1>1, <1>5, <1>6 DEF WireInv, ParserOK
<1> QED BY <1>4, <1>7 DEF WireInv

\* An argument of a line that is being parsed.
LEMMA ArgOfLine ==
    ASSUME WireInv, NEW p \in Places, Valid(p), NEW mode \in {"word", "rest"}
    PROVE  /\ Arg(p.conn, p.line, p.word, mode) \in ArgSet
           /\ p.word \in Nat /\ script[p.conn][p.line].more \in Nat
<1>1. p.conn \in Conns /\ p.line \in Nat /\ p.word \in Nat
  BY DEF Valid, Places
<1>2. p.conn \in InParser /\ Current(p.conn) = p.line
  BY DEF Valid, InParser
<1>3. script[p.conn][p.line] \in Lines
  BY <1>2, ParsedLine
<1>4. Arg(p.conn, p.line, p.word, mode) \in ArgSet
  BY <1>1 DEF Arg, ArgSet
<1> QED BY <1>1, <1>3, <1>4, WireAssumption

\* A call ends.  Unless mixed up, it finds the next argument of its own line, or its
\* end.
LEMMA CallEnds ==
    ASSUME WireInv, NEW c \in Conns, strtok_end(c)
    PROVE  WireInv'
<1> DEFINE p == seen[c]
           n == Len(args[c])
           modes == Modes(script[c][Due(c)])
           mode == modes[n + 1]
           words == script[p.conn][p.line].more + 1
           more == script[c][Due(c)].more
<1>1. /\ wpc[c] = "strtok_ends"
      /\ wpc' = [wpc EXCEPT ![c] = "strtok"]
      /\ seen' = [seen EXCEPT ![c] = NoPlace]
      /\ UNCHANGED <<script, stream, got, used, mixed, executed>>
  BY DEF strtok_end, Goto
<1>2. c \in InParser
  BY <1>1 DEF InParser
<1>3. /\ Line(c) = script[c][Due(c)] /\ Line(c) \in Lines
      /\ Current(c) = Due(c)
  BY <1>2, ParsedLine
<1>4. Parsing(c, n, modes)
  BY <1>2 DEF WireInv, ParserOK
<1>5. /\ n < Len(modes) /\ n \in Nat /\ Len(modes) \in Nat /\ args[c] \in Seq(ArgSet)
      /\ modes \in Seq({"word", "rest"})
      /\ mode \in {"word", "rest"} /\ (mode = "rest" => n + 1 = Len(modes))
  <2>1. /\ modes \in Seq({"word", "rest"})
        /\ \A i \in 1..Len(modes) : modes[i] = "rest" => i = Len(modes)
    BY ModesOK
  <2>2. args[c] \in Seq(ArgSet)
    BY DEF WireInv, WireTypes
  <2>3. n < Len(modes)
    BY <1>1, <1>4 DEF Parsing
  <2> HIDE DEF modes
  <2>4. Len(modes) \in Nat /\ n \in Nat
    BY <2>1, <2>2, LenProperties
  <2>5. n + 1 \in 1..Len(modes)
    BY <2>3, <2>4
  <2> QED BY <2>1, <2>2, <2>3, <2>4, <2>5, ElementOfSeq
<1>6. p \in Places /\ cursor \in Places
  BY DEF WireInv, WireTypes
<1>7. PICK a : /\ args' = [args EXCEPT ![c] = Append(args[c], a)]
               /\ \/ /\ Valid(p) /\ p.word <= words
                     /\ a = Arg(p.conn, p.line, p.word, mode)
                     /\ cursor' = [p EXCEPT !.word = IF mode = "rest" THEN words + 1
                                                                      ELSE p.word + 1]
                  \/ /\ Valid(p) /\ p.word > words /\ a = NULL
                     /\ cursor' = p
                  \/ /\ ~Valid(p) /\ a \in {NULL, Junk} /\ cursor' = p
  BY <1>3 DEF strtok_end
<1> HIDE DEF mode, words
<1>8. a \in ArgSet /\ cursor' \in Places
  <2>1. CASE ~Valid(p)
    BY <1>6, <1>7, <2>1 DEF ArgSet
  <2>2. CASE Valid(p)
    <3> HIDE DEF p, n, modes
    <3>1. /\ Arg(p.conn, p.line, p.word, mode) \in ArgSet /\ p.word \in Nat
          /\ script[p.conn][p.line].more \in Nat
      BY <1>5, <1>6, <2>2, ArgOfLine
    <3>2. NULL \in ArgSet
      BY DEF ArgSet
    <3>3. words \in Nat
      BY <3>1 DEF words
    <3> HIDE DEF words
    <3> QED BY <1>6, <1>7, <2>2, <3>1, <3>2, <3>3 DEF Places
  <2> QED BY <2>1, <2>2
<1>9. /\ args'[c] = Append(args[c], a) /\ args' \in [Conns -> Seq(ArgSet)]
      /\ \A d \in Conns : d # c => args'[d] = args[d]
      /\ Len(args'[c]) = n + 1 /\ args'[c][n + 1] = a
      /\ \A i \in 1..n : args'[c][i] = args[c][i]
  <2>1. args'[c] = Append(args[c], a) /\ \A d \in Conns : d # c => args'[d] = args[d]
    BY <1>7 DEF WireInv, WireTypes
  <2>2. Append(args[c], a) \in Seq(ArgSet)
    BY <1>5, <1>8, AppendProperties
  <2>3. args' \in [Conns -> Seq(ArgSet)]
    BY <1>7, <2>2 DEF WireInv, WireTypes
  <2> QED BY <1>5, <1>8, <2>1, <2>3, AppendProperties
<1>10. WireTypes' /\ StreamsOK' /\ BufferOK' /\ CommandsOK'
  <2>1. seen' \in [Conns -> Places]
    BY <1>1 DEF WireInv, WireTypes, NoPlace, Places
  <2> QED BY <1>1, <1>8, <1>9, <2>1, ParserFrame DEF WireInv, WireTypes
<1>11. /\ InParser' = InParser /\ wpc'[c] = "strtok"
       /\ \A d \in Conns : d # c => wpc'[d] = wpc[d] /\ seen'[d] = seen[d]
  BY <1>1 DEF InParser, WireInv, WireTypes
\* The argument and the position when no other line was parsed meanwhile.
<1>12. ASSUME mixed[c] = FALSE
       PROVE  /\ a = OwnArgs(c, Due(c))[n + 1]
              /\ n + 1 < Len(modes) => cursor' = Behind(c, n + 1)
  <2>1. p = Behind(c, n)
    BY <1>1, <1>4, <1>12 DEF Parsing
  <2>2. more \in Nat
    BY <1>3, WireAssumption
  <2>3. /\ p.conn = c /\ p.line = Due(c)
        /\ p.word = IF n <= more THEN n + 2 ELSE more + 2
        /\ p = [conn |-> c, line |-> Due(c), word |-> IF n <= more THEN n + 2 ELSE more + 2]
    BY <2>1 DEF Behind
  <2>4. Valid(p)
    BY <1>1, <1>3, <2>3 DEF Valid
  <2>5. words = more + 1
    BY <2>3 DEF words
  <2>6. OwnArgs(c, Due(c))[n + 1] =
            IF n + 1 <= more THEN Arg(c, Due(c), (n + 1) + 1, mode) ELSE NULL
    <3>1. n + 1 \in 1..Len(modes) /\ DOMAIN modes = 1..Len(modes)
      BY <1>5, LenProperties
    <3>2. OwnArgs(c, Due(c)) =
            [i \in DOMAIN modes |-> IF i <= more THEN Arg(c, Due(c), i + 1, modes[i]) ELSE NULL]
      BY DEF OwnArgs
    <3> HIDE DEF modes, more, n
    <3> QED BY <3>1, <3>2 DEF mode
  <2>7. Behind(c, n + 1) = [conn |-> c, line |-> Due(c),
                            word |-> IF n + 1 <= more THEN n + 3 ELSE more + 2]
    <3>1. n + 1 + 2 = n + 3
      BY <1>5
    <3> QED BY <3>1 DEF Behind
  <2> HIDE DEF p, n, modes, more
  <2>8. CASE n + 1 <= more
    <3>1. p.word <= words /\ p.word = n + 2 /\ (n + 1) + 1 = n + 2 /\ p.word + 1 = n + 3
      BY <1>5, <2>2, <2>3, <2>5, <2>8
    <3>2. /\ a = Arg(c, Due(c), n + 2, mode)
          /\ cursor' = [p EXCEPT !.word = IF mode = "rest" THEN words + 1 ELSE p.word + 1]
      <4>1. ~(p.word > words)
        BY <1>5, <2>2, <2>5, <3>1
      <4> QED BY <1>7, <2>3, <2>4, <3>1, <4>1
    <3>3. n + 1 < Len(modes) => cursor' = [p EXCEPT !.word = n + 3]
      BY <1>5, <3>1, <3>2
    <3>4. [p EXCEPT !.word = n + 3] = [conn |-> c, line |-> Due(c), word |-> n + 3]
      BY <2>3
    <3> QED BY <2>6, <2>7, <2>8, <3>1, <3>2, <3>3, <3>4
  <2>9. CASE ~(n + 1 <= more)
    <3>1. p.word > words /\ p.word = more + 2
      BY <1>5, <2>2, <2>3, <2>5, <2>9
    <3>2. a = NULL /\ cursor' = p
      <4>1. ~(p.word <= words)
        BY <2>2, <2>5, <3>1
      <4> QED BY <1>7, <2>4, <4>1
    <3> QED BY <2>3, <2>6, <2>7, <2>9, <3>1, <3>2
  <2> QED BY <2>8, <2>9
<1>13. Parsing(c, Len(args[c]), Modes(script[c][Due(c)]))'
  <2>1. /\ Due(c)' = Due(c) /\ OwnArgs(c, Due(c))' = OwnArgs(c, Due(c))
        /\ Modes(script[c][Due(c)])' = modes
        /\ Behind(c, Len(args[c]))' = Behind(c, n + 1)
    <3>1. script' = script /\ executed' = executed /\ Len(args'[c]) = n + 1
      BY <1>1, <1>9
    <3>2. Due(c)' = Due(c)
      BY <3>1 DEF Due
    <3>3. OwnArgs(c, Due(c))' = OwnArgs(c, Due(c)) /\ Modes(script[c][Due(c)])' = modes
      BY <3>1, <3>2 DEF OwnArgs
    <3> HIDE DEF n
    <3>4. Behind(c, Len(args[c]))' = Behind(c, n + 1)
      BY <3>1, <3>2 DEF Behind
    <3> QED BY <3>2, <3>3, <3>4
  <2>2. n + 1 <= Len(modes)
    BY <1>5
  <2>3. mixed[c] = FALSE =>
            /\ InParser = {c}
            /\ \A i \in 1..n + 1 : args'[c][i] = OwnArgs(c, Due(c))[i]
            /\ n + 1 < Len(modes) => cursor' = Behind(c, n + 1)
    <3> SUFFICES ASSUME mixed[c] = FALSE
                 PROVE  /\ InParser = {c}
                        /\ \A i \in 1..n + 1 : args'[c][i] = OwnArgs(c, Due(c))[i]
                        /\ n + 1 < Len(modes) => cursor' = Behind(c, n + 1)
      OBVIOUS
    <3>1. InParser = {c} /\ \A i \in 1..n : args[c][i] = OwnArgs(c, Due(c))[i]
      BY <1>4 DEF Parsing
    <3> HIDE DEF n, modes
    <3>2. \A i \in 1..n + 1 : args'[c][i] = OwnArgs(c, Due(c))[i]
      <4>1. \A i \in 1..n + 1 : i \in 1..n \/ i = n + 1
        BY <1>5
      <4> QED BY <1>9, <1>12, <3>1, <4>1
    <3> QED BY <1>12, <3>1, <3>2
  <2>4. \E q \in used[c] + 1..got[c] : stream[c][q][2] = 0
    BY <1>4 DEF Parsing
  <2> HIDE DEF n, modes
  <2> QED BY <1>1, <1>9, <1>11, <2>1, <2>2, <2>3, <2>4 DEF Parsing
<1>14. ASSUME NEW d \in InParser, d # c
       PROVE  Parsing(d, Len(args[d]), Modes(script[d][Due(d)]))'
  <2>1. d \in Conns
    BY DEF InParser
  <2>2. Parsing(d, Len(args[d]), Modes(script[d][Due(d)]))
    BY <2>1 DEF WireInv, ParserOK
  <2>3. mixed[d] # FALSE
    BY <1>2, <1>14, <2>2 DEF Parsing
  <2>4. /\ Modes(script[d][Due(d)])' = Modes(script[d][Due(d)])
        /\ args'[d] = args[d] /\ wpc'[d] = wpc[d]
    <3>1. UNCHANGED <<script, executed>>
      BY <1>1
    <3> QED BY <1>9, <1>11, <1>14, <2>1, <3>1 DEF Due
  <2> QED BY <1>1, <2>2, <2>3, <2>4 DEF Parsing
<1>15. ParserOK'
  <2>1. \A d \in Conns : d \notin InParser' => args'[d] = <<>>
    BY <1>2, <1>9, <1>11 DEF WireInv, ParserOK
  <2> QED BY <1>11, <1>13, <1>14, <2>1 DEF ParserOK
<1> QED BY <1>10, <1>15 DEF WireInv

\* PreParse and process_line execute a line.
LEMMA LineExecutes ==
    ASSUME WireInv, NEW c \in Conns, PreParse(c) \/ process_line(c)
    PROVE  WireInv'
<1>1. CASE PreParse(c)
  <2>1. /\ NewlineAt(c) # {} /\ PreParsed(Line(c)) /\ wpc[c] = "lines"
        /\ mixed' = [mixed EXCEPT ![c] = FALSE] /\ Execute(c, <<>>)
        /\ UNCHANGED <<script, stream, got, args, seen, cursor>>
    BY <1>1 DEF PreParse
  <2>2. args[c] = <<>> /\ args' = [args EXCEPT ![c] = <<>>]
    <3>1. c \notin InParser
      BY <2>1 DEF InParser
    <3>2. args[c] = <<>>
      BY <3>1 DEF WireInv, ParserOK
    <3> QED BY <2>1, <3>2 DEF WireInv, WireTypes
  <2>3. mixed' \in [Conns -> BOOLEAN] /\ \A d \in Conns : d # c => mixed'[d] = mixed[d]
    BY <2>1 DEF WireInv, WireTypes
  <2>4. <<>> \in Seq(ArgSet) /\ PreParsed(Line(c)) # FALSE
    BY <2>1, EmptySeq
  <2> QED BY <2>1, <2>2, <2>3, <2>4, ExecuteStep
<1>2. CASE process_line(c)
  <2>1. /\ wpc[c] = "strtok" /\ Len(args[c]) = Len(Modes(Line(c)))
        /\ Execute(c, args[c]) /\ args' = [args EXCEPT ![c] = <<>>]
        /\ UNCHANGED <<script, stream, got, seen, cursor, mixed>>
    BY <1>2 DEF process_line
  <2>2. c \in InParser
    BY <2>1 DEF InParser
  <2>3. /\ NewlineAt(c) # {} /\ Line(c) = script[c][Due(c)]
    BY <2>2, ParsedLine
  <2>4. args[c] \in Seq(ArgSet) /\ mixed' \in [Conns -> BOOLEAN]
    BY <2>1 DEF WireInv, WireTypes
  <2>5. ASSUME mixed'[c] = FALSE
        PROVE  args[c] = OwnArgs(c, Due(c))
    <3> DEFINE modes == Modes(script[c][Due(c)])
               more == script[c][Due(c)].more
    <3>1. Parsing(c, Len(args[c]), modes)
      BY <2>2 DEF WireInv, ParserOK
    <3>2. \A i \in 1..Len(modes) : args[c][i] = OwnArgs(c, Due(c))[i]
      BY <2>1, <2>3, <2>5, <3>1 DEF Parsing
    <3>3. OwnArgs(c, Due(c)) =
            [i \in DOMAIN modes |-> IF i <= more THEN Arg(c, Due(c), i + 1, modes[i]) ELSE NULL]
      BY DEF OwnArgs
    <3>4. DOMAIN modes = 1..Len(modes)
      BY ModesOK, LenProperties
    <3>5. DOMAIN OwnArgs(c, Due(c)) = 1..Len(modes)
      <4> HIDE DEF modes, more
      <4> QED BY <3>3, <3>4
    <3>6. args[c] \in [1..Len(modes) -> ArgSet]
      BY <2>1, <2>3, <2>4, LenProperties
    <3>7. OwnArgs(c, Due(c)) = [i \in 1..Len(modes) |-> OwnArgs(c, Due(c))[i]]
      <4> HIDE DEF modes, more
      <4> QED BY <3>3, <3>4
    <3> HIDE DEF modes, more
    <3>8. args[c] = [i \in 1..Len(modes) |-> args[c][i]]
      BY <3>6
    <3> QED BY <3>2, <3>7, <3>8
  <2> QED BY <2>1, <2>3, <2>4, <2>5, ExecuteStep
<1> QED BY <1>1, <1>2

\* A step that leaves the connections alone.
LEMMA NothingChanged ==
    ASSUME WireInv,
           UNCHANGED <<script, stream, got, used, wpc, args, seen, cursor, mixed, executed>>
    PROVE  WireInv'
<1>1. WireTypes' /\ StreamsOK' /\ BufferOK'
  BY DEF WireInv, WireTypes, StreamsOK, BufferOK, sent
<1>2. CommandsOK'
  <2>1. \A d \in Conns : \A i : OwnArgs(d, i)' = OwnArgs(d, i)
    BY DEF OwnArgs
  <2> QED BY <2>1 DEF WireInv, CommandsOK
<1>3. InParser' = InParser
  BY DEF InParser
<1>4. ParserOK'
  <2>1. ASSUME NEW d \in InParser
        PROVE  Parsing(d, Len(args[d]), Modes(script[d][Due(d)]))'
    <3>1. Parsing(d, Len(args[d]), Modes(script[d][Due(d)]))
      BY DEF WireInv, ParserOK, InParser
    <3>2. /\ Due(d)' = Due(d) /\ Modes(script[d][Due(d)])' = Modes(script[d][Due(d)])
          /\ Behind(d, Len(args[d]))' = Behind(d, Len(args[d]))
          /\ OwnArgs(d, Due(d))' = OwnArgs(d, Due(d))
      BY DEF Due, Behind, OwnArgs
    <3> QED BY <1>3, <3>1, <3>2 DEF Parsing
  <2> QED BY <1>3, <2>1 DEF WireInv, ParserOK
<1> QED BY <1>1, <1>2, <1>4 DEF WireInv

\* The loop wakes a worker, it reads, rearms or hangs up.
LEMMA ConnectionStep ==
    ASSUME WireInv, NEW c \in Conns,
           HangUp(c) \/ Wake(c) \/ conn_recv(c) \/ ReadEnds(c) \/ Disconnect(c) \/ epoll_rearm(c)
    PROVE  WireInv'
<1>1. /\ got[c] \in Nat /\ used[c] \in Nat /\ got[c] <= sent(c) /\ got[c] - used[c] <= BufSize
      /\ got \in [Conns -> Nat] /\ sent(c) \in Nat
      /\ wpc \in [Conns -> {"armed", "read", "lines", "strtok", "strtok_ends", "closed"}]
  <2>1. stream[c] \in Seq(Units)
    BY DEF WireInv, WireTypes
  <2>2. sent(c) \in Nat
    BY <2>1, LenProperties DEF sent
  <2> QED BY <2>2 DEF WireInv, WireTypes, BufferOK
<1>2. CASE HangUp(c)
  <2>1. UNCHANGED <<script, stream, got, used, wpc, args, seen, cursor, mixed, executed>>
    BY <1>2 DEF HangUp
  <2> QED BY <2>1, NothingChanged
<1>3. CASE conn_recv(c)
  <2>1. /\ wpc[c] = "read" /\ Space(c) > 0
        /\ got' = [got EXCEPT ![c] = IF sent(c) - got[c] <= Space(c) THEN sent(c)
                                                                  ELSE got[c] + Space(c)]
        /\ got[c] < sent(c)
        /\ UNCHANGED <<script, stream, used, wpc, args, seen, cursor, mixed, executed>>
    BY <1>3 DEF conn_recv
  <2>2. Space(c) = BufSize - (got[c] - used[c]) /\ Space(c) \in Int
    BY <1>1, WireAssumption DEF Space
  <2>3. got'[c] = IF sent(c) - got[c] <= Space(c) THEN sent(c) ELSE got[c] + Space(c)
    BY <1>1, <2>1
  <2>4. /\ got'[c] \in Nat /\ got[c] <= got'[c] /\ got'[c] <= sent(c)
        /\ got'[c] - used[c] <= BufSize
    BY <1>1, <2>1, <2>2, <2>3, WireAssumption
  <2>5. got' \in [Conns -> Nat] /\ \A d \in Conns : d # c => got'[d] = got[d]
    BY <1>1, <2>1, <2>3, <2>4
  <2>6. c \notin InParser /\ wpc' = [wpc EXCEPT ![c] = "read"]
    BY <1>1, <2>1 DEF InParser
  <2> QED BY <2>1, <2>4, <2>5, <2>6, OutsideParser
<1>4. CASE Wake(c) \/ ReadEnds(c) \/ Disconnect(c) \/ epoll_rearm(c)
  <2>1. /\ wpc[c] \in {"armed", "read", "lines"}
        /\ \E l \in {"armed", "read", "lines", "closed"} : wpc' = [wpc EXCEPT ![c] = l]
        /\ UNCHANGED <<script, stream, got, used, args, seen, cursor, mixed, executed>>
    BY <1>4 DEF Wake, ReadEnds, Disconnect, epoll_rearm, Goto
  <2>2. c \notin InParser
    BY <2>1 DEF InParser
  <2>3. PICK l \in {"armed", "read", "lines", "closed"} : wpc' = [wpc EXCEPT ![c] = l]
    BY <2>1
  <2>4. /\ got' \in [Conns -> Nat] /\ got'[c] = got[c] /\ \A d \in Conns : got'[d] = got[d]
        /\ got[c] <= got[c]
    BY <1>1, <2>1
  <2>5. /\ got[c] <= got'[c] /\ got'[c] <= sent(c) /\ got'[c] - used[c] <= BufSize
    BY <1>1, <2>4
  <2> QED BY <2>1, <2>2, <2>3, <2>4, <2>5, OutsideParser
<1> QED BY <1>2, <1>3, <1>4

LEMMA WireNextInv == WireInv /\ [WireNext]_wireVars => WireInv'
<1> SUFFICES ASSUME WireInv, [WireNext]_wireVars PROVE WireInv'
  OBVIOUS
<1>1. CASE UNCHANGED wireVars
  BY <1>1, NothingChanged DEF wireVars
<1>2. CASE \E c \in Conns : BeginLine(c) \/ ContinueLine(c)
  BY <1>2, PeerSends
<1>3. CASE \E c \in Conns : \/ HangUp(c) \/ Wake(c) \/ conn_recv(c) \/ ReadEnds(c)
                            \/ Disconnect(c) \/ epoll_rearm(c)
  BY <1>3, ConnectionStep
<1>4. CASE \E c \in Conns : PreParse(c) \/ process_line(c)
  BY <1>4, LineExecutes
<1>5. CASE \E c \in Conns : ParseKeyword(c) \/ strtok_begin(c) \/ strtok_end(c)
  BY <1>5, KeywordStep, CallBegins, CallEnds
<1> QED BY <1>1, <1>2, <1>3, <1>4, <1>5, Zenon DEF WireNext, Work

\* LinesIntact (handle_client, the read and the line loop), for any number of peers,
\* lines and any size of the buffer: the commands of a connection are its lines, each
\* once and in order, however the stream is cut up.
THEOREM LinesStayIntact == WireSpec => []LinesIntact
<1>1. WireInv => LinesIntact
  <2> SUFFICES ASSUME WireInv PROVE LinesIntact
    OBVIOUS
  <2>1. ASSUME NEW c \in Conns
        PROVE  /\ used[c] \in 0..got[c] /\ got[c] \in 0..sent(c)
               /\ Len(script[c]) <= MaxLines /\ got[c] - used[c] <= BufSize
               /\ wpc[c] \in {"armed", "read", "lines", "strtok", "strtok_ends", "closed"}
               /\ Len(args[c]) <= 3 /\ Len(executed[c]) <= MaxLines
               /\ \A i \in DOMAIN executed[c] : executed[c][i].line = i
    <3>1. /\ used[c] \in Nat /\ got[c] \in Nat /\ used[c] <= got[c] /\ got[c] <= sent(c)
          /\ got[c] - used[c] <= BufSize /\ Len(script[c]) <= MaxLines
          /\ Len(executed[c]) <= Len(script[c])
          /\ wpc[c] \in {"armed", "read", "lines", "strtok", "strtok_ends", "closed"}
      BY DEF WireInv, WireTypes, BufferOK, StreamsOK, CommandsOK
    <3>2. /\ sent(c) \in Nat /\ Len(script[c]) \in Nat /\ Len(executed[c]) \in Nat
          /\ DOMAIN executed[c] = 1..Len(executed[c])
      <4>1. stream[c] \in Seq(Units) /\ script[c] \in Seq(Lines) /\ executed[c] \in Seq(Commands)
        BY DEF WireInv, WireTypes
      <4> QED BY <4>1, LenProperties DEF sent
    <3>3. Len(args[c]) <= 3
      <4>1. CASE c \in InParser
        <5>1. Len(args[c]) <= Len(Modes(script[c][Due(c)]))
          BY <4>1 DEF WireInv, ParserOK, Parsing
        <5>2. /\ Modes(script[c][Due(c)]) \in Seq({"word", "rest"})
              /\ Len(Modes(script[c][Due(c)])) <= 3
          BY ModesOK
        <5>3. args[c] \in Seq(ArgSet)
          BY DEF WireInv, WireTypes
        <5>4. Len(args[c]) \in Nat /\ Len(Modes(script[c][Due(c)])) \in Nat
          BY <5>2, <5>3, LenProperties
        <5> QED BY <5>1, <5>2, <5>4
      <4>2. CASE c \notin InParser
        BY <4>2 DEF WireInv, ParserOK
      <4> QED BY <4>1, <4>2
    <3>4. \A i \in 1..Len(executed[c]) : executed[c][i].line = i
      BY DEF WireInv, CommandsOK
    <3>5. Len(executed[c]) <= MaxLines
      BY <3>1, <3>2, WireAssumption
    <3> QED BY <3>1, <3>2, <3>3, <3>4, <3>5
  <2> QED BY <2>1 DEF LinesIntact, WireTypeOK, CommandsInOrder
<1> QED BY <1>1, WireInitInv, WireNextInv, PTL DEF WireSpec

\* ExactUnlessMixed (parse_incoming_command_server), for any number of workers and any
\* lines: a command whose line was parsed while no other was has its own arguments.
THEOREM OwnArgumentsUnlessMixed == WireSpec => []ExactUnlessMixed
<1>1. WireInv => ExactUnlessMixed
  <2> SUFFICES ASSUME WireInv, NEW c \in Conns, NEW i \in DOMAIN executed[c],
                      ~executed[c][i].pre, ~executed[c][i].mixed
               PROVE  executed[c][i].args = OwnArgs(c, executed[c][i].line)
    BY DEF ExactUnlessMixed
  <2>1. executed[c] \in Seq(Commands)
    BY DEF WireInv, WireTypes
  <2>2. i \in 1..Len(executed[c])
    BY <2>1, LenProperties
  <2>3. executed[c][i] \in Commands
    BY <2>1, <2>2, ElementOfSeq
  <2>4. executed[c][i].pre = FALSE /\ executed[c][i].mixed = FALSE
    BY <2>3 DEF Commands
  <2> QED BY <2>2, <2>4 DEF WireInv, CommandsOK
<1> QED BY <1>1, WireInitInv, WireNextInv, PTL DEF WireSpec
================================================================================
