------------------------------- MODULE EventLoop -------------------------------
(***************************************************************************)
(* The epoll loop of run_server (src/src/server.c) and handle_client       *)
(* (src/src/client_handler.c) around the worker pool: who owns a           *)
(* connection, and whether its data and its hang-up are noticed.           *)
(*                                                                         *)
(* A connection is registered with EPOLLIN|EPOLLRDHUP|EPOLLONESHOT: the    *)
(* event that epoll_wait returns disarms it, and it stays disarmed until   *)
(* the worker that handled it rearms it or frees it.                       *)
(***************************************************************************)
EXTENDS ThreadPool

CONSTANTS AllocFails,   \* TRUE: the malloc of threadpool_submit may fail
          MaxSends      \* how often the peers send in all

ASSUME LoopAssumption ==
    AllocFails \in BOOLEAN /\ MaxSends \in Nat

VARIABLES accepted,     \* connections created so far
          armed,        \* enabled in the epoll set
          events,       \* what epoll_wait returned and the loop has not handled:
                        \* pairs of a connection and whether the event has RDHUP
          closing,      \* conn->closing
          freed,        \* passed to conn_free
          hpc,          \* per worker, inside handle_client: "enter" before the
                        \* read, "read" before epoll_rearm, "left" after the last
                        \* access to the connection
          full,         \* conn->buf has no room left and no newline in it
          sends,        \* how often the peers will still send
          unread, hup   \* per connection: what is in the socket buffer; the
                        \* connections whose peer closed

loopVars == <<accepted, armed, events, closing, freed, hpc, full, sends,
              unread, hup>>
vars     == <<poolVars, loopVars>>

Ready == {c \in armed : unread[c] > 0 \/ c \in hup}

LoopInit ==
    /\ threadpool_create
    /\ accepted = {} /\ armed = {} /\ events = {} /\ closing = {} /\ freed = {}
    /\ hpc = [t \in Tids |-> "enter"]
    /\ full = {} /\ hup = {}
    /\ sends = MaxSends
    /\ unread = [c \in Conns |-> 0]

-------------------------------------------------------------------------------
\* Registration, and EPOLL_CTL_MOD, which re-evaluates readiness: data that
\* arrived meanwhile is an event again.
epoll_add(c)   == armed' = armed \cup {c}
epoll_rearm(c) == armed' = armed \cup {c}

\* The descriptor was closed before, which takes it out of the epoll set.
conn_free(c) == freed' = freed \cup {c}

\* The peer writes, or closes its end.
PeerSend(c) ==
    /\ c \in accepted \ (hup \cup freed)
    /\ sends > 0
    /\ sends' = sends - 1
    /\ unread' = [unread EXCEPT ![c] = @ + 1]
    /\ UNCHANGED <<poolVars, accepted, armed, events, closing, freed, hpc, full, hup>>

PeerClose(c) ==
    /\ c \in accepted \ (hup \cup freed)
    /\ hup' = hup \cup {c}
    /\ UNCHANGED <<poolVars, accepted, armed, events, closing, freed, hpc, full, sends,
                   unread>>

\* accept, conn_create, greeting, epoll_add.
Accept(c) ==
    /\ mgr = "run"
    /\ c \in Conns \ accepted
    /\ accepted' = accepted \cup {c}
    /\ epoll_add(c)
    /\ UNCHANGED <<poolVars, events, closing, freed, hpc, full, sends,
                   unread, hup>>

\* epoll_wait, called once the last batch is handled, returns every ready
\* connection (up to MAX_EVENTS = 64 of them) and disarms it.
EpollWait ==
    /\ Running /\ mgr = "run" /\ events = {} /\ Ready # {}
    /\ events' = {<<c, c \in hup>> : c \in Ready}
    /\ armed' = armed \ Ready
    /\ UNCHANGED <<poolVars, accepted, closing, freed, hpc, full, sends,
                   unread, hup>>

\* One event of the batch: note a hang-up, hand the connection to the pool.
Dispatch(e) ==
    /\ events' = events \ {e}
    /\ closing' = IF e[2] THEN closing \cup {e[1]} ELSE closing
    /\ threadpool_submit(e[1])
    /\ UNCHANGED <<accepted, armed, freed, hpc, full, sends,
                   unread, hup>>

\* Mutant: no rearm when the submission fails.
DispatchFails_NoRearm(e) ==
    /\ AllocFails /\ Running /\ mgr = "run"
    /\ events' = events \ {e}
    /\ closing' = IF e[2] THEN closing \cup {e[1]} ELSE closing
    /\ UNCHANGED <<poolVars, accepted, armed, freed, hpc, full, sends,
                   unread, hup>>

\* The same event when the job cannot be allocated: only a connection that is
\* not closing is rearmed.
DispatchFails(e) ==
    /\ AllocFails /\ Running /\ mgr = "run"
    /\ events' = events \ {e}
    /\ closing' = IF e[2] THEN closing \cup {e[1]} ELSE closing
    /\ IF e[1] \in closing' THEN UNCHANGED armed ELSE epoll_rearm(e[1])
    /\ UNCHANGED <<poolVars, accepted, freed, hpc, full, sends,
                   unread, hup>>

-------------------------------------------------------------------------------
(***************************************************************************)
(* handle_client.  A closing connection is not read, and its buffer is not *)
(* looked at any more.  Otherwise the read loop ends in one of three ways: *)
(* the socket is empty (EAGAIN, or 0 when the peer closed); the buffer is  *)
(* filled first, and its complete lines make room again; or it is filled   *)
(* without a newline, now or by an earlier call, and stays full.           *)
(***************************************************************************)
\* disconnect_cleanup closes the descriptor and frees the connection.
HandleClose(t) ==
    /\ Running /\ wpc[t] = "handling" /\ hpc[t] = "enter"
    /\ \/ job[t] \in closing /\ UNCHANGED unread
       \/ /\ job[t] \in hup \ (closing \cup full)
          /\ unread' = [unread EXCEPT ![job[t]] = 0]
    /\ conn_free(job[t])
    /\ hpc' = [hpc EXCEPT ![t] = "left"]
    /\ UNCHANGED <<poolVars, accepted, armed, events, closing, full, sends, hup>>

HandleRead(t) ==
    LET c == job[t]
        drained == c \notin full \cup hup /\ unread' = [unread EXCEPT ![c] = 0]
                   /\ UNCHANGED full
        filled  == c \notin full /\ unread[c] > 1
                   /\ unread' = [unread EXCEPT ![c] = @ - 1] /\ UNCHANGED full
        stuck   == c \notin full /\ unread[c] > 0
                   /\ unread' = [unread EXCEPT ![c] = @ - 1] /\ full' = full \cup {c}
    IN  /\ Running /\ wpc[t] = "handling" /\ hpc[t] = "enter"
        /\ c \notin closing
        /\ drained \/ filled \/ stuck \/ (c \in full /\ UNCHANGED <<full, unread>>)
        /\ hpc' = [hpc EXCEPT ![t] = "read"]
        /\ UNCHANGED <<poolVars, accepted, armed, events, closing, freed, sends, hup>>

\* Mutant: a connection with more to read in its socket is not rearmed.
HandleRearm_SkipReady(t) ==
    /\ Running /\ wpc[t] = "handling" /\ hpc[t] = "read"
    /\ armed' = IF unread[job[t]] > 0 \/ job[t] \in hup THEN armed ELSE armed \cup {job[t]}
    /\ hpc' = [hpc EXCEPT ![t] = "left"]
    /\ UNCHANGED <<poolVars, accepted, events, closing, freed, full, sends,
                   unread, hup>>

\* The lines are processed and the lock released.
HandleRearm(t) ==
    /\ Running /\ wpc[t] = "handling" /\ hpc[t] = "read"
    /\ epoll_rearm(job[t])
    /\ hpc' = [hpc EXCEPT ![t] = "left"]
    /\ UNCHANGED <<poolVars, accepted, events, closing, freed, full, sends,
                   unread, hup>>

\* handle_client returns.
HandleReturn(t) ==
    /\ hpc[t] = "left"
    /\ WorkerFinish(t)
    /\ hpc' = [hpc EXCEPT ![t] = "enter"]
    /\ UNCHANGED <<accepted, armed, events, closing, freed, full, sends,
                   unread, hup>>

\* Steps of the pool that are not about one connection's data.  The loop is
\* left only between batches.
PoolStep ==
    /\ \/ threadpool_maybe_shrink
       \/ events = {} /\ DestroySignal
       \/ DestroySnapshot
       \/ DestroyFree
       \/ \E t \in Tids : \/ WorkerEnter(t)
                          \/ WorkerResume(t)
                          \/ SpuriousWakeup(t)
                          \/ WorkerPeek(t)
                          \/ WorkerRecheck(t)
    /\ UNCHANGED loopVars

LoopHalt == ~Running /\ UNCHANGED vars

LoopNext ==
    \/ \E c \in Conns : Accept(c)
    \/ \E c \in Conns : PeerSend(c)
    \/ \E c \in Conns : PeerClose(c)
    \/ EpollWait
    \/ \E e \in events : Dispatch(e)
    \/ \E e \in events : DispatchFails(e)
    \/ \E t \in Tids : HandleClose(t)
    \/ \E t \in Tids : HandleRead(t)
    \/ \E t \in Tids : HandleRearm(t)
    \/ \E t \in Tids : HandleReturn(t)
    \/ PoolStep
    \/ LoopHalt

LoopSpec == LoopInit /\ [][LoopNext]_vars

EventsOf(c) == {e \in events : e[1] = c}

\* The event loop keeps turning and every worker keeps running; malloc does not
\* fail for the same connection for ever; peers, accepts, shrinking and shutdown
\* are under no obligation.
WorkerTurns(t) ==
    \/ HandleClose(t) \/ HandleRead(t) \/ HandleRearm(t) \/ HandleReturn(t)
    \/ /\ WorkerEnter(t) \/ WorkerResume(t) \/ WorkerPeek(t) \/ WorkerRecheck(t)
       /\ UNCHANGED loopVars

FairLoopSpec ==
    /\ LoopSpec
    /\ WF_vars(EpollWait)
    /\ \A c \in Conns : SF_vars(\E e \in EventsOf(c) : Dispatch(e))
    /\ \A t \in Tids : WF_vars(WorkerTurns(t))

-------------------------------------------------------------------------------
(***************************************************************************)
(* Properties.                                                             *)
(***************************************************************************)
\* The loop's bookkeeping is about accepted connections only, and the pool's
\* counters keep their ranges under the loop that really drives the pool.
LoopTypeOK ==
    /\ TypeOK
    /\ armed \subseteq accepted /\ closing \subseteq accepted
    /\ freed \subseteq accepted /\ accepted \subseteq Conns
    /\ events \subseteq accepted \X BOOLEAN
    /\ hpc \in [Tids -> {"enter", "read", "left"}]
    /\ full \subseteq accepted /\ hup \subseteq accepted
    /\ sends \in 0..MaxSends /\ unread \in [Conns -> 0..MaxSends]

\* The places from which connection c can be reached and touched.
JobsOf(c)    == {i \in 1..Len(queue) : queue[i] = c}
HoldersOf(c) == {t \in Tids : /\ wpc[t] = "handling" /\ job[t] = c
                              /\ hpc[t] # "left"}
Owners(c) ==
    Cardinality(EventsOf(c)) + Cardinality(JobsOf(c)) + Cardinality(HoldersOf(c))
    + (IF c \in armed THEN 1 ELSE 0)

\* A live connection is in one pair of hands: epoll, the event batch, the queue
\* or one worker, so two workers never run on the same buffer (conn.h: the lock
\* "prevents two workers touching same conn"), and nobody can reach a freed one.
OneOwner ==
    \A c \in accepted : /\ Owners(c) <= 1
                        /\ c \in freed => Owners(c) = 0

\* Nothing falls between two hands: while the server runs, a connection that is
\* neither freed nor closing always has an owner that will look at it again,
\* also when its submission failed.
NoOrphan ==
    ~shutdown => \A c \in accepted \ (freed \cup closing) : Owners(c) = 1

\* A connection is always in exactly one pair of hands, and what the loop and the
\* pool keep about it (conn_t, threadpool_t) is in range.
ConnectionsOwned == LoopTypeOK /\ OneOwner /\ NoOrphan

\* Bytes that arrive are eventually all read, however their arrival races with
\* the drain, the rearm and failed submissions (client_handler.c: "Read all
\* currently-available bytes"), unless the connection or the server ends.  The
\* code has a second exception: a buffer that filled up without a newline is
\* never read into again.  Of plain sockets: bytes left inside an SSL object
\* raise no event.
DataRead ==
    \A c \in Conns :
        (unread[c] > 0) ~> (unread[c] = 0 \/ c \in full \cup closing \cup freed \/ shutdown)

\* A peer that closed is eventually noticed, also when its buffer is full and
\* recv is not called any more: the loop marks the connection closing or a
\* worker frees it.
HangupNoticed ==
    \A c \in Conns : (c \in hup) ~> (c \in closing \cup freed \/ shutdown)
===============================================================================
