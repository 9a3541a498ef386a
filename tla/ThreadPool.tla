------------------------------ MODULE ThreadPool ------------------------------
(***************************************************************************)
(* The dynamic worker pool of src/src/threadpool.c.  One server thread     *)
(* submits connections, asks the pool to shrink and finally destroys it;   *)
(* workers wait on the condition variable not_empty, take a job, run       *)
(* handle_client outside the lock and may leave when the pool shrinks.     *)
(*                                                                         *)
(* Every critical section of pool->lock is one step.  A worker's place in  *)
(* the loop of worker() is wpc:                                            *)
(*   none      not created           handling  in handle_client            *)
(*   start     about to lock         after     unlocked check of line 67   *)
(*   waiting   in pthread_cond_wait  recheck   about to lock for line 70   *)
(*   woken     wants the lock back   exited    returned from worker()      *)
(*   fault     dereferenced the NULL head of an empty queue                *)
(***************************************************************************)
EXTENDS Integers, Sequences, FiniteSets

CONSTANTS Conns,          \* connections that can be submitted
          NoConn,         \* the job of a worker that has none
          NTids,          \* number of thread identities (pthread_create calls)
          MaxThreads,     \* pool->max_threads, the thread_pool_size setting
          MinThreads,     \* pool->min_threads
          PromptWakeups   \* TRUE: between two shrink checks (5 s apart) every
                          \* woken worker gets the lock back

ASSUME PoolAssumption ==
    /\ NoConn \notin Conns
    /\ NTids \in Nat
    /\ MaxThreads \in 1..NTids
    /\ MinThreads \in 1..MaxThreads
    /\ PromptWakeups \in BOOLEAN

Tids  == 1..NTids
Slots == 1..MaxThreads

VARIABLES queue,         \* head..tail: the connections waiting for a worker
          idle_count, marked_exits, thread_count, shutdown,
          threads,       \* the array of thread identities, joined by destroy
          wpc, job,      \* per worker: its place in the loop, its connection
          mgr,           \* the server thread: "run", then the steps of destroy
          join_n         \* destroy's snapshot of thread_count

poolVars == <<queue, idle_count, marked_exits, thread_count, shutdown,
              threads, wpc, job, mgr, join_n>>

Places == {"none", "start", "waiting", "woken", "handling", "after",
           "recheck", "exited", "fault"}
Gone   == {"none", "exited", "fault"}

Waiting == {t \in Tids : wpc[t] = "waiting"}
Idle    == {t \in Tids : wpc[t] \in {"waiting", "woken"}}
Live    == {t \in Tids : wpc[t] \notin Gone}

\* Nothing is modelled after the pool's memory is released, or after a fault.
Running == mgr # "freed" /\ \A t \in Tids : wpc[t] # "fault"

\* The connections waiting in the queue.
Queued == {queue[i] : i \in 1..Len(queue)}

\* Mutant: ask for all the excess workers, idle or not.
Minimum_AllExcess(a, b) == a

Minimum(a, b) == IF a < b THEN a ELSE b

-------------------------------------------------------------------------------
\* threadpool_create: max_threads workers, all of them in threads[].
threadpool_create ==
    /\ queue = <<>>
    /\ idle_count = 0
    /\ marked_exits = 0
    /\ thread_count = MaxThreads
    /\ shutdown = FALSE
    /\ threads = [i \in Slots |-> i]
    /\ wpc = [t \in Tids |-> IF t <= MaxThreads THEN "start" ELSE "none"]
    /\ job = [t \in Tids |-> NoConn]
    /\ mgr = "run"
    /\ join_n = 0

-------------------------------------------------------------------------------
(***************************************************************************)
(* worker().  MayWait is the condition of the wait loop; Proceed is what   *)
(* the worker does once it leaves that loop, still in the same critical    *)
(* section: leave at shutdown, leave because marked, or dequeue.           *)
(***************************************************************************)
\* Mutant: wait without looking at the queue first.
MayWait_NoQueueTest == ~shutdown /\ marked_exits = 0

MayWait == queue = <<>> /\ ~shutdown /\ marked_exits = 0

\* Mutant: leave whenever the pool is above its minimum, marked or not.
MarkedToExit_Unmarked == thread_count > MinThreads

MarkedToExit == marked_exits > 0 /\ thread_count > MinThreads

ExitAtShutdown(t) ==
    /\ shutdown /\ queue = <<>>
    /\ wpc' = [wpc EXCEPT ![t] = "exited"]
    /\ UNCHANGED <<queue, job, marked_exits, thread_count>>

\* Mutant: leave without giving up the place in thread_count.
ExitMarked_KeepCount(t) ==
    /\ MarkedToExit
    /\ marked_exits' = marked_exits - 1
    /\ wpc' = [wpc EXCEPT ![t] = "exited"]
    /\ UNCHANGED <<queue, job, thread_count>>

ExitMarked(t) ==
    /\ MarkedToExit
    /\ marked_exits' = marked_exits - 1
    /\ thread_count' = thread_count - 1
    /\ wpc' = [wpc EXCEPT ![t] = "exited"]
    /\ UNCHANGED <<queue, job>>

Dequeue(t) ==
    /\ IF queue = <<>>
       THEN /\ wpc' = [wpc EXCEPT ![t] = "fault"]    \* job->next with job NULL
            /\ UNCHANGED <<queue, job>>
       ELSE /\ job' = [job EXCEPT ![t] = Head(queue)]
            /\ queue' = Tail(queue)
            /\ wpc' = [wpc EXCEPT ![t] = "handling"]
    /\ UNCHANGED <<marked_exits, thread_count>>

Proceed(t) ==
    \/ ExitAtShutdown(t)
    \/ ~shutdown /\ queue = <<>> /\ ExitMarked(t)
    \/ ~(queue = <<>> /\ (shutdown \/ MarkedToExit)) /\ Dequeue(t)

\* Lines 26-57 entered from the top of the loop: idle_count++, then wait, or
\* idle_count-- and proceed without releasing the lock.
WorkerEnter(t) ==
    /\ Running
    /\ wpc[t] = "start"
    /\ \/ /\ MayWait
          /\ idle_count' = idle_count + 1
          /\ wpc' = [wpc EXCEPT ![t] = "waiting"]
          /\ UNCHANGED <<queue, job, marked_exits, thread_count>>
       \/ ~MayWait /\ Proceed(t) /\ UNCHANGED idle_count
    /\ UNCHANGED <<shutdown, threads, mgr, join_n>>

\* A woken worker gets the lock back and tests the wait condition again.
WorkerResume(t) ==
    /\ Running
    /\ wpc[t] = "woken"
    /\ \/ /\ MayWait
          /\ wpc' = [wpc EXCEPT ![t] = "waiting"]
          /\ UNCHANGED <<queue, job, idle_count, marked_exits, thread_count>>
       \/ ~MayWait /\ idle_count' = idle_count - 1 /\ Proceed(t)
    /\ UNCHANGED <<shutdown, threads, mgr, join_n>>

\* pthread_cond_wait may return without a signal.
SpuriousWakeup(t) ==
    /\ Running
    /\ wpc[t] = "waiting"
    /\ wpc' = [wpc EXCEPT ![t] = "woken"]
    /\ UNCHANGED <<queue, idle_count, marked_exits, thread_count, shutdown,
                   threads, job, mgr, join_n>>

\* handle_client returns and the job is freed.
WorkerFinish(t) ==
    /\ Running
    /\ wpc[t] = "handling"
    /\ job' = [job EXCEPT ![t] = NoConn]
    /\ wpc' = [wpc EXCEPT ![t] = "after"]
    /\ UNCHANGED <<queue, idle_count, marked_exits, thread_count, shutdown,
                   threads, mgr, join_n>>

\* Line 67 reads marked_exits and thread_count without the lock: a data race,
\* so either outcome is possible.
WorkerPeek(t) ==
    /\ Running
    /\ wpc[t] = "after"
    /\ \E pc \in {"start", "recheck"} : wpc' = [wpc EXCEPT ![t] = pc]
    /\ UNCHANGED <<queue, idle_count, marked_exits, thread_count, shutdown,
                   threads, job, mgr, join_n>>

\* Lines 69-78: the same test under the lock decides.
WorkerRecheck(t) ==
    /\ Running
    /\ wpc[t] = "recheck"
    /\ \/ ExitMarked(t)
       \/ /\ ~MarkedToExit
          /\ wpc' = [wpc EXCEPT ![t] = "start"]
          /\ UNCHANGED <<queue, job, marked_exits, thread_count>>
    /\ UNCHANGED <<idle_count, shutdown, threads, mgr, join_n>>

-------------------------------------------------------------------------------
(***************************************************************************)
(* The server thread.  Signal and broadcast move waiting workers to woken. *)
(***************************************************************************)
\* Mutant: no pthread_cond_signal or broadcast.
Signalled_Nobody(woken) == wpc

Signalled(woken) == [t \in Tids |-> IF t \in woken THEN "woken" ELSE wpc[t]]

\* How many workers the scale-up of threadpool_submit asks for, the new job
\* being the n-th of the queue.
Spawn(n) ==
    IF n > thread_count /\ thread_count < MaxThreads
    THEN Minimum(n - thread_count, MaxThreads - thread_count)
    ELSE 0

\* A pthread_create may fail, so s of the Spawn workers are created; new is
\* their identities, in the order in which they take the slots of threads[]
\* from index thread_count on, whoever is in those slots.
threadpool_submit(c) ==
    /\ Running
    /\ mgr = "run" /\ ~shutdown
    /\ queue' = Append(queue, c)
    /\ \E sig \in IF Waiting = {} THEN {{}} ELSE {{w} : w \in Waiting},
          s \in 0..Spawn(Len(queue) + 1) :
       \E new \in [1..s -> {t \in Tids : wpc[t] = "none"}] :
          /\ \A i, j \in 1..s : new[i] = new[j] => i = j
          /\ wpc' = [t \in Tids |-> IF \E i \in 1..s : new[i] = t
                                    THEN "start" ELSE Signalled(sig)[t]]
          /\ threads' = [i \in Slots |->
                            IF i \in thread_count + 1 .. thread_count + s
                            THEN new[i - thread_count] ELSE threads[i]]
          /\ thread_count' = thread_count + s
    /\ UNCHANGED <<idle_count, marked_exits, shutdown, job, mgr, join_n>>

\* Every call asks for as many exits as there are excess idle workers, on top
\* of the exits already asked for.  With PromptWakeups no woken worker, whatever
\* woke it, is still on its way to the lock.
threadpool_maybe_shrink ==
    LET to_mark == Minimum(thread_count - MinThreads, idle_count)
    IN  /\ Running
        /\ mgr = "run" /\ ~shutdown
        /\ queue = <<>>
        /\ to_mark > 0
        /\ PromptWakeups => \A t \in Tids : wpc[t] # "woken"
        /\ marked_exits' = marked_exits + to_mark
        /\ wpc' = Signalled(Waiting)
        /\ UNCHANGED <<queue, idle_count, thread_count, shutdown, threads, job,
                       mgr, join_n>>

\* threadpool_destroy: set shutdown under the lock and broadcast ...
DestroySignal ==
    /\ Running
    /\ mgr = "run"
    /\ shutdown' = TRUE
    /\ wpc' = Signalled(Waiting)
    /\ mgr' = "snapshot"
    /\ UNCHANGED <<queue, idle_count, marked_exits, thread_count, threads, job,
                   join_n>>

\* Mutant: one worker too few.
DestroySnapshot_OneShort ==
    /\ Running
    /\ mgr = "snapshot"
    /\ join_n' = thread_count - 1
    /\ mgr' = "join"
    /\ UNCHANGED <<queue, idle_count, marked_exits, thread_count, shutdown,
                   threads, wpc, job>>

\* ... read thread_count without the lock, ...
DestroySnapshot ==
    /\ Running
    /\ mgr = "snapshot"
    /\ join_n' = thread_count
    /\ mgr' = "join"
    /\ UNCHANGED <<queue, idle_count, marked_exits, thread_count, shutdown,
                   threads, wpc, job>>

\* ... join threads[0..n-1] in turn, and free the pool and the jobs left in it.
DestroyFree ==
    /\ Running
    /\ mgr = "join"
    /\ \A i \in 1..join_n : wpc[threads[i]] = "exited"
    /\ mgr' = "freed"
    /\ queue' = <<>>
    /\ UNCHANGED <<idle_count, marked_exits, thread_count, shutdown, threads,
                   wpc, job, join_n>>

Halt == ~Running /\ UNCHANGED poolVars

-------------------------------------------------------------------------------
Worker(t) ==
    \/ WorkerEnter(t)
    \/ WorkerResume(t)
    \/ SpuriousWakeup(t)
    \/ WorkerFinish(t)
    \/ WorkerPeek(t)
    \/ WorkerRecheck(t)

\* The event loop submits a connection only while it is not in the queue
\* (EPOLLONESHOT), but perhaps while the worker that rearmed it has not left
\* handle_client yet; EventLoop_proofs shows that it does.
Server ==
    \/ \E c \in Conns \ Queued : threadpool_submit(c)
    \/ threadpool_maybe_shrink
    \/ DestroySignal
    \/ DestroySnapshot
    \/ DestroyFree

Next ==
    \/ Server
    \/ \E t \in Tids : Worker(t)
    \/ Halt

Init == threadpool_create

Spec == Init /\ [][Next]_poolVars

\* What the scheduler owes: a worker that can take its next step takes it
\* (handle_client returns, the mutex is handed out), and destroy goes on.
WorkerProgress(t) ==
    \/ WorkerEnter(t)
    \/ WorkerResume(t)
    \/ WorkerFinish(t)
    \/ WorkerPeek(t)
    \/ WorkerRecheck(t)

FairSpec ==
    /\ Spec
    /\ \A t \in Tids : WF_poolVars(WorkerProgress(t))
    /\ WF_poolVars(DestroySnapshot \/ DestroyFree)

-------------------------------------------------------------------------------
(***************************************************************************)
(* Properties.                                                             *)
(***************************************************************************)
\* The counters stay in the ranges their fields are meant for: never negative,
\* never more workers than max_threads.
TypeOK ==
    /\ queue \in Seq(Conns)
    /\ idle_count \in 0..NTids
    /\ marked_exits \in Nat
    /\ thread_count \in 0..MaxThreads
    /\ shutdown \in BOOLEAN
    /\ threads \in [Slots -> Tids]
    /\ wpc \in [Tids -> Places]
    /\ job \in [Tids -> Conns \cup {NoConn}]
    /\ mgr \in {"run", "snapshot", "join", "freed"}
    /\ join_n \in 0..MaxThreads

\* No worker dequeues from an empty queue (line 53-54): whoever leaves the wait
\* loop finds a job or a reason to exit, even after several shrink requests.
NoNullDequeue == \A t \in Tids : wpc[t] # "fault"

\* thread_count is the number of workers alive, and shrinking never takes the
\* pool below min_threads (README: "pool won't shrink below this").
CountExact ==
    ~shutdown => /\ thread_count = Cardinality(Live)
                 /\ thread_count >= MinThreads

\* A queued connection never waits on a pool that is asleep: with a job in the
\* queue some worker is awake to take it, whatever signals other workers took
\* and whoever left by shrinking (the comment of lines 13-17).
NoLostWakeup == queue # <<>> => \E t \in Live : wpc[t] # "waiting"

\* Every connection submitted before shutdown is eventually taken by a worker.
JobServed ==
    \A c \in Conns : (c \in Queued) ~> (c \notin Queued \/ shutdown)

\* Nobody has left by shrinking: threads[] is still as create filled it.
NeverShrunk == thread_count = MaxThreads /\ \A i \in Slots : threads[i] = i

\* threadpool_destroy releases the pool only when no worker can still use it
\* (server.c:495, "waits for all workers"), whatever the workers were doing when
\* it began, unless the pool has shrunk: threads[] is then not the list of the
\* live workers any more.
DestroyJoinsAll == mgr = "freed" /\ NeverShrunk => Live = {}

\* threadpool_destroy returns: nobody sleeps through the shutdown broadcast.
DestroyReturns == shutdown ~> (mgr = "freed")

-------------------------------------------------------------------------------
(***************************************************************************)
(* The inductive invariant behind the safety properties.  AwakeInv says    *)
(* why an exit request cannot be slept through: whoever would wait tests   *)
(* marked_exits and shutdown first, and whoever already waits is woken     *)
(* with the request.  MarkInv says that requests never exceed the excess   *)
(* workers, so nobody is woken for an exit it must not take.               *)
(***************************************************************************)
IdleInv  == idle_count = Cardinality(Idle)
CountInv == (shutdown /\ queue = <<>>) \/ thread_count = Cardinality(Live)
MarkInv  == marked_exits + MinThreads <= thread_count
AwakeInv == (marked_exits > 0 \/ shutdown) => Waiting = {}

PoolInv ==
    /\ TypeOK
    /\ IdleInv
    /\ CountInv
    /\ MarkInv
    /\ AwakeInv
    /\ NoNullDequeue
    /\ NoLostWakeup

\* What destroy relies on: the first workers were all created, others only by
\* overwriting threads[], and the snapshot is never below the counter.
JoinInv ==
    /\ \A t \in Slots : wpc[t] # "none"
    /\ (\A i \in Slots : threads[i] = i) => \A t \in Tids \ Slots : wpc[t] = "none"
    /\ mgr \in {"join", "freed"} => thread_count <= join_n
    /\ mgr = "freed" => \A i \in 1..join_n : wpc[threads[i]] = "exited"
===============================================================================
