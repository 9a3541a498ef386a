---------------------------- MODULE EventLoop_proofs ---------------------------
(***************************************************************************)
(* Proofs about the worker pool, for any number of connections and threads *)
(* and any MinThreads <= MaxThreads, used by anybody; then about the event *)
(* loop that drives it: who owns a connection, for any number of           *)
(* connections and workers, any number of bytes sent, with and without     *)
(* failing submissions.  The invariant of the pool is shown to survive     *)
(* the loop.                                                               *)
(***************************************************************************)
EXTENDS EventLoop, FiniteSetTheorems, TLAPS

(***************************** The worker pool *****************************)

-------------------------------------------------------------------------------
(* Counting workers. *)

\* Sets of workers are finite, and there are at most NTids of them.
LEMMA WorkerSets ==
    ASSUME NEW S \in SUBSET Tids
    PROVE  IsFiniteSet(S) /\ Cardinality(S) \in 0..NTids
<1>1. IsFiniteSet(Tids) /\ Cardinality(Tids) = NTids
  BY FS_Interval, PoolAssumption DEF Tids
<1>2. IsFiniteSet(S) /\ Cardinality(S) <= Cardinality(Tids)
  BY <1>1, FS_Subset
<1> QED
  BY <1>1, <1>2, FS_CardinalityType, PoolAssumption

\* A step of one live worker to another live place changes neither the number
\* of live workers nor who else is live.
LEMMA LiveStays ==
    ASSUME TypeOK, NEW t \in Live, NEW pc \in Places \ Gone,
           wpc' = [wpc EXCEPT ![t] = pc]
    PROVE  Live' = Live
  BY DEF TypeOK, Live

\* A worker that leaves reduces the number of live workers by one.
LEMMA LiveLeaves ==
    ASSUME TypeOK, NEW t \in Live, wpc' = [wpc EXCEPT ![t] = "exited"]
    PROVE  Live' = Live \ {t} /\ Cardinality(Live') = Cardinality(Live) - 1
<1>1. Live' = Live \ {t}
  BY DEF TypeOK, Live, Gone
<1>2. IsFiniteSet(Live)
  BY WorkerSets DEF Live
<1> QED
  BY <1>1, <1>2, FS_RemoveElement

\* Idle workers under a step of one worker.
LEMMA IdleEnters ==
    ASSUME TypeOK, NEW t \in Tids \ Idle, NEW pc \in {"waiting", "woken"},
           wpc' = [wpc EXCEPT ![t] = pc]
    PROVE  Cardinality(Idle') = Cardinality(Idle) + 1
<1>1. Idle' = Idle \cup {t}
  BY DEF TypeOK, Idle
<1>2. IsFiniteSet(Idle)
  BY WorkerSets DEF Idle
<1> QED
  BY <1>1, <1>2, FS_AddElement

LEMMA IdleLeaves ==
    ASSUME TypeOK, NEW t \in Idle, NEW pc \in Places \ {"waiting", "woken"},
           wpc' = [wpc EXCEPT ![t] = pc]
    PROVE  Cardinality(Idle') = Cardinality(Idle) - 1
<1>1. Idle' = Idle \ {t}
  BY DEF TypeOK, Idle
<1>2. IsFiniteSet(Idle)
  BY WorkerSets DEF Idle
<1> QED
  BY <1>1, <1>2, FS_RemoveElement

\* A step of one worker between two places of which neither is idle, or of
\* which both are, leaves the idle set as it is.
LEMMA IdleStays ==
    ASSUME TypeOK, NEW t \in Tids, NEW pc \in Places,
           t \in Idle <=> pc \in {"waiting", "woken"},
           wpc' = [wpc EXCEPT ![t] = pc]
    PROVE  Idle' = Idle
  BY DEF TypeOK, Idle

\* Signal and broadcast wake workers: they stay idle and live.
LEMMA WakingKeepsCounts ==
    ASSUME TypeOK, NEW woken \in SUBSET Waiting, wpc' = Signalled(woken)
    PROVE  Idle' = Idle /\ Live' = Live /\ Waiting' = Waiting \ woken
  BY DEF TypeOK, Idle, Live, Gone, Waiting, Signalled

\* The identities that s calls of pthread_create return are s different ones.
LEMMA SpawnedCount ==
    ASSUME NEW s \in Nat, NEW S \in SUBSET Tids, NEW new \in [1..s -> S],
           \A i, j \in 1..s : new[i] = new[j] => i = j
    PROVE  /\ IsFiniteSet({new[i] : i \in 1..s})
           /\ Cardinality({new[i] : i \in 1..s}) = s
<1> DEFINE N == {new[i] : i \in 1..s}
<1>1. IsFiniteSet(1..s) /\ Cardinality(1..s) = s
  BY FS_Interval
<1>2. new \in Surjection(1..s, N)
  BY DEF Surjection
<1>3. new \in Injection(1..s, N)
  BY DEF Injection, IsInjective
<1> HIDE DEF N
<1>4. IsFiniteSet(N) /\ Cardinality(N) = s
  BY <1>1, <1>2, <1>3, FS_Surjection
<1> QED
  BY <1>4 DEF N

-------------------------------------------------------------------------------
(* The inductive step, one lemma per action. *)

LEMMA InitPoolInv == Init => PoolInv
<1> SUFFICES ASSUME Init PROVE PoolInv
  OBVIOUS
<1> USE PoolAssumption DEF Init, threadpool_create
<1>1. Live = 1..MaxThreads /\ Idle = {} /\ Waiting = {}
  BY DEF Live, Idle, Waiting, Gone, Tids
<1>2. Cardinality(Live) = MaxThreads /\ Cardinality(Idle) = 0
  BY <1>1, FS_Interval, FS_EmptySet
<1>3. TypeOK
  <2>1. wpc \in [Tids -> Places]
    BY DEF Places
  <2>2. threads \in [Slots -> Tids]
    BY DEF Tids, Slots
  <2>3. queue \in Seq(Conns) /\ job \in [Tids -> Conns \cup {NoConn}]
    OBVIOUS
  <2>4. /\ idle_count \in 0..NTids /\ marked_exits \in Nat
        /\ thread_count \in 0..MaxThreads /\ join_n \in 0..MaxThreads
    OBVIOUS
  <2>5. mgr \in {"run", "snapshot", "join", "freed"} /\ shutdown \in BOOLEAN
    OBVIOUS
  <2> HIDE DEF Init, threadpool_create
  <2> QED BY <2>1, <2>2, <2>3, <2>4, <2>5 DEF TypeOK
<1>4. NoNullDequeue
  BY DEF NoNullDequeue, Tids
<1> QED
  BY <1>1, <1>2, <1>3, <1>4
     DEF PoolInv, IdleInv, CountInv, MarkInv, AwakeInv, NoLostWakeup

\* A worker goes to sleep.
LEMMA WaitStep ==
    ASSUME PoolInv, NEW t \in Tids, wpc[t] \in {"start", "woken"}, MayWait,
           wpc' = [wpc EXCEPT ![t] = "waiting"],
           idle_count' = IF wpc[t] = "start" THEN idle_count + 1 ELSE idle_count,
           UNCHANGED <<queue, job, marked_exits, thread_count, shutdown, threads,
                       mgr, join_n>>
    PROVE  PoolInv'
<1> USE PoolAssumption DEF PoolInv
<1>1. t \in Live /\ Live' = Live
  BY LiveStays DEF Live, Gone, Places
<1>2. idle_count' = Cardinality(Idle')
  <2>1. CASE wpc[t] = "start"
    BY <2>1, IdleEnters DEF IdleInv, Idle
  <2>2. CASE wpc[t] = "woken"
    BY <2>2, IdleStays DEF IdleInv, Idle, Places
  <2> QED BY <2>1, <2>2
<1>3. idle_count' \in 0..NTids
  BY <1>2, WorkerSets DEF Idle
<1>4. TypeOK'
  BY <1>3 DEF TypeOK, Places
<1>5. IdleInv' /\ CountInv' /\ MarkInv'
  BY <1>1, <1>2 DEF IdleInv, CountInv, MarkInv, Live
<1>6. AwakeInv'
  BY DEF AwakeInv, MayWait, TypeOK
<1>7. NoNullDequeue' /\ NoLostWakeup'
  BY DEF NoNullDequeue, NoLostWakeup, MayWait, TypeOK
<1> QED
  BY <1>4, <1>5, <1>6, <1>7

\* A worker leaves the wait loop: exits, or dequeues a job that is there.
LEMMA ProceedStep ==
    ASSUME PoolInv, NEW t \in Tids, wpc[t] \in {"start", "woken"}, ~MayWait,
           Proceed(t),
           idle_count' = IF wpc[t] = "start" THEN idle_count ELSE idle_count - 1,
           UNCHANGED <<shutdown, threads, mgr, join_n>>
    PROVE  PoolInv'
<1> USE PoolAssumption DEF PoolInv
<1>1. t \in Live
  BY DEF Live, Gone
<1>2. ASSUME NEW pc \in Places \ {"waiting", "woken"},
             wpc' = [wpc EXCEPT ![t] = pc]
      PROVE  IdleInv' /\ idle_count' \in 0..NTids /\ Waiting' \subseteq Waiting
  <2>1. CASE wpc[t] = "start"
    BY <1>2, <2>1, IdleStays DEF IdleInv, Idle, TypeOK, Waiting
  <2>2. CASE wpc[t] = "woken"
    <3>1. t \in Idle
      BY <2>2 DEF Idle
    <3>2. idle_count' = Cardinality(Idle')
      BY <1>2, <2>2, <3>1, IdleLeaves DEF IdleInv
    <3> QED
      BY <1>2, <3>2, WorkerSets DEF IdleInv, Idle, TypeOK, Waiting
  <2> QED BY <2>1, <2>2
<1>3. CASE ExitAtShutdown(t)
  <2>1. IdleInv' /\ idle_count' \in 0..NTids /\ Waiting' \subseteq Waiting
    BY <1>2, <1>3 DEF ExitAtShutdown, Places
  <2>2. TypeOK'
    BY <1>3, <2>1 DEF ExitAtShutdown, TypeOK, Places
  <2> QED
    BY <1>3, <2>1, <2>2 DEF ExitAtShutdown, CountInv, MarkInv, AwakeInv,
       NoNullDequeue, NoLostWakeup, TypeOK
<1>4. CASE ~shutdown /\ queue = <<>> /\ ExitMarked(t)
  <2>1. IdleInv' /\ idle_count' \in 0..NTids /\ Waiting' \subseteq Waiting
    BY <1>2, <1>4 DEF ExitMarked, Places
  <2>2. TypeOK'
    BY <1>4, <2>1 DEF ExitMarked, MarkedToExit, TypeOK, Places
  <2>3. CountInv'
    BY <1>1, <1>4, LiveLeaves DEF ExitMarked, CountInv
  <2>4. MarkInv' /\ AwakeInv' /\ NoNullDequeue' /\ NoLostWakeup'
    BY <1>4, <2>1 DEF ExitMarked, MarkedToExit, MarkInv, AwakeInv, TypeOK,
       NoNullDequeue, NoLostWakeup
  <2> QED BY <2>1, <2>2, <2>3, <2>4
<1>5. CASE ~(queue = <<>> /\ (shutdown \/ MarkedToExit)) /\ Dequeue(t)
  <2>1. queue # <<>>
    BY <1>5 DEF MayWait, MarkedToExit, MarkInv, TypeOK
  <2>2. /\ wpc' = [wpc EXCEPT ![t] = "handling"]
        /\ queue' = Tail(queue)
        /\ job' = [job EXCEPT ![t] = Head(queue)]
        /\ UNCHANGED <<marked_exits, thread_count>>
    BY <1>5, <2>1 DEF Dequeue
  <2>3. IdleInv' /\ idle_count' \in 0..NTids /\ Waiting' \subseteq Waiting
    BY <1>2, <2>2 DEF Places
  <2>4. Live' = Live /\ t \in Live'
    BY <1>1, <2>2, LiveStays DEF Places, Gone
  <2>5. TypeOK'
    BY <2>1, <2>2, <2>3 DEF TypeOK, Places
  <2>6. CountInv' /\ MarkInv' /\ AwakeInv'
    BY <2>1, <2>2, <2>3, <2>4 DEF CountInv, MarkInv, AwakeInv
  <2>7. NoNullDequeue' /\ NoLostWakeup'
    BY <2>2, <2>4 DEF NoNullDequeue, NoLostWakeup, TypeOK
  <2> QED BY <2>3, <2>5, <2>6, <2>7
<1> QED
  BY <1>3, <1>4, <1>5 DEF Proceed

\* A worker moves between two places that are neither idle nor gone, or is
\* woken; it is awake afterwards, so no job is left without a taker.
LEMMA MoveStep ==
    ASSUME PoolInv, NEW t \in Live, NEW pc \in Places \ (Gone \cup {"waiting"}),
           t \in Idle <=> pc = "woken",
           wpc' = [wpc EXCEPT ![t] = pc],
           job' \in [Tids -> Conns \cup {NoConn}],
           UNCHANGED <<queue, idle_count, marked_exits, thread_count, shutdown,
                       threads, mgr, join_n>>
    PROVE  PoolInv'
<1> USE DEF PoolInv
<1>1. t \in Tids /\ wpc'[t] = pc
  BY DEF Live, TypeOK
<1>2. Live' = Live
  BY LiveStays
<1>3. Idle' = Idle
  BY <1>1, IdleStays
<1>4. TypeOK'
  BY DEF TypeOK
<1>5. Waiting' \subseteq Waiting
  BY DEF Waiting, TypeOK
<1>6. IdleInv' /\ CountInv' /\ MarkInv' /\ AwakeInv'
  BY <1>2, <1>3, <1>5 DEF IdleInv, CountInv, MarkInv, AwakeInv
<1>7. NoNullDequeue' /\ NoLostWakeup'
  BY <1>1, <1>2 DEF NoNullDequeue, NoLostWakeup, TypeOK, Gone
<1> QED
  BY <1>4, <1>6, <1>7

\* A marked worker leaves after its job, perhaps with jobs queued: requests to
\* leave keep everyone awake, and at least MinThreads workers stay.
LEMMA RecheckExitStep ==
    ASSUME PoolInv, NEW t \in Tids, wpc[t] = "recheck", ExitMarked(t),
           UNCHANGED <<idle_count, shutdown, threads, mgr, join_n>>
    PROVE  PoolInv'
<1> USE PoolAssumption DEF PoolInv
<1>1. t \in Live /\ t \notin Idle
  BY DEF Live, Idle, Gone
<1>2. Live' = Live \ {t} /\ Cardinality(Live') = Cardinality(Live) - 1
  BY <1>1, LiveLeaves DEF ExitMarked
<1>3. Idle' = Idle
  BY <1>1, IdleStays DEF ExitMarked, Places
<1>4. TypeOK'
  BY DEF ExitMarked, MarkedToExit, TypeOK, Places
<1>5. IdleInv' /\ CountInv' /\ MarkInv'
  <2>1. Cardinality(Live) \in Nat
    BY WorkerSets DEF Live
  <2> QED
    BY <1>2, <1>3, <2>1 DEF IdleInv, CountInv, MarkInv, ExitMarked, TypeOK
<1>6. Waiting = {} /\ Waiting' = {}
  BY DEF AwakeInv, Waiting, ExitMarked, MarkedToExit, TypeOK
<1>7. NoLostWakeup'
  <2> SUFFICES ASSUME queue' # <<>>
               PROVE  \E u \in Live' : wpc'[u] # "waiting"
    BY DEF NoLostWakeup
  <2>a. marked_exits' \in Nat /\ thread_count' \in Nat
    BY <1>4 DEF TypeOK
  <2>b. queue # <<>> /\ thread_count = Cardinality(Live)
    BY DEF CountInv, ExitMarked
  <2>1. thread_count' = Cardinality(Live') /\ thread_count' >= MinThreads
    BY <1>2, <1>5, <2>a, <2>b DEF MarkInv, ExitMarked
  <2>2. Live' # {}
    BY <2>1, FS_EmptySet
  <2> QED
    BY <1>6, <2>2 DEF Waiting, Live
<1>8. AwakeInv' /\ NoNullDequeue'
  BY <1>6 DEF AwakeInv, NoNullDequeue, ExitMarked, TypeOK
<1> QED
  BY <1>4, <1>5, <1>7, <1>8

\* Submitting wakes a waiter, or finds everyone awake; scale-up adds s workers
\* and s to thread_count.
LEMMA SubmitStep ==
    ASSUME PoolInv, NEW c \in Conns, threadpool_submit(c)
    PROVE  PoolInv'
<1> USE PoolAssumption DEF PoolInv
<1> DEFINE None == {t \in Tids : wpc[t] = "none"}
<1>a. PICK sig \in (IF Waiting = {} THEN {{}} ELSE {{w} : w \in Waiting}),
           s \in 0..Spawn(Len(queue) + 1) :
        \E f \in [1..s -> None] :
          /\ \A i, j \in 1..s : f[i] = f[j] => i = j
          /\ wpc' = [t \in Tids |-> IF \E i \in 1..s : f[i] = t
                                    THEN "start" ELSE Signalled(sig)[t]]
          /\ threads' = [i \in Slots |->
                            IF i \in thread_count + 1 .. thread_count + s
                            THEN f[i - thread_count] ELSE threads[i]]
          /\ thread_count' = thread_count + s
  BY DEF threadpool_submit
<1>1. PICK new \in [1..s -> None] :
        /\ \A i, j \in 1..s : new[i] = new[j] => i = j
        /\ wpc' = [t \in Tids |-> IF \E i \in 1..s : new[i] = t
                                  THEN "start" ELSE Signalled(sig)[t]]
        /\ threads' = [i \in Slots |->
                          IF i \in thread_count + 1 .. thread_count + s
                          THEN new[i - thread_count] ELSE threads[i]]
        /\ thread_count' = thread_count + s
  BY <1>a
<1>2. /\ queue' = Append(queue, c) /\ ~shutdown
      /\ UNCHANGED <<idle_count, marked_exits, shutdown, job, mgr, join_n>>
  BY DEF threadpool_submit
<1> DEFINE N == {new[i] : i \in 1..s}
<1>3. s \in Nat /\ thread_count + s <= MaxThreads
  <2>1. Spawn(Len(queue) + 1) \in Nat
        /\ thread_count + Spawn(Len(queue) + 1) <= MaxThreads
    <3>1. Len(queue) \in Nat /\ thread_count \in 0..MaxThreads
      BY DEF TypeOK
    <3> QED BY <3>1 DEF Spawn, Minimum
  <2> QED BY <2>1 DEF TypeOK
<1>4. N \subseteq None /\ None \subseteq Tids /\ None \cap Live = {}
  BY DEF Live, Gone
<1>5. IsFiniteSet(N) /\ Cardinality(N) = s
  <2>1. None \in SUBSET Tids
    BY <1>4
  <2> HIDE DEF None
  <2> QED BY <1>1, <1>3, <2>1, SpawnedCount
<1>6. /\ sig \subseteq Waiting
      /\ \A t \in N : wpc'[t] = "start"
      /\ \A t \in sig : wpc'[t] = "woken"
      /\ \A t \in Tids \ (N \cup sig) : wpc'[t] = wpc[t]
      /\ wpc' \in [Tids -> Places]
  <2>1. sig \subseteq Waiting
    BY <1>a
  <2>2. Waiting \cap N = {}
    BY <1>4 DEF Waiting
  <2>3. wpc' = [t \in Tids |-> IF t \in N THEN "start"
                               ELSE IF t \in sig THEN "woken" ELSE wpc[t]]
    BY <1>1 DEF Signalled
  <2> HIDE DEF N
  <2> QED
    BY <2>1, <2>2, <2>3, <1>4 DEF TypeOK, Places, Waiting
<1> HIDE DEF N, None
<1>7. Live' = Live \cup N
  BY <1>4, <1>6 DEF Live, Gone, Waiting, None
<1>8. Cardinality(Live') = Cardinality(Live) + s
  <2>1. IsFiniteSet(Live) /\ Cardinality(Live) \in Nat
    BY WorkerSets DEF Live
  <2>2. Live \cap N = {}
    BY <1>4
  <2>3. Cardinality(Live \cup N)
        = Cardinality(Live) + Cardinality(N) - Cardinality(Live \cap N)
    BY <1>5, <2>1, FS_Union
  <2>4. Cardinality(Live \cap N) = 0
    BY <2>2, FS_EmptySet
  <2> QED
    BY <1>3, <1>5, <1>7, <2>1, <2>3, <2>4
<1>9. Idle' = Idle /\ Waiting' \subseteq Waiting
  BY <1>4, <1>6 DEF Idle, Waiting, None
<1>10. TypeOK'
  <2>1. threads' \in [Slots -> Tids]
    <3>1. \A k \in 1..s : new[k] \in Tids
      BY <1>1, <1>4 DEF None
    <3>2. \A i \in Slots : i \in thread_count + 1 .. thread_count + s
                           => i - thread_count \in 1..s
      BY <1>3 DEF TypeOK, Slots
    <3> QED BY <1>1, <3>1, <3>2 DEF TypeOK
  <2> QED
    BY <1>1, <1>2, <1>3, <1>6, <2>1 DEF TypeOK
<1>11. IdleInv' /\ CountInv' /\ MarkInv' /\ AwakeInv'
  <2>1. thread_count = Cardinality(Live)
    BY <1>2 DEF CountInv
  <2> QED
    BY <1>1, <1>2, <1>3, <1>8, <1>9, <2>1
       DEF IdleInv, CountInv, MarkInv, AwakeInv, TypeOK
<1>12. NoNullDequeue'
  BY <1>6 DEF NoNullDequeue
<1>13. NoLostWakeup'
  <2>1. CASE Waiting = {}
    <3>1. thread_count = Cardinality(Live) /\ thread_count >= MinThreads
      BY <1>2 DEF CountInv, MarkInv, TypeOK
    <3>a. Live # {}
      BY <3>1, FS_EmptySet
    <3>2. PICK t \in Live : TRUE
      BY <3>a
    <3>3. t \in Live' /\ t \notin Waiting'
      BY <1>7, <1>9, <2>1, <3>2
    <3> QED BY <3>3 DEF NoLostWakeup, Waiting, Live
  <2>2. CASE Waiting # {}
    <3>1. PICK w \in Waiting : sig = {w}
      BY <1>a, <2>2
    <3>2. w \in Live' /\ wpc'[w] = "woken"
      BY <1>6, <1>7, <3>1 DEF Waiting, Live, Gone
    <3> QED BY <3>2 DEF NoLostWakeup
  <2> QED BY <2>1, <2>2
<1> QED
  BY <1>10, <1>11, <1>12, <1>13

\* A shrink request with nobody on the way to the lock: if an earlier request
\* is pending nobody is idle, so the new one asks for nothing; otherwise it
\* asks for no more than the excess.  Everyone who waits is woken.
LEMMA ShrinkStep ==
    ASSUME PoolInv, PromptWakeups, threadpool_maybe_shrink
    PROVE  PoolInv'
<1> USE PoolAssumption DEF PoolInv
<1> DEFINE excess  == thread_count - MinThreads
           to_mark == Minimum(excess, idle_count)
<1>1. /\ queue = <<>> /\ ~shutdown /\ to_mark > 0
      /\ \A t \in Tids : wpc[t] # "woken"
      /\ marked_exits' = marked_exits + to_mark
      /\ wpc' = Signalled(Waiting)
      /\ UNCHANGED <<queue, idle_count, thread_count, shutdown, threads, job,
                     mgr, join_n>>
  BY DEF threadpool_maybe_shrink
<1>2. Idle' = Idle /\ Live' = Live /\ Waiting' = {}
  BY <1>1, WakingKeepsCounts
<1>3. marked_exits = 0
  <2>1. SUFFICES ASSUME marked_exits # 0 PROVE FALSE
    OBVIOUS
  <2>2. Waiting = {}
    BY <2>1 DEF AwakeInv, TypeOK
  <2>3. Idle = {}
    BY <1>1, <2>2 DEF Idle, Waiting
  <2>4. idle_count = 0
    BY <2>3, FS_EmptySet DEF IdleInv
  <2> QED
    BY <1>1, <2>4 DEF Minimum, TypeOK
<1>4. to_mark \in Nat /\ to_mark <= excess
  BY <1>1 DEF Minimum, TypeOK
<1>5. wpc' \in [Tids -> Places]
  BY <1>1 DEF TypeOK, Signalled, Places
<1> HIDE DEF to_mark
<1>6. TypeOK'
  BY <1>1, <1>3, <1>4, <1>5 DEF TypeOK
<1>7. IdleInv' /\ CountInv' /\ MarkInv' /\ AwakeInv'
  BY <1>1, <1>2, <1>3, <1>4 DEF IdleInv, CountInv, MarkInv, AwakeInv, TypeOK
<1>8. NoNullDequeue' /\ NoLostWakeup'
  BY <1>1 DEF NoNullDequeue, NoLostWakeup, Signalled, TypeOK
<1> QED
  BY <1>6, <1>7, <1>8

\* The shutdown broadcast wakes everyone; a job still queued has a live worker.
LEMMA DestroyStep ==
    ASSUME PoolInv, DestroySignal \/ DestroySnapshot \/ DestroyFree
    PROVE  PoolInv'
<1> USE PoolAssumption DEF PoolInv
<1>1. CASE DestroySignal
  <2>1. wpc' = Signalled(Waiting) /\ shutdown' = TRUE
        /\ UNCHANGED <<queue, idle_count, marked_exits, thread_count>>
    BY <1>1 DEF DestroySignal
  <2>2. Idle' = Idle /\ Live' = Live /\ Waiting' = {}
    BY <2>1, WakingKeepsCounts
  <2>3. wpc' \in [Tids -> Places]
    BY <2>1 DEF TypeOK, Signalled, Places
  <2>4. TypeOK'
    BY <1>1, <2>3 DEF DestroySignal, TypeOK
  <2>5. IdleInv' /\ CountInv' /\ MarkInv' /\ AwakeInv'
    BY <2>1, <2>2 DEF IdleInv, CountInv, MarkInv, AwakeInv
  <2>6. NoNullDequeue'
    BY <2>1 DEF NoNullDequeue, Signalled, TypeOK
  <2>7. NoLostWakeup'
    <3> SUFFICES ASSUME queue' # <<>>
                 PROVE  \E u \in Live' : wpc'[u] # "waiting"
      BY DEF NoLostWakeup
    <3>1. Live # {}
      BY <2>1 DEF NoLostWakeup
    <3> QED
      BY <2>2, <3>1 DEF Waiting, Live
  <2> QED BY <2>4, <2>5, <2>6, <2>7
<1>2. CASE DestroySnapshot \/ DestroyFree
  <2>1. /\ UNCHANGED <<wpc, idle_count, marked_exits, thread_count, shutdown,
                       threads, job>>
        /\ queue' \in {queue, <<>>}
        /\ mgr' \in {"join", "freed"} /\ join_n' \in {join_n, thread_count}
    BY <1>2 DEF DestroySnapshot, DestroyFree
  <2>2. queue' \in Seq(Conns)
    <3>1. queue \in Seq(Conns)
      BY DEF TypeOK
    <3>2. CASE queue' = <<>>
      BY <3>2
    <3>3. CASE queue' = queue
      BY <3>1, <3>3
    <3> QED BY <2>1, <3>2, <3>3
  <2>3. TypeOK'
    BY <2>1, <2>2 DEF TypeOK
  <2>4. Idle' = Idle /\ Live' = Live /\ Waiting' = Waiting
    BY <2>1 DEF Idle, Live, Waiting
  <2>5. IdleInv' /\ MarkInv' /\ AwakeInv' /\ NoNullDequeue'
    BY <2>1, <2>4 DEF IdleInv, MarkInv, AwakeInv, NoNullDequeue
  <2>6. NoLostWakeup'
    BY <2>1, <2>4 DEF NoLostWakeup
  <2>7. CountInv'
    BY <2>1, <2>4 DEF CountInv
  <2> QED BY <2>3, <2>5, <2>6, <2>7
<1> QED
  BY <1>1, <1>2

-------------------------------------------------------------------------------
(* The theorems. *)

LEMMA NextPoolInv ==
    ASSUME PoolInv, PromptWakeups, [Next]_poolVars
    PROVE  PoolInv'
<1>1. CASE UNCHANGED poolVars
  BY <1>1 DEF poolVars, PoolInv, TypeOK, IdleInv, CountInv, MarkInv, AwakeInv,
     NoNullDequeue, NoLostWakeup, Idle, Live, Waiting
<1>2. ASSUME NEW t \in Tids, WorkerEnter(t) PROVE PoolInv'
  <2>1. CASE MayWait
    BY <1>2, <2>1, WaitStep DEF WorkerEnter
  <2>2. CASE ~MayWait
    BY <1>2, <2>2, ProceedStep DEF WorkerEnter
  <2> QED BY <2>1, <2>2
<1>3. ASSUME NEW t \in Tids, WorkerResume(t) PROVE PoolInv'
  <2>1. CASE MayWait
    BY <1>3, <2>1, WaitStep DEF WorkerResume
  <2>2. CASE ~MayWait
    BY <1>3, <2>2, ProceedStep DEF WorkerResume
  <2> QED BY <2>1, <2>2
<1>4. ASSUME NEW t \in Tids, SpuriousWakeup(t) PROVE PoolInv'
  <2>1. t \in Live /\ t \in Idle
    BY <1>4 DEF SpuriousWakeup, Live, Idle, Gone
  <2>2. job' \in [Tids -> Conns \cup {NoConn}]
    BY <1>4 DEF SpuriousWakeup, PoolInv, TypeOK
  <2> QED
    BY <1>4, <2>1, <2>2, MoveStep DEF SpuriousWakeup, Places, Gone
<1>5. ASSUME NEW t \in Tids, WorkerFinish(t) PROVE PoolInv'
  <2>1. t \in Live /\ t \notin Idle
    BY <1>5 DEF WorkerFinish, Live, Idle, Gone
  <2>2. job' \in [Tids -> Conns \cup {NoConn}]
    BY <1>5 DEF WorkerFinish, PoolInv, TypeOK
  <2> QED
    BY <1>5, <2>1, <2>2, MoveStep DEF WorkerFinish, Places, Gone
<1>6. ASSUME NEW t \in Tids, WorkerPeek(t) PROVE PoolInv'
  <2>1. t \in Live /\ t \notin Idle
    BY <1>6 DEF WorkerPeek, Live, Idle, Gone
  <2>2. job' \in [Tids -> Conns \cup {NoConn}]
    BY <1>6 DEF WorkerPeek, PoolInv, TypeOK
  <2>3. PICK pc \in {"start", "recheck"} : wpc' = [wpc EXCEPT ![t] = pc]
    BY <1>6 DEF WorkerPeek
  <2> QED
    BY <1>6, <2>1, <2>2, <2>3, MoveStep DEF WorkerPeek, Places, Gone
<1>7. ASSUME NEW t \in Tids, WorkerRecheck(t) PROVE PoolInv'
  <2>1. CASE ExitMarked(t)
    BY <1>7, <2>1, RecheckExitStep DEF WorkerRecheck
  <2>2. CASE ~ExitMarked(t)
    <3>1. t \in Live /\ t \notin Idle
      BY <1>7 DEF WorkerRecheck, Live, Idle, Gone
    <3>2. job' \in [Tids -> Conns \cup {NoConn}]
      BY <1>7, <2>2 DEF WorkerRecheck, PoolInv, TypeOK
    <3> QED
      BY <1>7, <2>2, <3>1, <3>2, MoveStep DEF WorkerRecheck, Places, Gone
  <2> QED BY <2>1, <2>2
<1>8. ASSUME Server PROVE PoolInv'
  BY <1>8, SubmitStep, ShrinkStep, DestroyStep DEF Server
<1> QED
  BY <1>1, <1>2, <1>3, <1>4, <1>5, <1>6, <1>7, <1>8
     DEF Next, Worker, Halt

\* The pool's bookkeeping is right in every reachable state: PoolInv is an
\* invariant of worker(), submit, maybe_shrink and destroy together.
THEOREM PoolCorrect == ASSUME PromptWakeups PROVE Spec => []PoolInv
<1>1. Init => PoolInv
  BY InitPoolInv
<1>2. PoolInv /\ [Next]_poolVars => PoolInv'
  BY NextPoolInv
<1> QED
  BY <1>1, <1>2, PTL DEF Spec

\* The fields keep their types and ranges.
THEOREM PoolTypes == ASSUME PromptWakeups PROVE Spec => []TypeOK
<1>1. PoolInv => TypeOK
  BY DEF PoolInv
<1> QED
  BY <1>1, PoolCorrect, PTL

\* No worker ever dequeues from an empty queue.
THEOREM NeverDequeuesNull == ASSUME PromptWakeups PROVE Spec => []NoNullDequeue
<1>1. PoolInv => NoNullDequeue
  BY DEF PoolInv
<1> QED
  BY <1>1, PoolCorrect, PTL

\* No submitted connection is left to a sleeping pool.
THEOREM NeverAsleepOnWork == ASSUME PromptWakeups PROVE Spec => []NoLostWakeup
<1>1. PoolInv => NoLostWakeup
  BY DEF PoolInv
<1> QED
  BY <1>1, PoolCorrect, PTL

\* thread_count counts the live workers and respects min_threads.
THEOREM CountsWorkers == ASSUME PromptWakeups PROVE Spec => []CountExact
<1>1. PoolInv => CountExact
  BY PoolAssumption DEF PoolInv, CountExact, CountInv, MarkInv, TypeOK
<1> QED
  BY <1>1, PoolCorrect, PTL

-------------------------------------------------------------------------------
(* Shutdown. *)

\* A step of a worker keeps threads[] and the snapshot, makes nobody "none" and
\* brings nobody to life, and never raises the counter.
LEMMA WorkerKeepsJoin ==
    ASSUME TypeOK, JoinInv, NEW t \in Tids, Worker(t)
    PROVE  JoinInv'
<1>1. mgr # "freed" /\ mgr' = mgr /\ threads' = threads /\ join_n' = join_n
  BY DEF Worker, WorkerEnter, WorkerResume, SpuriousWakeup, WorkerFinish,
     WorkerPeek, WorkerRecheck, Running
<1>2. wpc[t] # "none"
  BY DEF Worker, WorkerEnter, WorkerResume, SpuriousWakeup, WorkerFinish,
     WorkerPeek, WorkerRecheck
<1>3. \E pc \in Places \ {"none"} : wpc' = [wpc EXCEPT ![t] = pc]
  BY DEF Worker, WorkerEnter, WorkerResume, SpuriousWakeup, WorkerFinish,
     WorkerPeek, WorkerRecheck, Proceed, ExitAtShutdown, ExitMarked, Dequeue, Places
<1>4. thread_count' \in Int /\ thread_count' <= thread_count
  BY DEF Worker, WorkerEnter, WorkerResume, SpuriousWakeup, WorkerFinish,
     WorkerPeek, WorkerRecheck, Proceed, ExitAtShutdown, ExitMarked, Dequeue, TypeOK
<1>5. PICK pc \in Places \ {"none"} : wpc' = [wpc EXCEPT ![t] = pc]
  BY <1>3
<1>6. Slots \subseteq Tids
  BY PoolAssumption DEF Slots, Tids
<1>7. \A x \in Tids : (wpc'[x] = "none") <=> (wpc[x] = "none")
  BY <1>2, <1>5 DEF TypeOK
<1>8. thread_count \in Int /\ join_n \in Int
  BY DEF TypeOK
<1>9. mgr \in {"join", "freed"} => thread_count' <= join_n
  BY <1>4, <1>8 DEF JoinInv
<1> QED
  BY <1>1, <1>6, <1>7, <1>9 DEF JoinInv

\* A new worker overwrites a slot of threads[] and is not one of the first.
LEMMA SubmitKeepsJoin ==
    ASSUME TypeOK, JoinInv, NEW c \in Conns, threadpool_submit(c)
    PROVE  JoinInv'
<1>1. mgr = "run" /\ mgr' = "run"
  BY DEF threadpool_submit
<1>2. PICK sig \in (IF Waiting = {} THEN {{}} ELSE {{w} : w \in Waiting}),
           s \in 0..Spawn(Len(queue) + 1) :
        \E new \in [1..s -> {t \in Tids : wpc[t] = "none"}] :
          /\ \A i, j \in 1..s : new[i] = new[j] => i = j
          /\ wpc' = [t \in Tids |-> IF \E i \in 1..s : new[i] = t
                                    THEN "start" ELSE Signalled(sig)[t]]
          /\ threads' = [i \in Slots |->
                            IF i \in thread_count + 1 .. thread_count + s
                            THEN new[i - thread_count] ELSE threads[i]]
          /\ thread_count' = thread_count + s
  BY DEF threadpool_submit
<1>3. PICK new \in [1..s -> {t \in Tids : wpc[t] = "none"}] :
          /\ \A i, j \in 1..s : new[i] = new[j] => i = j
          /\ wpc' = [t \in Tids |-> IF \E i \in 1..s : new[i] = t
                                    THEN "start" ELSE Signalled(sig)[t]]
          /\ threads' = [i \in Slots |->
                            IF i \in thread_count + 1 .. thread_count + s
                            THEN new[i - thread_count] ELSE threads[i]]
          /\ thread_count' = thread_count + s
  BY <1>2
<1>4. Slots \subseteq Tids
  BY PoolAssumption DEF Slots, Tids
<1>5. sig \subseteq Waiting
  BY <1>2
<1>6. \A t \in Tids : wpc[t] # "none" => wpc'[t] # "none"
  BY <1>3 DEF Signalled
<1>7. \A t \in Slots : wpc'[t] # "none"
  BY <1>4, <1>6 DEF JoinInv
<1>8. thread_count \in Nat /\ s \in Nat /\ thread_count + s <= MaxThreads
  BY <1>2, PoolAssumption DEF TypeOK, Spawn, Minimum
<1>9. ASSUME \A i \in Slots : threads'[i] = i
      PROVE  \A t \in Tids \ Slots : wpc'[t] = "none"
  <2>1. s = 0
    <3>1. SUFFICES ASSUME s # 0 PROVE FALSE
      OBVIOUS
    <3>2. thread_count + 1 \in Slots /\ 1 \in 1..s
      BY <1>8, <3>1, PoolAssumption DEF Slots
    <3>3. threads'[thread_count + 1] = new[1]
      BY <1>3, <1>8, <3>2
    <3>4. new[1] \in Slots /\ wpc[new[1]] = "none"
      BY <1>3, <1>9, <3>2, <3>3
    <3> QED BY <3>4 DEF JoinInv
  <2>2. threads' = [i \in Slots |-> threads[i]]
    BY <1>3, <1>8, <2>1
  <2>3. \A i \in Slots : threads[i] = i
    BY <1>9, <2>2
  <2>4. \A t \in Tids \ Slots : wpc[t] = "none"
    BY <2>3 DEF JoinInv
  <2>5. \A t \in Tids \ Slots : wpc'[t] = Signalled(sig)[t]
    BY <1>3, <2>1
  <2> QED
    BY <1>5, <2>4, <2>5 DEF Signalled, Waiting
<1> QED
  BY <1>1, <1>7, <1>9 DEF JoinInv

LEMMA NextJoinInv ==
    ASSUME TypeOK, JoinInv, [Next]_poolVars
    PROVE  JoinInv'
<1>1. CASE UNCHANGED poolVars
  BY <1>1 DEF poolVars, JoinInv
<1>2. ASSUME NEW t \in Tids, Worker(t) PROVE JoinInv'
  BY <1>2, WorkerKeepsJoin
<1>3. ASSUME NEW c \in Conns, threadpool_submit(c) PROVE JoinInv'
  BY <1>3, SubmitKeepsJoin
<1>4. Slots \subseteq Tids
  BY PoolAssumption DEF Slots, Tids
<1>5. CASE threadpool_maybe_shrink \/ DestroySignal
  <2>1. wpc' = Signalled(Waiting) /\ threads' = threads
    BY <1>5 DEF threadpool_maybe_shrink, DestroySignal
  <2>2. mgr' \in {"run", "snapshot"}
    BY <1>5 DEF threadpool_maybe_shrink, DestroySignal
  <2>3. \A t \in Tids : (wpc'[t] = "none") <=> (wpc[t] = "none")
    BY <2>1 DEF Signalled, Waiting
  <2> QED
    BY <1>4, <2>1, <2>2, <2>3 DEF JoinInv
<1>6. CASE DestroySnapshot
  <2>1. mgr' = "join" /\ join_n' = thread_count /\ thread_count' = thread_count
        /\ wpc' = wpc /\ threads' = threads
    BY <1>6 DEF DestroySnapshot
  <2>2. thread_count \in Int
    BY DEF TypeOK
  <2> QED
    BY <2>1, <2>2 DEF JoinInv
<1>7. CASE DestroyFree
  BY <1>7 DEF DestroyFree, JoinInv
<1> QED
  BY <1>1, <1>2, <1>3, <1>5, <1>6, <1>7 DEF Next, Server, Halt

\* threadpool_destroy frees the pool only when every worker has returned, as
\* long as nobody left by shrinking before.
THEOREM DestroyWaits == ASSUME PromptWakeups PROVE Spec => []DestroyJoinsAll
<1>1. Init => JoinInv
  <2>1. Slots \subseteq Tids /\ \A t \in Tids : t \in Slots <=> t <= MaxThreads
    BY PoolAssumption DEF Slots, Tids
  <2> QED
    BY <2>1 DEF Init, threadpool_create, JoinInv
<1>2. PoolInv /\ JoinInv /\ [Next]_poolVars => JoinInv'
  BY NextJoinInv DEF PoolInv
<1>3. PoolInv /\ JoinInv => DestroyJoinsAll
  <2>1. SUFFICES ASSUME PoolInv, JoinInv, mgr = "freed", NeverShrunk
                 PROVE  Live = {}
    BY DEF DestroyJoinsAll
  <2>2. join_n = MaxThreads
    BY <2>1, PoolAssumption DEF PoolInv, JoinInv, TypeOK, NeverShrunk
  <2>3. \A t \in Slots : wpc[t] = "exited"
    BY <2>1, <2>2 DEF JoinInv, NeverShrunk, Slots
  <2>4. \A t \in Tids \ Slots : wpc[t] = "none"
    BY <2>1 DEF JoinInv, NeverShrunk
  <2> QED
    BY <2>3, <2>4 DEF Live, Gone
<1> QED
  BY <1>1, <1>2, <1>3, PoolCorrect, PTL DEF Spec

(****************************** The event loop *****************************)

(***************************************************************************)
(* The four places a connection can be in, without counting.               *)
(***************************************************************************)
InBatch(c)  == \E e \in events : e[1] = c
OnQueue(c)  == \E i \in 1..Len(queue) : queue[i] = c
Holds(t, c) == wpc[t] = "handling" /\ job[t] = c /\ hpc[t] # "left"
Held(c)     == \E t \in Tids : Holds(t, c)

\* No connection is twice in one place, ...
Single ==
    /\ \A e, f \in events : e[1] = f[1] => e = f
    /\ \A i, j \in 1..Len(queue) : queue[i] = queue[j] => i = j
    /\ \A t, s \in Tids : \A c \in Conns : Holds(t, c) /\ Holds(s, c) => t = s

\* ... none is in two, a freed one is in none, ...
Apart ==
    \A c \in Conns :
        /\ c \in armed => ~InBatch(c) /\ ~OnQueue(c) /\ ~Held(c)
        /\ InBatch(c) => ~OnQueue(c) /\ ~Held(c)
        /\ OnQueue(c) => ~Held(c)
        /\ c \in freed => c \notin armed /\ ~InBatch(c) /\ ~OnQueue(c) /\ ~Held(c)

\* ... and while the server runs one that is to be looked at again is in one.
Somewhere ==
    ~shutdown => \A c \in accepted \ (freed \cup closing) :
                     c \in armed \/ InBatch(c) \/ OnQueue(c) \/ Held(c)

\* What is in the pool was accepted; a worker outside handle_client is at its
\* beginning; the queue is dropped only at shutdown.
Handling ==
    /\ \A i \in 1..Len(queue) : queue[i] \in accepted
    /\ \A t \in Tids : IF wpc[t] = "handling" THEN job[t] \in accepted
                                              ELSE hpc[t] = "enter"
    /\ mgr # "run" => shutdown

\* What the peers may still send fits.
Budget == \A c \in Conns : unread[c] + sends <= MaxSends

LoopTypes ==
    /\ armed \subseteq accepted /\ closing \subseteq accepted
    /\ freed \subseteq accepted /\ accepted \subseteq Conns
    /\ events \subseteq accepted \X BOOLEAN
    /\ hpc \in [Tids -> {"enter", "read", "left"}]
    /\ full \subseteq accepted /\ hup \subseteq accepted
    /\ sends \in 0..MaxSends /\ unread \in [Conns -> 0..MaxSends]

LoopInv == PoolInv /\ LoopTypes /\ Handling /\ Budget /\ Single /\ Apart /\ Somewhere

Ownership == Single /\ Apart /\ Somewhere

-------------------------------------------------------------------------------
(* Counting owners. *)

\* A set without two elements has one or none.
LEMMA AtMostOne ==
    ASSUME NEW S, \A x, y \in S : x = y
    PROVE  Cardinality(S) = IF S = {} THEN 0 ELSE 1
<1>1. CASE S = {}
  BY <1>1, FS_EmptySet
<1>2. CASE S # {}
  <2>1. PICK x \in S : TRUE
    BY <1>2
  <2>2. S = {x}
    BY <2>1
  <2> QED BY <1>2, <2>2, FS_Singleton
<1> QED
  BY <1>1, <1>2

LEMMA OwnersCounted ==
    ASSUME Single, NEW c \in Conns
    PROVE  Owners(c) = (IF InBatch(c) THEN 1 ELSE 0) + (IF OnQueue(c) THEN 1 ELSE 0)
                       + (IF Held(c) THEN 1 ELSE 0) + (IF c \in armed THEN 1 ELSE 0)
<1>1. Cardinality(EventsOf(c)) = IF InBatch(c) THEN 1 ELSE 0
  <2>1. \A e, f \in EventsOf(c) : e = f
    BY DEF Single, EventsOf
  <2>2. EventsOf(c) = {} <=> ~InBatch(c)
    BY DEF EventsOf, InBatch
  <2> QED BY <2>1, <2>2, AtMostOne
<1>2. Cardinality(JobsOf(c)) = IF OnQueue(c) THEN 1 ELSE 0
  <2>1. \A i, j \in JobsOf(c) : i = j
    BY DEF Single, JobsOf
  <2>2. JobsOf(c) = {} <=> ~OnQueue(c)
    BY DEF JobsOf, OnQueue
  <2> QED BY <2>1, <2>2, AtMostOne
<1>3. Cardinality(HoldersOf(c)) = IF Held(c) THEN 1 ELSE 0
  <2>1. \A t, s \in HoldersOf(c) : t = s
    BY DEF Single, HoldersOf, Holds
  <2>2. HoldersOf(c) = {} <=> ~Held(c)
    BY DEF HoldersOf, Held, Holds
  <2> QED BY <2>1, <2>2, AtMostOne
<1> QED
  BY <1>1, <1>2, <1>3 DEF Owners

\* What the invariant says in terms of owners.
LEMMA OwnershipCounted ==
    ASSUME LoopInv
    PROVE  ConnectionsOwned
<1> USE DEF LoopInv
<1>1. LoopTypeOK
  BY DEF LoopTypeOK, LoopTypes, PoolInv
<1>2. accepted \subseteq Conns
  BY DEF LoopTypes
<1>3. OneOwner
  BY <1>2, OwnersCounted DEF OneOwner, Apart
<1>4. NoOrphan
  BY <1>2, OwnersCounted DEF NoOrphan, Somewhere, Apart
<1> QED
  BY <1>1, <1>3, <1>4 DEF ConnectionsOwned

-------------------------------------------------------------------------------
(* Steps that move no connection between queue and workers. *)

\* The workers in handle_client stay there with their connections.
SameHands ==
    /\ UNCHANGED <<queue, hpc>>
    /\ \A t \in Tids : /\ wpc'[t] = "handling" <=> wpc[t] = "handling"
                       /\ wpc[t] = "handling" => job'[t] = job[t]

LEMMA SameHandsKeep ==
    ASSUME SameHands
    PROVE  /\ \A t \in Tids : \A c : Holds(t, c)' <=> Holds(t, c)
           /\ \A c : (Held(c)' <=> Held(c)) /\ (OnQueue(c)' <=> OnQueue(c))
  BY DEF SameHands, Holds, Held, OnQueue

LEMMA PoolKeepsOwnership ==
    ASSUME LoopInv, SameHands, UNCHANGED loopVars, shutdown' = FALSE => ~shutdown,
           mgr' # "run" => shutdown', shutdown' \in BOOLEAN
    PROVE  LoopTypes' /\ Handling' /\ Budget' /\ Ownership'
<1> USE DEF LoopInv, loopVars
<1>1. LoopTypes' /\ Budget'
  BY DEF LoopTypes, Budget
<1>2. Handling'
  BY DEF Handling, SameHands
<1>3. \A c : InBatch(c)' <=> InBatch(c)
  BY DEF InBatch
<1>4. Single'
  BY SameHandsKeep DEF Single, SameHands
<1>5. Apart'
  BY <1>3, SameHandsKeep DEF Apart
<1>6. Somewhere'
  BY <1>3, SameHandsKeep DEF Somewhere
<1> QED
  BY <1>1, <1>2, <1>4, <1>5, <1>6 DEF Ownership

\* The head of the queue goes into the hands of one worker.
LEMMA TakeKeepsOwnership ==
    ASSUME LoopInv, NEW t \in Tids, wpc[t] # "handling", queue # <<>>,
           NEW h, h = Head(queue), queue' = Tail(queue),
           job' = [job EXCEPT ![t] = h], wpc' = [wpc EXCEPT ![t] = "handling"],
           UNCHANGED loopVars, UNCHANGED <<shutdown, mgr>>
    PROVE  LoopTypes' /\ Handling' /\ Budget' /\ Ownership'
<1> DEFINE n == Len(queue)
<1> USE DEF LoopInv, loopVars
<1>1. /\ queue \in Seq(Conns) /\ n \in Nat \ {0} /\ h = queue[1]
      /\ Len(queue') = n - 1 /\ \A i \in 1..n - 1 : queue'[i] = queue[i + 1]
  BY DEF PoolInv, TypeOK
<1>2. h \in accepted /\ h \in Conns /\ OnQueue(h)
  BY <1>1 DEF Handling, OnQueue, LoopTypes
<1>3. LoopTypes' /\ Budget'
  BY DEF LoopTypes, Budget
<1>4. /\ wpc'[t] = "handling" /\ job'[t] = h /\ hpc[t] = "enter"
      /\ \A s \in Tids \ {t} : wpc'[s] = wpc[s] /\ job'[s] = job[s]
  BY DEF PoolInv, TypeOK, Handling
<1>5. Handling'
  BY <1>1, <1>2, <1>4 DEF Handling
<1>6. /\ \A c : Holds(t, c)' <=> c = h
      /\ \A s \in Tids \ {t} : \A c : Holds(s, c)' <=> Holds(s, c)
      /\ \A c : ~Holds(t, c)
  BY <1>4 DEF Holds
<1>7. \A c : (Held(c)' <=> Held(c) \/ c = h) /\ (InBatch(c)' <=> InBatch(c))
  BY <1>6 DEF Held, InBatch
<1>8. \A c : OnQueue(c)' <=> OnQueue(c) /\ c # h
  <2>1. ASSUME NEW c, NEW i \in 1..n - 1, queue'[i] = c PROVE OnQueue(c) /\ c # h
    <3>1. i + 1 \in 1..n /\ queue[i + 1] = c /\ i + 1 # 1 /\ 1 \in 1..n
      BY <1>1, <2>1
    <3> QED BY <1>1, <3>1 DEF OnQueue, Single
  <2>2. ASSUME NEW c, NEW i \in 1..n, queue[i] = c, c # h
        PROVE  \E k \in 1..n - 1 : queue'[k] = c
    <3>1. i - 1 \in 1..n - 1 /\ (i - 1) + 1 = i
      BY <1>1, <2>2
    <3> QED BY <1>1, <2>2, <3>1
  <2>3. \A c : OnQueue(c)' <=> \E k \in 1..n - 1 : queue'[k] = c
    BY <1>1 DEF OnQueue
  <2>4. \A c : OnQueue(c) <=> \E k \in 1..n : queue[k] = c
    BY DEF OnQueue
  <2> HIDE DEF n
  <2> QED BY <2>1, <2>2, <2>3, <2>4
<1>9. Single'
  <2>1. \A i, j \in 1..Len(queue') : queue'[i] = queue'[j] => i = j
    <3> SUFFICES ASSUME NEW i \in 1..n - 1, NEW j \in 1..n - 1, queue'[i] = queue'[j]
                 PROVE  i = j
      BY <1>1
    <3>1. i + 1 \in 1..n /\ j + 1 \in 1..n /\ queue[i + 1] = queue[j + 1]
      BY <1>1
    <3>2. i + 1 = j + 1
      BY <3>1 DEF Single
    <3> QED BY <1>1, <3>2
  <2>2. ~Held(h)
    BY <1>2 DEF Apart
  <2>3. \A r, s \in Tids : \A c \in Conns : Holds(r, c)' /\ Holds(s, c)' => r = s
    BY <1>6, <2>2 DEF Single, Held
  <2> QED BY <2>1, <2>3 DEF Single
<1>10. Apart'
  BY <1>2, <1>7, <1>8 DEF Apart
<1>11. Somewhere'
  BY <1>7, <1>8 DEF Somewhere
<1> QED
  BY <1>3, <1>5, <1>9, <1>10, <1>11 DEF Ownership

\* A worker outside handle_client moves, without taking a job.
LEMMA MoveKeepsOwnership ==
    ASSUME LoopInv, NEW t \in Tids, wpc[t] # "handling",
           NEW pc \in Places \ {"handling"}, wpc' = [wpc EXCEPT ![t] = pc],
           UNCHANGED <<queue, job, shutdown, mgr>>, UNCHANGED loopVars
    PROVE  LoopTypes' /\ Handling' /\ Budget' /\ Ownership'
<1>1. SameHands
  BY DEF SameHands, loopVars, LoopInv, PoolInv, TypeOK
<1> QED
  BY <1>1, PoolKeepsOwnership DEF LoopInv, PoolInv, TypeOK, Handling

LEMMA ProceedKeepsOwnership ==
    ASSUME LoopInv, NEW t \in Tids, wpc[t] # "handling", Proceed(t),
           UNCHANGED <<shutdown, mgr>>, UNCHANGED loopVars
    PROVE  LoopTypes' /\ Handling' /\ Budget' /\ Ownership'
<1>1. CASE /\ wpc' = [wpc EXCEPT ![t] = "exited"] /\ UNCHANGED <<queue, job>>
  BY <1>1, MoveKeepsOwnership DEF Places
<1>2. CASE /\ queue = <<>> /\ wpc' = [wpc EXCEPT ![t] = "fault"]
           /\ UNCHANGED <<queue, job>>
  BY <1>2, MoveKeepsOwnership DEF Places
<1>3. CASE /\ queue # <<>> /\ job' = [job EXCEPT ![t] = Head(queue)]
           /\ queue' = Tail(queue) /\ wpc' = [wpc EXCEPT ![t] = "handling"]
  BY <1>3, TakeKeepsOwnership
<1> QED
  BY <1>1, <1>2, <1>3 DEF Proceed, ExitAtShutdown, ExitMarked, Dequeue

\* The server thread wakes waiting workers.
LEMMA SignalKeepsOwnership ==
    ASSUME LoopInv, NEW woken \in SUBSET Waiting, wpc' = Signalled(woken),
           UNCHANGED <<queue, job>>, UNCHANGED loopVars,
           shutdown' = FALSE => ~shutdown, mgr' # "run" => shutdown',
           shutdown' \in BOOLEAN
    PROVE  LoopTypes' /\ Handling' /\ Budget' /\ Ownership'
<1>1. SameHands
  BY DEF SameHands, loopVars, Signalled, Waiting
<1> QED
  BY <1>1, PoolKeepsOwnership

\* The pool is released with the jobs that are left in it.
LEMMA FreeKeepsOwnership ==
    ASSUME LoopInv, DestroyFree, UNCHANGED loopVars
    PROVE  LoopTypes' /\ Handling' /\ Budget' /\ Ownership'
<1> USE DEF LoopInv, loopVars
<1>1. /\ queue' = <<>> /\ shutdown' /\ mgr' = "freed" /\ Len(queue') = 0
      /\ UNCHANGED <<wpc, job, shutdown>>
  BY DEF DestroyFree, Handling
<1>2. LoopTypes' /\ Budget'
  BY DEF LoopTypes, Budget
<1>3. Handling'
  BY <1>1 DEF Handling
<1>4. /\ \A c : ~OnQueue(c)' /\ (InBatch(c)' <=> InBatch(c)) /\ (Held(c)' <=> Held(c))
      /\ \A s \in Tids : \A c : Holds(s, c)' <=> Holds(s, c)
  BY <1>1 DEF OnQueue, InBatch, Held, Holds
<1>5. Single'
  BY <1>1, <1>4 DEF Single
<1>6. Apart'
  BY <1>4 DEF Apart
<1>7. Somewhere'
  BY <1>1 DEF Somewhere
<1> QED
  BY <1>2, <1>3, <1>5, <1>6, <1>7 DEF Ownership

LEMMA PoolStepKeepsOwnership ==
    ASSUME LoopInv, PoolStep
    PROVE  LoopTypes' /\ Handling' /\ Budget' /\ Ownership'
<1> DEFINE Goal == LoopTypes' /\ Handling' /\ Budget' /\ Ownership'
<1> USE DEF LoopInv
<1>0. UNCHANGED loopVars /\ shutdown \in BOOLEAN /\ (mgr # "run" => shutdown)
  BY DEF PoolStep, PoolInv, TypeOK, Handling
<1>1. ASSUME threadpool_maybe_shrink PROVE Goal
  BY <1>0, <1>1, SignalKeepsOwnership DEF threadpool_maybe_shrink
<1>2. ASSUME DestroySignal PROVE Goal
  BY <1>0, <1>2, SignalKeepsOwnership DEF DestroySignal
<1>3. ASSUME DestroySnapshot PROVE Goal
  <2>1. wpc' = Signalled({})
    BY <1>3 DEF DestroySnapshot, Signalled, PoolInv, TypeOK
  <2>2. UNCHANGED <<queue, job, shutdown>> /\ shutdown
    BY <1>0, <1>3 DEF DestroySnapshot
  <2> QED BY <1>0, <2>1, <2>2, SignalKeepsOwnership
<1>4. ASSUME DestroyFree PROVE Goal
  BY <1>0, <1>4, FreeKeepsOwnership
<1>5. ASSUME NEW t \in Tids, WorkerEnter(t) PROVE Goal
  <2>1. wpc[t] # "handling" /\ UNCHANGED <<shutdown, mgr>>
    BY <1>5 DEF WorkerEnter
  <2>2. CASE wpc' = [wpc EXCEPT ![t] = "waiting"] /\ UNCHANGED <<queue, job>>
    BY <1>0, <2>1, <2>2, MoveKeepsOwnership DEF Places
  <2>3. CASE Proceed(t)
    BY <1>0, <2>1, <2>3, ProceedKeepsOwnership
  <2> QED BY <1>5, <2>2, <2>3 DEF WorkerEnter
<1>6. ASSUME NEW t \in Tids, WorkerResume(t) PROVE Goal
  <2>1. wpc[t] # "handling" /\ UNCHANGED <<shutdown, mgr>>
    BY <1>6 DEF WorkerResume
  <2>2. CASE wpc' = [wpc EXCEPT ![t] = "waiting"] /\ UNCHANGED <<queue, job>>
    BY <1>0, <2>1, <2>2, MoveKeepsOwnership DEF Places
  <2>3. CASE Proceed(t)
    BY <1>0, <2>1, <2>3, ProceedKeepsOwnership
  <2> QED BY <1>6, <2>2, <2>3 DEF WorkerResume
<1>7. ASSUME NEW t \in Tids, SpuriousWakeup(t) \/ WorkerPeek(t) \/ WorkerRecheck(t)
      PROVE  Goal
  <2>1. /\ wpc[t] # "handling" /\ UNCHANGED <<queue, job, shutdown, mgr>>
        /\ \E pc \in Places \ {"handling"} : wpc' = [wpc EXCEPT ![t] = pc]
    BY <1>7 DEF SpuriousWakeup, WorkerPeek, WorkerRecheck, ExitMarked, Places
  <2> QED BY <1>0, <2>1, MoveKeepsOwnership
<1> QED
  BY <1>1, <1>2, <1>3, <1>4, <1>5, <1>6, <1>7 DEF PoolStep

-------------------------------------------------------------------------------
(* Steps of the loop and of handle_client. *)

\* A new connection is nowhere else.
LEMMA AcceptKeepsOwnership ==
    ASSUME LoopInv, NEW c \in Conns, Accept(c)
    PROVE  LoopTypes' /\ Handling' /\ Budget' /\ Ownership'
<1> USE DEF LoopInv
<1>1. /\ accepted' = accepted \cup {c} /\ armed' = armed \cup {c} /\ c \notin accepted
      /\ UNCHANGED <<queue, wpc, job, hpc, events, freed, closing, shutdown, mgr,
                     full, sends, unread, hup>>
  BY DEF Accept, epoll_add, poolVars
<1>2. ~InBatch(c) /\ ~OnQueue(c) /\ ~Held(c) /\ c \notin freed
  BY <1>1 DEF InBatch, OnQueue, Held, Holds, Handling, LoopTypes
<1>3. LoopTypes' /\ Budget'
  BY <1>1 DEF LoopTypes, Budget
<1>4. Handling'
  BY <1>1 DEF Handling
<1>5. SameHands /\ \A d : InBatch(d)' <=> InBatch(d)
  BY <1>1 DEF SameHands, InBatch
<1>6. Single'
  BY <1>1, <1>5, SameHandsKeep DEF Single
<1>7. Apart'
  BY <1>1, <1>2, <1>5, SameHandsKeep DEF Apart
<1>8. Somewhere'
  BY <1>1, <1>5, SameHandsKeep DEF Somewhere
<1> QED
  BY <1>3, <1>4, <1>6, <1>7, <1>8 DEF Ownership

\* The peer's steps move no connection.
LEMMA PeerKeepsOwnership ==
    ASSUME LoopInv, NEW c \in Conns, PeerSend(c) \/ PeerClose(c)
    PROVE  LoopTypes' /\ Handling' /\ Budget' /\ Ownership'
<1> USE DEF LoopInv
<1>1. UNCHANGED <<queue, wpc, job, hpc, events, freed, closing, shutdown, mgr,
                  full, accepted, armed>>
  BY DEF PeerSend, PeerClose, poolVars
<1>2. ASSUME PeerSend(c) PROVE LoopTypes' /\ Budget'
  <2>1. /\ sends' = sends - 1 /\ sends > 0 /\ hup' = hup
        /\ unread' = [unread EXCEPT ![c] = @ + 1]
    BY <1>2 DEF PeerSend
  <2>2. sends \in 0..MaxSends /\ unread \in [Conns -> 0..MaxSends]
    BY DEF LoopTypes
  <2>3. sends' \in 0..MaxSends
    BY <2>1, <2>2, LoopAssumption
  <2>4. ASSUME NEW d \in Conns
        PROVE  unread'[d] \in 0..MaxSends /\ unread'[d] + sends' <= MaxSends
    BY <2>1, <2>2, <2>3, LoopAssumption DEF Budget
  <2>5. unread' \in [Conns -> 0..MaxSends]
    BY <2>1, <2>2, <2>4
  <2> QED BY <1>1, <2>1, <2>3, <2>4, <2>5 DEF LoopTypes, Budget
<1>3. ASSUME PeerClose(c) PROVE LoopTypes' /\ Budget'
  <2>1. hup' = hup \cup {c} /\ c \in accepted /\ UNCHANGED <<sends, unread>>
    BY <1>3 DEF PeerClose
  <2> QED BY <1>1, <2>1 DEF LoopTypes, Budget
<1>4. Handling'
  BY <1>1 DEF Handling
<1>5. SameHands /\ \A d : InBatch(d)' <=> InBatch(d)
  BY <1>1 DEF SameHands, InBatch
<1>6. Single'
  BY <1>1, <1>5, SameHandsKeep DEF Single
<1>7. Apart'
  BY <1>1, <1>5, SameHandsKeep DEF Apart
<1>8. Somewhere'
  BY <1>1, <1>5, SameHandsKeep DEF Somewhere
<1> QED
  BY <1>2, <1>3, <1>4, <1>6, <1>7, <1>8 DEF Ownership

\* epoll_wait disarms what it reports.
LEMMA WaitKeepsOwnership ==
    ASSUME LoopInv, EpollWait
    PROVE  LoopTypes' /\ Handling' /\ Budget' /\ Ownership'
<1> USE DEF LoopInv
<1>1. /\ events = {} /\ events' = {<<c, c \in hup>> : c \in Ready}
      /\ armed' = armed \ Ready /\ Ready \subseteq armed /\ armed \subseteq accepted
      /\ UNCHANGED <<queue, wpc, job, hpc, accepted, freed, closing, shutdown, mgr,
                     full, sends, unread, hup>>
  BY DEF EpollWait, poolVars, Ready, LoopTypes
<1> HIDE DEF Ready
<1>2. /\ \A e \in events' : \E c \in Ready : e = <<c, c \in hup>>
      /\ \A c \in Ready : <<c, c \in hup>> \in events'
  BY <1>1, Zenon
<1>3. \A c : <<c, c \in hup>>[1] = c /\ (c \in hup) \in BOOLEAN
  OBVIOUS
<1>4. \A e \in events' : e[1] \in Ready
  BY <1>2, <1>3, Zenon
<1>5. events' \subseteq accepted \X BOOLEAN
  <2>1. ASSUME NEW c \in Ready PROVE <<c, c \in hup>> \in accepted \X BOOLEAN
    <3>1. c \in accepted
      BY <1>1
    <3>2. \A b \in BOOLEAN : <<c, b>> \in accepted \X BOOLEAN
      BY <3>1
    <3> QED BY <1>3, <3>2, Zenon
  <2> QED BY <1>2, <2>1, Zenon
<1>6. \A c \in Ready : \E e \in events' : e[1] = c
  BY <1>2, <1>3, Zenon
<1>7. LoopTypes' /\ Budget'
  BY <1>1, <1>5 DEF LoopTypes, Budget
<1>8. Handling'
  BY <1>1 DEF Handling
<1>9. SameHands
  BY <1>1 DEF SameHands
<1>10. \A c : (InBatch(c)' <=> c \in Ready) /\ ~InBatch(c)
  BY <1>1, <1>4, <1>6 DEF InBatch
<1>11. Single'
  BY <1>1, <1>9, SameHandsKeep DEF Single
<1>12. Apart'
  BY <1>1, <1>9, <1>10, SameHandsKeep DEF Apart
<1>13. Somewhere'
  BY <1>1, <1>9, <1>10, SameHandsKeep DEF Somewhere
<1> QED
  BY <1>7, <1>8, <1>11, <1>12, <1>13 DEF Ownership

\* The event of the batch becomes a job of the queue.
LEMMA DispatchKeepsOwnership ==
    ASSUME LoopInv, NEW e \in events, Dispatch(e)
    PROVE  LoopTypes' /\ Handling' /\ Budget' /\ Ownership'
<1> USE DEF LoopInv
<1>1. /\ events' = events \ {e} /\ queue' = Append(queue, e[1])
      /\ closing \subseteq closing' /\ closing' \subseteq closing \cup {e[1]}
      /\ UNCHANGED <<job, hpc, accepted, freed, armed, shutdown, mgr,
                     full, sends, unread, hup>>
  BY DEF Dispatch, threadpool_submit
<1>2. e[1] \in accepted /\ e[1] \in Conns /\ InBatch(e[1])
  BY DEF LoopTypes, InBatch
<1>3. \A t \in Tids : wpc'[t] = "handling" <=> wpc[t] = "handling"
  BY DEF Dispatch, threadpool_submit, Signalled, Waiting
<1>4. /\ queue \in Seq(Conns) /\ Len(queue) \in Nat /\ Len(queue') = Len(queue) + 1
      /\ \A i \in 1..Len(queue) : queue'[i] = queue[i]
      /\ queue'[Len(queue) + 1] = e[1]
      /\ 1..Len(queue') = 1..Len(queue) \cup {Len(queue) + 1}
  BY <1>1, <1>2 DEF PoolInv, TypeOK
<1>5. LoopTypes' /\ Budget'
  BY <1>1, <1>2 DEF LoopTypes, Budget
<1>6. Handling'
  <2>1. \A i \in 1..Len(queue') : queue'[i] \in accepted'
    BY <1>1, <1>2, <1>4 DEF Handling
  <2> QED BY <1>1, <1>3, <2>1 DEF Handling
<1>7. /\ \A t \in Tids : \A c : Holds(t, c)' <=> Holds(t, c)
      /\ \A c : Held(c)' <=> Held(c)
  BY <1>1, <1>3 DEF Holds, Held
<1>8. \A c : (InBatch(c)' <=> InBatch(c) /\ c # e[1])
  BY <1>1 DEF InBatch, Single
<1>9. \A c : OnQueue(c)' <=> OnQueue(c) \/ c = e[1]
  BY <1>4 DEF OnQueue
<1>10. ~OnQueue(e[1]) /\ ~Held(e[1]) /\ e[1] \notin armed /\ e[1] \notin freed
  BY <1>2 DEF Apart
<1>11. Single'
  <2>1. \A i, j \in 1..Len(queue') : queue'[i] = queue'[j] => i = j
    BY <1>4, <1>10 DEF Single, OnQueue
  <2>2. \A f, g \in events' : f[1] = g[1] => f = g
    BY <1>1 DEF Single
  <2>3. \A r, s \in Tids : \A c \in Conns : Holds(r, c)' /\ Holds(s, c)' => r = s
    BY <1>7 DEF Single
  <2> QED BY <2>1, <2>2, <2>3 DEF Single
<1>12. Apart'
  <2> SUFFICES ASSUME NEW c \in Conns
               PROVE  /\ c \in armed => ~InBatch(c)' /\ ~OnQueue(c)' /\ ~Held(c)'
                      /\ InBatch(c)' => ~OnQueue(c)' /\ ~Held(c)'
                      /\ OnQueue(c)' => ~Held(c)'
                      /\ c \in freed => c \notin armed /\ ~InBatch(c)' /\ ~OnQueue(c)'
                                        /\ ~Held(c)'
    BY <1>1 DEF Apart
  <2> QED BY <1>7, <1>8, <1>9, <1>10 DEF Apart
<1>13. Somewhere'
  BY <1>1, <1>7, <1>8, <1>9 DEF Somewhere
<1> QED
  BY <1>5, <1>6, <1>11, <1>12, <1>13 DEF Ownership

\* The submission fails: back to epoll, unless the connection is closing.
LEMMA FailKeepsOwnership ==
    ASSUME LoopInv, NEW e \in events, DispatchFails(e)
    PROVE  LoopTypes' /\ Handling' /\ Budget' /\ Ownership'
<1> USE DEF LoopInv
<1>1. /\ events' = events \ {e}
      /\ closing \subseteq closing' /\ closing' \subseteq closing \cup {e[1]}
      /\ armed' = IF e[1] \in closing' THEN armed ELSE armed \cup {e[1]}
      /\ UNCHANGED <<queue, wpc, job, hpc, accepted, freed, shutdown, mgr,
                     full, sends, unread, hup>>
  BY DEF DispatchFails, epoll_rearm, poolVars
<1>2. e[1] \in accepted /\ e[1] \in Conns /\ InBatch(e[1])
  BY DEF LoopTypes, InBatch
<1>3. LoopTypes' /\ Budget'
  BY <1>1, <1>2 DEF LoopTypes, Budget
<1>4. Handling'
  BY <1>1 DEF Handling
<1>5. SameHands
  BY <1>1 DEF SameHands
<1>6. \A c : (InBatch(c)' <=> InBatch(c) /\ c # e[1])
  BY <1>1 DEF InBatch, Single
<1>7. Single'
  BY <1>1, <1>5, SameHandsKeep DEF Single
<1>8. ~OnQueue(e[1]) /\ ~Held(e[1]) /\ e[1] \notin freed
  BY <1>2 DEF Apart
<1>9. Apart'
  BY <1>1, <1>5, <1>6, <1>8, SameHandsKeep DEF Apart
<1>10. Somewhere'
  BY <1>1, <1>5, <1>6, SameHandsKeep DEF Somewhere
<1> QED
  BY <1>3, <1>4, <1>7, <1>9, <1>10 DEF Ownership

\* The worker that holds a connection gives it away, to conn_free or to epoll.
LEMMA HolderLeaves ==
    ASSUME LoopInv, NEW t \in Tids, wpc[t] = "handling", hpc[t] # "left",
           NEW k, k = job[t], hpc' = [hpc EXCEPT ![t] = "left"], UNCHANGED <<wpc, job>>
    PROVE  /\ k \in accepted /\ k \in Conns /\ Held(k)
           /\ hpc' \in [Tids -> {"enter", "read", "left"}]
           /\ \A s \in Tids : \A c : Holds(s, c)' => Holds(s, c)
           /\ \A c \in Conns : Held(c)' <=> Held(c) /\ c # k
           /\ \A s \in Tids : wpc[s] # "handling" => hpc'[s] = hpc[s]
<1> USE DEF LoopInv
<1>1. hpc \in [Tids -> {"enter", "read", "left"}] /\ accepted \subseteq Conns
  BY DEF LoopTypes
<1>2. k \in accepted /\ k \in Conns /\ Holds(t, k)
  BY <1>1 DEF Handling, Holds
<1>3. \A s \in Tids : \A c : Holds(s, c)' <=> Holds(s, c) /\ s # t
  BY <1>1 DEF Holds
<1>4. \A c : Holds(t, c) => c = k
  BY DEF Holds
<1>5. \A c \in Conns : Held(c)' <=> Held(c) /\ c # k
  BY <1>2, <1>3, <1>4 DEF Held, Single
<1> QED
  BY <1>1, <1>2, <1>3, <1>5 DEF Held

LEMMA CloseKeepsOwnership ==
    ASSUME LoopInv, NEW t \in Tids, HandleClose(t)
    PROVE  LoopTypes' /\ Handling' /\ Budget' /\ Ownership'
<1> USE DEF LoopInv
<1>1. PICK k : k = job[t]
  OBVIOUS
<1>2. /\ freed' = freed \cup {k} /\ wpc[t] = "handling" /\ hpc[t] = "enter"
      /\ hpc' = [hpc EXCEPT ![t] = "left"]
      /\ unread' = unread \/ unread' = [unread EXCEPT ![k] = 0]
      /\ UNCHANGED <<queue, wpc, job, events, accepted, armed, closing, shutdown, mgr,
                     full, sends, hup>>
  BY <1>1 DEF HandleClose, conn_free, poolVars
<1>3. /\ k \in accepted /\ k \in Conns /\ Held(k)
      /\ hpc' \in [Tids -> {"enter", "read", "left"}]
      /\ \A s \in Tids : \A c : Holds(s, c)' => Holds(s, c)
      /\ \A c \in Conns : Held(c)' <=> Held(c) /\ c # k
      /\ \A s \in Tids : wpc[s] # "handling" => hpc'[s] = hpc[s]
  BY <1>1, <1>2, HolderLeaves
<1>4. unread' \in [Conns -> 0..MaxSends] /\ \A c \in Conns : unread'[c] <= unread[c]
  BY <1>2, LoopAssumption DEF LoopTypes
<1>5. LoopTypes' /\ Budget'
  <2>1. LoopTypes'
    BY <1>2, <1>3, <1>4 DEF LoopTypes
  <2>2. ASSUME NEW c \in Conns PROVE unread'[c] + sends <= MaxSends
    BY <1>4, LoopAssumption DEF LoopTypes, Budget
  <2> QED BY <1>2, <2>1, <2>2 DEF Budget
<1>6. Handling'
  BY <1>2, <1>3 DEF Handling
<1>7. \A c : (InBatch(c)' <=> InBatch(c)) /\ (OnQueue(c)' <=> OnQueue(c))
  BY <1>2 DEF InBatch, OnQueue
<1>8. Single'
  BY <1>2, <1>3 DEF Single
<1>9. Apart'
  BY <1>2, <1>3, <1>7 DEF Apart
<1>10. Somewhere'
  BY <1>2, <1>3, <1>7 DEF Somewhere, LoopTypes
<1> QED
  BY <1>5, <1>6, <1>8, <1>9, <1>10 DEF Ownership

LEMMA RearmKeepsOwnership ==
    ASSUME LoopInv, NEW t \in Tids, HandleRearm(t)
    PROVE  LoopTypes' /\ Handling' /\ Budget' /\ Ownership'
<1> USE DEF LoopInv
<1>1. PICK k : k = job[t]
  OBVIOUS
<1>2. /\ armed' = armed \cup {k} /\ wpc[t] = "handling" /\ hpc[t] = "read"
      /\ hpc' = [hpc EXCEPT ![t] = "left"]
      /\ UNCHANGED <<queue, wpc, job, events, accepted, freed, closing, shutdown, mgr,
                     full, sends, unread, hup>>
  BY <1>1 DEF HandleRearm, epoll_rearm, poolVars
<1>3. /\ k \in accepted /\ k \in Conns /\ Held(k)
      /\ hpc' \in [Tids -> {"enter", "read", "left"}]
      /\ \A s \in Tids : \A c : Holds(s, c)' => Holds(s, c)
      /\ \A c \in Conns : Held(c)' <=> Held(c) /\ c # k
      /\ \A s \in Tids : wpc[s] # "handling" => hpc'[s] = hpc[s]
  BY <1>1, <1>2, HolderLeaves
<1>4. LoopTypes' /\ Budget'
  BY <1>2, <1>3 DEF LoopTypes, Budget
<1>5. Handling'
  BY <1>2, <1>3 DEF Handling
<1>6. \A c : (InBatch(c)' <=> InBatch(c)) /\ (OnQueue(c)' <=> OnQueue(c))
  BY <1>2 DEF InBatch, OnQueue
<1>7. Single'
  BY <1>2, <1>3 DEF Single
<1>8. Apart'
  BY <1>2, <1>3, <1>6 DEF Apart
<1>9. Somewhere'
  BY <1>2, <1>3, <1>6 DEF Somewhere, LoopTypes
<1> QED
  BY <1>4, <1>5, <1>7, <1>8, <1>9 DEF Ownership

\* Reading a connection leaves it where it is.
LEMMA ReadKeepsOwnership ==
    ASSUME LoopInv, NEW t \in Tids, HandleRead(t)
    PROVE  LoopTypes' /\ Handling' /\ Budget' /\ Ownership'
<1> USE DEF LoopInv
<1>1. /\ wpc[t] = "handling" /\ hpc[t] = "enter" /\ hpc' = [hpc EXCEPT ![t] = "read"]
      /\ UNCHANGED <<queue, wpc, job, events, accepted, armed, freed, closing,
                     shutdown, mgr, sends, hup>>
  BY DEF HandleRead, poolVars
<1>2. /\ hpc \in [Tids -> {"enter", "read", "left"}] /\ job[t] \in accepted
      /\ unread \in [Conns -> 0..MaxSends] /\ job[t] \in Conns
      /\ sends \in 0..MaxSends /\ full \subseteq accepted
  BY <1>1 DEF LoopTypes, Handling
<1>3. /\ full' \subseteq accepted /\ unread' \in [Conns -> 0..MaxSends]
      /\ \A c \in Conns : unread'[c] <= unread[c]
  <2>1. full' = full \/ full' = full \cup {job[t]}
    BY DEF HandleRead
  <2>2. CASE unread' = unread
    BY <1>2, <2>1, <2>2, LoopAssumption
  <2>3. CASE unread' = [unread EXCEPT ![job[t]] = 0]
    BY <1>2, <2>1, <2>3, LoopAssumption
  <2>4. CASE unread[job[t]] > 0 /\ unread' = [unread EXCEPT ![job[t]] = @ - 1]
    <3>1. ASSUME NEW c \in Conns
          PROVE  unread'[c] \in 0..MaxSends /\ unread'[c] <= unread[c]
      BY <1>2, <2>4, LoopAssumption
    <3>2. unread' \in [Conns -> 0..MaxSends]
      BY <1>2, <2>4, <3>1
    <3> QED BY <1>2, <2>1, <3>1, <3>2
  <2> QED BY <1>2, <2>2, <2>3, <2>4, LoopAssumption DEF HandleRead
<1>4. LoopTypes' /\ Budget'
  <2>1. LoopTypes'
    BY <1>1, <1>2, <1>3 DEF LoopTypes
  <2>2. ASSUME NEW c \in Conns PROVE unread'[c] + sends <= MaxSends
    BY <1>2, <1>3, LoopAssumption DEF Budget
  <2> QED BY <1>1, <2>1, <2>2 DEF Budget
<1>5. Handling'
  BY <1>1, <1>2 DEF Handling
<1>6. \A s \in Tids : \A c : Holds(s, c)' <=> Holds(s, c)
  BY <1>1, <1>2 DEF Holds
<1>7. \A c : /\ InBatch(c)' <=> InBatch(c)
             /\ OnQueue(c)' <=> OnQueue(c)
             /\ Held(c)' <=> Held(c)
  BY <1>1, <1>6 DEF InBatch, OnQueue, Held
<1>8. Single'
  BY <1>1, <1>6 DEF Single
<1>9. Apart'
  BY <1>1, <1>7 DEF Apart
<1>10. Somewhere'
  BY <1>1, <1>7 DEF Somewhere
<1> QED
  BY <1>4, <1>5, <1>8, <1>9, <1>10 DEF Ownership

\* A worker returns from handle_client after its last access.
LEMMA ReturnKeepsOwnership ==
    ASSUME LoopInv, NEW t \in Tids, HandleReturn(t)
    PROVE  LoopTypes' /\ Handling' /\ Budget' /\ Ownership'
<1> USE DEF LoopInv
<1>1. /\ hpc[t] = "left" /\ hpc' = [hpc EXCEPT ![t] = "enter"]
      /\ job' = [job EXCEPT ![t] = NoConn] /\ wpc' = [wpc EXCEPT ![t] = "after"]
      /\ UNCHANGED <<queue, events, accepted, armed, freed, closing, shutdown, mgr,
                     full, sends, unread, hup>>
  BY DEF HandleReturn, WorkerFinish
<1>2. /\ hpc \in [Tids -> {"enter", "read", "left"}] /\ wpc \in [Tids -> Places]
      /\ job \in [Tids -> Conns \cup {NoConn}]
  BY DEF LoopTypes, PoolInv, TypeOK
<1>3. LoopTypes' /\ Budget'
  BY <1>1, <1>2 DEF LoopTypes, Budget
<1>4. Handling'
  BY <1>1, <1>2 DEF Handling
<1>5. \A s \in Tids : \A c : Holds(s, c)' <=> Holds(s, c)
  BY <1>1, <1>2 DEF Holds
<1>6. \A c : /\ InBatch(c)' <=> InBatch(c)
             /\ OnQueue(c)' <=> OnQueue(c)
             /\ Held(c)' <=> Held(c)
  BY <1>1, <1>5 DEF InBatch, OnQueue, Held
<1>7. Single'
  BY <1>1, <1>5 DEF Single
<1>8. Apart'
  BY <1>1, <1>6 DEF Apart
<1>9. Somewhere'
  BY <1>1, <1>6 DEF Somewhere
<1> QED
  BY <1>3, <1>4, <1>7, <1>8, <1>9 DEF Ownership

-------------------------------------------------------------------------------
(* The loop is a legal user of the pool, and keeps the invariant. *)

\* What the pool's specification asks of its user, that a submitted connection
\* is not in the queue, follows from the connection being in the event batch.
LEMMA LoopStepIsPoolStep ==
    ASSUME LoopInv, [LoopNext]_vars
    PROVE  [Next]_poolVars
<1> USE DEF LoopInv
<1>1. ASSUME NEW e \in events, Dispatch(e) PROVE Next
  <2>1. e[1] \in Conns /\ InBatch(e[1])
    BY DEF LoopTypes, InBatch
  <2>2. e[1] \notin Queued
    BY <2>1 DEF Apart, OnQueue, Queued
  <2> QED BY <1>1, <2>1, <2>2 DEF Dispatch, Next, Server
<1>2. ASSUME NEW t \in Tids, HandleReturn(t) PROVE Next
  BY <1>2 DEF HandleReturn, Next, Worker
<1>3. ASSUME PoolStep PROVE Next
  BY <1>3 DEF PoolStep, Next, Server, Worker
<1>4. ASSUME NEW c \in Conns, Accept(c) \/ PeerSend(c) \/ PeerClose(c)
      PROVE  UNCHANGED poolVars
  BY <1>4 DEF Accept, PeerSend, PeerClose
<1>5. ASSUME NEW t \in Tids, HandleClose(t) \/ HandleRead(t) \/ HandleRearm(t)
      PROVE  UNCHANGED poolVars
  BY <1>5 DEF HandleClose, HandleRead, HandleRearm
<1>6. ASSUME EpollWait \/ \E e \in events : DispatchFails(e) PROVE UNCHANGED poolVars
  BY <1>6 DEF EpollWait, DispatchFails
<1>7. ASSUME UNCHANGED vars PROVE UNCHANGED poolVars
  BY <1>7 DEF vars
<1> QED
  BY <1>1, <1>2, <1>3, <1>4, <1>5, <1>6, <1>7 DEF LoopNext, LoopHalt

LEMMA InitLoopInv == LoopInit => LoopInv
<1> SUFFICES ASSUME LoopInit PROVE LoopInv
  OBVIOUS
<1> USE DEF LoopInit
<1>1. PoolInv
  BY InitPoolInv DEF Init
<1>2. LoopTypes /\ Budget
  BY LoopAssumption DEF LoopTypes, Budget
<1>3. queue = <<>> /\ Len(queue) = 0 /\ mgr = "run" /\ \A t \in Tids : wpc[t] # "handling"
  BY DEF threadpool_create
<1>4. Handling
  BY <1>3 DEF Handling
<1>5. Single /\ Apart /\ Somewhere
  BY <1>3 DEF Single, Apart, Somewhere, InBatch, OnQueue, Held, Holds
<1> QED
  BY <1>1, <1>2, <1>4, <1>5 DEF LoopInv

LEMMA NextLoopInv ==
    ASSUME LoopInv, PromptWakeups, [LoopNext]_vars
    PROVE  LoopInv'
<1> DEFINE Goal == LoopTypes' /\ Handling' /\ Budget' /\ Ownership'
<1>1. PoolInv'
  BY LoopStepIsPoolStep, NextPoolInv DEF LoopInv
<1>2. ASSUME NEW c \in Conns, Accept(c) PROVE Goal
  BY <1>2, AcceptKeepsOwnership
<1>3. ASSUME NEW c \in Conns, PeerSend(c) \/ PeerClose(c) PROVE Goal
  BY <1>3, PeerKeepsOwnership
<1>4. ASSUME EpollWait PROVE Goal
  BY <1>4, WaitKeepsOwnership
<1>5. ASSUME NEW e \in events, Dispatch(e) PROVE Goal
  BY <1>5, DispatchKeepsOwnership
<1>6. ASSUME NEW e \in events, DispatchFails(e) PROVE Goal
  BY <1>6, FailKeepsOwnership
<1>7. ASSUME NEW t \in Tids, HandleClose(t) PROVE Goal
  BY <1>7, CloseKeepsOwnership
<1>8. ASSUME NEW t \in Tids, HandleRead(t) PROVE Goal
  BY <1>8, ReadKeepsOwnership
<1>9. ASSUME NEW t \in Tids, HandleRearm(t) PROVE Goal
  BY <1>9, RearmKeepsOwnership
<1>10. ASSUME NEW t \in Tids, HandleReturn(t) PROVE Goal
  BY <1>10, ReturnKeepsOwnership
<1>11. ASSUME PoolStep PROVE Goal
  BY <1>11, PoolStepKeepsOwnership
<1>12. ASSUME UNCHANGED vars PROVE Goal
  <2>1. SameHands
    BY <1>12 DEF SameHands, vars, poolVars, loopVars
  <2>2. UNCHANGED loopVars /\ UNCHANGED <<shutdown, mgr>>
    BY <1>12 DEF vars, poolVars
  <2> QED BY <2>1, <2>2, PoolKeepsOwnership DEF LoopInv, PoolInv, TypeOK, Handling
<1>13. Goal
  BY <1>2, <1>3, <1>4, <1>5, <1>6, <1>7, <1>8, <1>9, <1>10, <1>11, <1>12
     DEF LoopNext, LoopHalt
<1> QED
  BY <1>1, <1>13 DEF LoopInv, Ownership

-------------------------------------------------------------------------------
\* The invariant of the loop with its pool (server.c:406-489, client_handler.c).
THEOREM LoopInvariant == ASSUME PromptWakeups PROVE LoopSpec => []LoopInv
<1>1. LoopInit => LoopInv
  BY InitLoopInv
<1>2. LoopInv /\ [LoopNext]_vars => LoopInv'
  BY NextLoopInv
<1> QED
  BY <1>1, <1>2, PTL DEF LoopSpec

\* Whatever the number of connections and workers, wherever submissions fail
\* and however the peers interleave with the workers: a connection is never in
\* two pairs of hands, a freed one is in none, and while the server runs one
\* that is not closing is in one (server.c:460-480, EPOLLONESHOT; the rearm at
\* the end of handle_client).
THEOREM ConnectionsAlwaysOwned ==
    ASSUME PromptWakeups PROVE LoopSpec => []ConnectionsOwned
<1>1. LoopInv => ConnectionsOwned
  BY OwnershipCounted
<1> QED
  BY <1>1, LoopInvariant, PTL

\* The loop uses the pool as the pool's own specification says: in every
\* behaviour of the loop, the pool's part is a behaviour of Spec.  What is
\* proved of Spec above therefore holds under the real loop.
THEOREM LoopDrivesPool == ASSUME PromptWakeups PROVE LoopSpec => Spec
<1>1. LoopInit => Init
  BY DEF LoopInit, Init
<1>2. LoopInv /\ [LoopNext]_vars => [Next]_poolVars
  BY LoopStepIsPoolStep
<1> QED
  BY <1>1, <1>2, LoopInvariant, PTL DEF LoopSpec, Spec

===============================================================================
