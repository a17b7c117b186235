------------------------- MODULE PoolPromiseProofs -------------------------
(***************************************************************************)
(* InferencePool, with its threads, its mutex and its condition variable,   *)
(* implements the safety part of SynthesisQueue.                            *)
(*                                                                          *)
(* The refinement mapping reads a job's status off jpc and calls.  Under    *)
(* the pool's invariants the pending jobs are those in queue_ and the one   *)
(* in the worker's hands, all different: so the limit on queue_ is a limit  *)
(* on what is pending, and a worker that exits leaves nothing pending.      *)
(***************************************************************************)
EXTENDS InferencePoolProofs

(* The jobs the callers of submit() wait for. *)
Unanswered == {j \in Jobs : jpc[j] \in Taken /\ calls[j] = 0}

Queued == {queue[i] : i \in 1 .. Len(queue)}

InHandSet == IF wpc \in Holding THEN {wjob} ELSE {}

(* The status that the mapping gives a job, by cases that do not overlap. *)
StatusRule ==
  \A j \in Jobs :
    /\ JobStatus(j) = "new" <=> jpc[j] \in {"idle", "enqueue"}
    /\ JobStatus(j) = "refused" <=> jpc[j] = "refused"
    /\ JobStatus(j) = "pending" <=> jpc[j] \in Taken /\ calls[j] = 0
    /\ JobStatus(j) = "answered" <=> calls[j] = 1

(* Under the invariants a job is answered at most once and only if taken,   *)
(* so exactly one case of the mapping applies.                              *)
LEMMA StatusCases == WorkerInv /\ JobsInv => StatusRule
<1> SUFFICES ASSUME WorkerInv, JobsInv, NEW j \in Jobs
             PROVE  /\ JobStatus(j) = "new" <=> jpc[j] \in {"idle", "enqueue"}
                    /\ JobStatus(j) = "refused" <=> jpc[j] = "refused"
                    /\ JobStatus(j) = "pending" <=> jpc[j] \in Taken /\ calls[j] = 0
                    /\ JobStatus(j) = "answered" <=> calls[j] = 1
  BY DEF StatusRule
<1>1. jpc[j] \in {"idle", "enqueue", "notify", "accepted", "refused"}
      /\ calls[j] \in Nat /\ calls[j] <= 1 /\ (calls[j] = 1 => jpc[j] \in Taken)
  BY DEF WorkerInv, TypeOK, JobsInv, AtMostOneAnswer
<1>2. calls[j] = 0 \/ calls[j] = 1
  BY <1>1
<1>3. CASE calls[j] = 0
  <2>1. ~(calls[j] >= 1)
    BY <1>3
  <2>2. QED
    BY <1>1, <1>3, <2>1 DEF JobStatus, Taken
<1>4. CASE calls[j] = 1
  <2>1. calls[j] >= 1 /\ ~(calls[j] = 0)
    BY <1>4
  <2>2. jpc[j] \in Taken /\ jpc[j] \notin {"idle", "enqueue"} /\ jpc[j] # "refused"
    BY <1>1, <1>4 DEF Taken
  <2>3. JobStatus(j) = "answered"
    BY <2>1, <2>2 DEF JobStatus
  <2>4. QED
    BY <1>4, <2>1, <2>2, <2>3
<1>5. QED
  BY <1>2, <1>3, <1>4

(* What is pending for the callers is what the pool still has. *)
LEMMA PendingIsHeld ==
  ASSUME WorkerInv, JobsInv
  PROVE  Promise!Pending = Queued \cup InHandSet
<1>1. Promise!Pending = Unanswered
  BY StatusCases DEF StatusRule, Promise!Pending, Unanswered
<1>2. \A i \in 1 .. Len(queue) : queue[i] \in Jobs
  BY LenProperties, ElementOfSeq DEF WorkerInv, TypeOK
<1>3. wpc \in Holding => wjob \in Jobs
  BY DEF WorkerInv, TypeOK, HasJob
<1>4. Unanswered \subseteq Queued \cup InHandSet
  BY DEF Unanswered, Queued, InHandSet, JobsInv, Accounted
<1>5. Queued \subseteq Unanswered
  BY <1>2 DEF Unanswered, Queued, JobsInv, QueueOwned
<1>6. InHandSet \subseteq Unanswered
  BY <1>3 DEF Unanswered, InHandSet, JobsInv, HandOwned
<1>7. QED
  BY <1>1, <1>4, <1>5, <1>6

(* Nothing is in two places: the pending jobs are counted by the queue's    *)
(* length and the worker's hands.                                           *)
LEMMA PendingCount ==
  ASSUME WorkerInv, JobsInv
  PROVE  Cardinality(Promise!Pending) = Len(queue) + IF wpc \in Holding THEN 1 ELSE 0
<1> DEFINE n == Len(queue)
           f == [i \in 1 .. n |-> queue[i]]
<1>1. n \in Nat
  BY LenProperties DEF WorkerInv, TypeOK
<1>2. f \in Bijection(1 .. n, Queued)
  <2>1. f \in Injection(1 .. n, Queued)
    BY DEF Injection, IsInjective, Queued, JobsInv, QueueDistinct
  <2>2. \A q \in Queued : \E i \in 1 .. n : f[i] = q
    BY DEF Queued
  <2>3. f \in Surjection(1 .. n, Queued)
    BY <2>2 DEF Surjection, Queued
  <2>4. QED
    BY <2>1, <2>3 DEF Bijection
<1>3. IsFiniteSet(1 .. n) /\ Cardinality(1 .. n) = n
  <2>1. 0 \in Int /\ 1 \in Int /\ n \in Int
    BY <1>1
  <2>2. /\ IsFiniteSet(1 .. n)
        /\ Cardinality(1 .. n) = IF 1 > n THEN 0 ELSE n - 1 + 1
    BY <2>1, FS_Interval
  <2>3. QED
    BY <1>1, <2>2
<1> HIDE DEF f, n
<1>4. ExistsBijection(1 .. n, Queued)
  BY <1>2 DEF ExistsBijection
<1>5. IsFiniteSet(Queued) /\ Cardinality(Queued) = n
  BY <1>3, <1>4, FS_Bijection
<1>6. CASE wpc \in Holding
  <2>1. wjob \notin Queued
    BY <1>6 DEF Queued, JobsInv, QueueOwned
  <2>2. Promise!Pending = Queued \cup {wjob}
    BY <1>6, PendingIsHeld DEF InHandSet
  <2>3. Cardinality(Queued \cup {wjob}) = n + 1
    BY <1>5, <2>1, FS_AddElement
  <2>4. QED
    BY <1>6, <2>2, <2>3 DEF n
<1>7. CASE wpc \notin Holding
  <2>1. Promise!Pending = Queued
    BY <1>7, PendingIsHeld DEF InHandSet
  <2>2. QED
    BY <1>1, <1>5, <1>7, <2>1 DEF n
<1>8. QED
  BY <1>6, <1>7

(* The promise is kept from the constructor on. *)
LEMMA PromiseInit == PoolInit => Promise!AbsInit
<1> SUFFICES ASSUME PoolInit PROVE Promise!AbsInit
  OBVIOUS
<1>1. \A j \in Jobs : calls[j] = 0 /\ jpc[j] = "idle"
  BY DEF PoolInit
<1>2. \A j \in Jobs : JobStatus(j) = "new"
  <2> TAKE j \in Jobs
  <2>1. ~(calls[j] >= 1) /\ jpc[j] # "refused" /\ jpc[j] \notin Taken
    BY <1>1 DEF Taken
  <2>2. QED
    BY <2>1 DEF JobStatus
<1>3. accepting = TRUE /\ joinable = TRUE
  BY DEF PoolInit
<1>4. QED
  BY <1>2, <1>3 DEF Promise!AbsInit

(* A step that leaves every caller where it was, and neither closes nor     *)
(* joins, is no step of the promise.                                        *)
LEMMA PromiseStutters ==
  ASSUME UNCHANGED <<calls, accepting, joinable>>,
         \A j \in Jobs : JobStatus(j)' = JobStatus(j)
  PROVE  UNCHANGED Promise!absVars
BY DEF Promise!absVars

(* The status depends on the caller's place and the count of answers alone. *)
LEMMA StatusKept ==
  ASSUME UNCHANGED <<jpc, calls>>
  PROVE  \A j \in Jobs : JobStatus(j)' = JobStatus(j)
BY DEF JobStatus

(* One caller's job goes from one status to another, all others stay. *)
LEMMA StatusMoves ==
  ASSUME NEW j \in Jobs, NEW s, JobStatus(j)' = s,
         \A k \in Jobs : k # j => JobStatus(k)' = JobStatus(k)
  PROVE  [k \in Jobs |-> JobStatus(k)]' = [[k \in Jobs |-> JobStatus(k)] EXCEPT ![j] = s]
OBVIOUS

(* While submit() is running, only its own caller moves. *)
LEMMA StatusOfOthers ==
  ASSUME WorkerInv, NEW j \in Jobs, NEW p, jpc' = [jpc EXCEPT ![j] = p], calls' = calls
  PROVE  \A k \in Jobs : k # j => JobStatus(k)' = JobStatus(k)
<1>1. \A k \in Jobs : k # j => jpc'[k] = jpc[k]
  BY DEF WorkerInv, TypeOK
<1>2. QED
  BY <1>1 DEF JobStatus

(* submit() takes a job: the queue is open and has room.  One more may be   *)
(* with the worker, which is why the promise allows Capacity + 1 pending.   *)
LEMMA AcceptIsAccept ==
  ASSUME WorkerInv, JobsInv, WorkerInv', JobsInv', NEW j \in Jobs, SubmitAccept(j)
  PROVE  Promise!Accept(j)
<1>1. /\ jpc[j] = "enqueue" /\ jpc' = [jpc EXCEPT ![j] = "notify"]
      /\ accepting /\ UNCHANGED <<accepting, joinable, calls>> /\ Len(queue) < MaxQueueDepth
  BY DEF SubmitAccept
<1>2. JobStatus(j) = "new"
  BY <1>1, StatusCases DEF StatusRule
<1>3. jpc'[j] \in Taken /\ calls'[j] = 0
  <2>1. jpc'[j] = "notify" /\ jpc[j] \notin Taken
    BY <1>1 DEF WorkerInv, TypeOK, Taken
  <2>2. calls[j] = 0
    <3>1. calls[j] \in Nat /\ calls[j] <= 1 /\ calls[j] # 1
      BY <2>1 DEF WorkerInv, TypeOK, JobsInv, AtMostOneAnswer
    <3>2. QED
      BY <3>1
  <2>3. QED
    BY <1>1, <2>1, <2>2 DEF Taken
<1>4. JobStatus(j)' = "pending"
  <2>1. StatusRule'
    BY StatusCases, PTL
  <2>2. QED
    BY <1>3, <2>1 DEF StatusRule
<1>5. [k \in Jobs |-> JobStatus(k)]' =
        [[k \in Jobs |-> JobStatus(k)] EXCEPT ![j] = "pending"]
  BY <1>1, <1>4, StatusOfOthers, StatusMoves
<1>6. Cardinality(Promise!Pending) <= MaxQueueDepth
  <2>1. Len(queue) \in Nat
    BY LenProperties DEF WorkerInv, TypeOK
  <2>2. QED
    BY <1>1, <2>1, PendingCount, PoolAssumption
<1>7. Promise!Cardinality(Promise!Pending) = Cardinality(Promise!Pending)
  BY Zenon DEF Promise!Cardinality, Cardinality
<1>8. QED
  BY <1>1, <1>2, <1>5, <1>6, <1>7 DEF Promise!Accept

(* submit() refuses a job: the pool is closed, or at least Capacity jobs    *)
(* are pending.                                                             *)
LEMMA RefuseIsRefuse ==
  ASSUME WorkerInv, JobsInv, WorkerInv', JobsInv', NEW j \in Jobs, SubmitRefuse(j)
  PROVE  Promise!Refuse(j)
<1>1. /\ jpc[j] = "enqueue" /\ jpc' = [jpc EXCEPT ![j] = "refused"]
      /\ UNCHANGED <<accepting, joinable, calls>>
      /\ ~accepting \/ Len(queue) >= MaxQueueDepth
  BY DEF SubmitRefuse, poolShared, history
<1>2. JobStatus(j) = "new"
  BY <1>1, StatusCases DEF StatusRule
<1>3. jpc'[j] = "refused"
  BY <1>1 DEF WorkerInv, TypeOK
<1>4. JobStatus(j)' = "refused"
  <2>1. StatusRule'
    BY StatusCases, PTL
  <2>2. QED
    BY <1>3, <2>1 DEF StatusRule
<1>5. [k \in Jobs |-> JobStatus(k)]' =
        [[k \in Jobs |-> JobStatus(k)] EXCEPT ![j] = "refused"]
  BY <1>1, <1>4, StatusOfOthers, StatusMoves
<1>6. ~accepting \/ Cardinality(Promise!Pending) >= MaxQueueDepth
  <2>1. Len(queue) \in Nat
    BY LenProperties DEF WorkerInv, TypeOK
  <2>2. QED
    BY <1>1, <2>1, PendingCount, PoolAssumption
<1>7. Promise!Cardinality(Promise!Pending) = Cardinality(Promise!Pending)
  BY Zenon DEF Promise!Cardinality, Cardinality
<1>8. QED
  BY <1>1, <1>2, <1>5, <1>6, <1>7 DEF Promise!Refuse

(* The callback answers the job the worker holds. *)
LEMMA CallbackIsAnswer ==
  ASSUME WorkerInv, JobsInv, WorkerInv', JobsInv', CallbackReturns
  PROVE  wjob \in Jobs /\ Promise!Answer(wjob)
<1>1. wjob \in Jobs /\ jpc[wjob] \in Taken /\ calls[wjob] = 0
  BY DEF CallbackReturns, WorkerInv, TypeOK, HasJob, Holding, JobsInv, HandOwned
<1>2. UNCHANGED <<jpc, accepting, joinable>>
  BY DEF CallbackReturns, poolShared, callVars
<1>3. \A k \in Jobs : calls'[k] = IF k = wjob THEN 1 ELSE calls[k]
  BY <1>1 DEF CallbackReturns, WorkerInv, TypeOK
<1>4. JobStatus(wjob) = "pending"
  BY <1>1, StatusCases DEF StatusRule
<1>5. PICK j \in Jobs : j = wjob
  BY <1>1
<1>6. JobStatus(j)' = "answered"
  <2>1. StatusRule'
    BY StatusCases, PTL
  <2>2. QED
    BY <1>3, <1>5, <2>1 DEF StatusRule
<1>7. \A k \in Jobs : k # j => JobStatus(k)' = JobStatus(k)
  BY <1>2, <1>3, <1>5 DEF JobStatus
<1>8. [k \in Jobs |-> JobStatus(k)]' =
        [[k \in Jobs |-> JobStatus(k)] EXCEPT ![j] = "answered"]
  BY <1>6, <1>7, StatusMoves
<1>9. QED
  BY <1>1, <1>2, <1>4, <1>5, <1>8 DEF Promise!Answer

(* join() returns: the worker has exited, so nothing is pending any more. *)
LEMMA JoinIsStop ==
  ASSUME WorkerInv, SyncInv, JobsInv, ShutdownJoin
  PROVE  Promise!Stop
<1>1. wpc = "exited" /\ joinable' = FALSE /\ UNCHANGED <<accepting, jpc, calls>>
  BY DEF ShutdownJoin, SyncInv, callVars, history
<1>2. ~accepting /\ queue = <<>>
  BY <1>1 DEF SyncInv
<1>3. Queued = {} /\ InHandSet = {}
  BY <1>1, <1>2, EmptySeq DEF Queued, InHandSet, Holding
<1>4. Promise!Pending = {}
  BY <1>3, PendingIsHeld
<1>5. \A j \in Jobs : JobStatus(j)' = JobStatus(j)
  BY <1>1, StatusKept
<1>6. QED
  BY <1>1, <1>2, <1>4, <1>5 DEF Promise!Stop

(* Every step of the pool is one step of the promise or none. *)
LEMMA PromiseStep ==
  ASSUME WorkerInv, SyncInv, JobsInv, WorkerInv', JobsInv', [PoolNext]_poolVars
  PROVE  [Promise!AbsNext]_(Promise!absVars)
<1>1. ASSUME NEW j \in Jobs, NEW d \in ExplicitDeadlines \cup {Epoch}, SubmitCall(j, d)
      PROVE  UNCHANGED Promise!absVars
  <2>1. /\ jpc[j] = "idle" /\ jpc' = [jpc EXCEPT ![j] = "enqueue"]
        /\ UNCHANGED <<accepting, joinable, calls>>
    BY <1>1 DEF SubmitCall, poolShared, history
  <2>2. jpc'[j] = "enqueue" /\ \A k \in Jobs : k # j => JobStatus(k)' = JobStatus(k)
    BY <2>1, StatusOfOthers DEF WorkerInv, TypeOK
  <2>3. StatusRule /\ StatusRule'
    BY StatusCases, PTL
  <2>4. JobStatus(j) = "new" /\ JobStatus(j)' = "new"
    BY <2>1, <2>2, <2>3 DEF StatusRule
  <2>5. QED
    BY <2>1, <2>2, <2>4, PromiseStutters
<1>2. ASSUME NEW j \in Jobs, SubmitNotify(j)
      PROVE  UNCHANGED Promise!absVars
  <2>1. /\ jpc[j] = "notify" /\ jpc' = [jpc EXCEPT ![j] = "accepted"]
        /\ UNCHANGED <<accepting, joinable, calls>>
    BY <1>2 DEF SubmitNotify, poolShared, history
  <2>2. /\ jpc[j] \in Taken /\ jpc'[j] \in Taken
        /\ jpc[j] # "refused" /\ jpc'[j] # "refused"
        /\ \A k \in Jobs : k # j => JobStatus(k)' = JobStatus(k)
    BY <2>1, StatusOfOthers DEF WorkerInv, TypeOK, Taken
  <2>3. JobStatus(j)' = JobStatus(j)
    BY <2>1, <2>2 DEF JobStatus
  <2>4. QED
    BY <2>1, <2>2, <2>3, PromiseStutters
<1>3. ASSUME NEW j \in Jobs, SubmitAccept(j) \/ SubmitRefuse(j)
      PROVE  Promise!AbsNext
  BY <1>3, AcceptIsAccept, RefuseIsRefuse DEF Promise!AbsNext
<1>4. CASE CallbackReturns
  BY <1>4, CallbackIsAnswer DEF Promise!AbsNext
<1>5. CASE ShutdownFlag
  <2>1. accepting' = FALSE /\ UNCHANGED <<jpc, calls, joinable>>
    BY <1>5 DEF ShutdownFlag, callVars, history
  <2>2. \A j \in Jobs : JobStatus(j)' = JobStatus(j)
    BY <2>1, StatusKept
  <2>3. CASE accepting
    BY <2>1, <2>2, <2>3 DEF Promise!AbsNext, Promise!Close
  <2>4. CASE ~accepting
    <3>1. accepting' = accepting
      BY <2>1, <2>4 DEF WorkerInv, TypeOK
    <3>2. QED
      BY <2>1, <2>2, <3>1, PromiseStutters
  <2>5. QED
    BY <2>3, <2>4
<1>6. CASE ShutdownJoin
  BY <1>6, JoinIsStop DEF Promise!AbsNext
<1>7. CASE \/ WorkerLock \/ WorkerCheck \/ WorkerSleep \/ SpuriousWakeup \/ WorkerExit
           \/ WorkerTake \/ WorkerExpire \/ WorkerStart
  <2>1. UNCHANGED <<jpc, calls, accepting, joinable>>
    BY <1>7 DEF WorkerLock, WorkerCheck, WorkerSleep, SpuriousWakeup, WorkerExit,
       WorkerTake, WorkerExpire, WorkerStart, poolShared, callVars, history
  <2>2. QED
    BY <2>1, StatusKept, PromiseStutters
<1>8. CASE \/ SynthesizeReturns \/ SynthesizeThrows \/ WorkerJudge \/ WorkerRelease
           \/ ShutdownNotify \/ Tick \/ UNCHANGED poolVars
  <2>1. UNCHANGED <<jpc, calls, accepting, joinable>>
    BY <1>8 DEF SynthesizeReturns, SynthesizeThrows, WorkerJudge, WorkerRelease,
       ShutdownNotify, Tick, poolShared, callVars, history, poolVars
  <2>2. QED
    BY <2>1, StatusKept, PromiseStutters
<1>9. QED
  BY <1>1, <1>2, <1>3, <1>4, <1>5, <1>6, <1>7, <1>8
     DEF PoolNext, Submit, Worker, Shutdown

(* InferencePool implements the safety part of SynthesisQueue: a job is     *)
(* refused for a reason or pending, at most max_queue_depth + 1 are pending,*)
(* each is answered once, and shutdown() returns when nothing is pending.   *)
THEOREM PoolKeepsPromise == PoolSpec => Promise!AbsSafe
<1>1. PoolSpec => [](WorkerInv /\ SyncInv /\ JobsInv)
  BY WorkerInvInit, WorkerInvNext, SyncInvInit, SyncInvNext,
     JobsInvInit, JobsInvNext, PTL DEF PoolSpec
<1>2. /\ WorkerInv /\ SyncInv /\ JobsInv
      /\ (WorkerInv /\ SyncInv /\ JobsInv)'
      /\ [PoolNext]_poolVars
      => [Promise!AbsNext]_(Promise!absVars)
  BY PromiseStep
<1>3. QED
  BY <1>1, <1>2, PromiseInit, PTL DEF PoolSpec, Promise!AbsSafe

=============================================================================
