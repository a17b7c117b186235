------------------------ MODULE InferencePoolProofs ------------------------
(***************************************************************************)
(* What holds of InferencePool for every set of jobs, every queue depth,    *)
(* timeout, deadline and length of run.                                     *)
(*                                                                          *)
(* The invariants are proved in layers, each inductive relative to the      *)
(* layers before it: where the worker is and what it holds (WorkerInv),     *)
(* the mutex and the condition variable (SyncInv), whose job it is          *)
(* (JobsInv), what was promised about time (ClockInv), and what the         *)
(* monitors count (MonitorInv).                                             *)
(***************************************************************************)
EXTENDS InferencePool, SequenceTheorems, FiniteSetTheorems, TLAPS

(* The worker's local `job` is set, answered or not. *)
HasJob == Holding \cup {"release"}

(* TypeOK made inductive: what the worker holds and counts at each place,   *)
(* and that a third shutdown() never starts.                                *)
WorkerInv ==
  /\ TypeOK
  /\ wpc \in HasJob <=> wjob # NoJob
  /\ wpc = "callback" <=> verdict # "none"
  /\ active = IF wpc \in Guarded \/ (wpc = "callback" /\ verdict # "timed_out")
              THEN 1 ELSE 0
  /\ opc # "idle" => stops <= 1

(* The pool as its constructor leaves it. *)
LEMMA WorkerInvInit == PoolInit => WorkerInv
<1> SUFFICES ASSUME PoolInit PROVE WorkerInv
  OBVIOUS
<1>1. <<>> \in Seq(Jobs) /\ Len(<<>>) <= MaxQueueDepth
  BY PoolAssumption, EmptySeq
<1>2. TypeOK
  <2>1. queue \in Seq(Jobs) /\ Len(queue) <= MaxQueueDepth
    BY <1>1 DEF PoolInit
  <2>2. enqueued \in Seq(Jobs) /\ answered \in Seq(Jobs)
    BY <1>1 DEF PoolInit
  <2>3. /\ deadline \in [Jobs -> Nat]
        /\ asked \in [Jobs -> Nat]
        /\ called \in [Jobs -> Nat]
        /\ calls \in [Jobs -> Nat]
        /\ outcome \in [Jobs -> Answers \cup {"none"}]
    BY DEF PoolInit, Answers, Epoch
  <2>4. /\ accepting \in BOOLEAN
        /\ mutex \in BOOLEAN
        /\ joinable \in BOOLEAN
        /\ wjob \in Jobs \cup {NoJob}
        /\ verdict \in Answers \cup {"none"}
        /\ jpc \in [Jobs -> {"idle", "enqueue", "notify", "accepted", "refused"}]
    BY DEF PoolInit
  <2>5. /\ active \in 0 .. 1
        /\ expired \in Nat
        /\ stops \in 0 .. 2
        /\ now \in Nat
    BY DEF PoolInit
  <2>6. wpc = "lock" /\ opc = "idle"
    BY DEF PoolInit
  <2>7. QED
    BY <2>1, <2>2, <2>3, <2>4, <2>5, <2>6 DEF TypeOK
<1>3. QED
  BY <1>2 DEF PoolInit, WorkerInv, HasJob, Holding, Guarded

(* No step of any thread breaks the types or the shape of worker_loop(). *)
LEMMA WorkerInvNext == WorkerInv /\ [PoolNext]_poolVars => WorkerInv'
<1> SUFFICES ASSUME WorkerInv, [PoolNext]_poolVars PROVE WorkerInv'
  OBVIOUS
<1> USE PoolAssumption DEF WorkerInv, TypeOK, HasJob, Holding, Guarded, Answers
<1>1. ASSUME NEW j \in Jobs, NEW d \in ExplicitDeadlines \cup {Epoch}, SubmitCall(j, d)
      PROVE  WorkerInv'
  <2>1. d \in Nat /\ now \in Nat /\ now + RequestTimeout \in Nat
    BY <1>1 DEF Epoch
  <2>2. /\ jpc' \in [Jobs -> {"idle", "enqueue", "notify", "accepted", "refused"}]
        /\ deadline' \in [Jobs -> Nat]
        /\ asked' \in [Jobs -> Nat]
        /\ called' \in [Jobs -> Nat]
    BY <1>1, <2>1 DEF SubmitCall
  <2>3. QED
    BY <1>1, <2>2 DEF SubmitCall, poolShared, workerVars, ownerVars, history
<1>2. ASSUME NEW j \in Jobs, SubmitAccept(j) PROVE WorkerInv'
  <2>1. queue' \in Seq(Jobs) /\ enqueued' \in Seq(Jobs) /\ Len(queue') = Len(queue) + 1
    BY <1>2, AppendProperties DEF SubmitAccept
  <2>2. Len(queue) \in Nat /\ Len(queue) < MaxQueueDepth
    BY <1>2, LenProperties DEF SubmitAccept
  <2>3. Len(queue') <= MaxQueueDepth
    BY <2>1, <2>2
  <2>4. jpc' \in [Jobs -> {"idle", "enqueue", "notify", "accepted", "refused"}]
    BY <1>2 DEF SubmitAccept
  <2>5. UNCHANGED <<accepting, mutex, active, expired, joinable, workerVars,
                    deadline, asked, called, ownerVars, now, calls, outcome, answered>>
    BY <1>2 DEF SubmitAccept
  <2>6. QED
    BY <2>1, <2>3, <2>4, <2>5 DEF workerVars, ownerVars
<1>3. ASSUME NEW j \in Jobs, SubmitRefuse(j) PROVE WorkerInv'
  BY <1>3 DEF SubmitRefuse, poolShared, workerVars, ownerVars, history
<1>4. ASSUME NEW j \in Jobs, SubmitNotify(j) PROVE WorkerInv'
  BY <1>4 DEF SubmitNotify, WakeWorker, poolShared, ownerVars, history
<1>5. CASE WorkerLock
  BY <1>5 DEF WorkerLock, callVars, ownerVars, history
<1>6. CASE WorkerCheck
  BY <1>6 DEF WorkerCheck, poolShared, callVars, ownerVars, history
<1>7. CASE WorkerSleep
  BY <1>7 DEF WorkerSleep, callVars, ownerVars, history
<1>8. CASE SpuriousWakeup
  BY <1>8 DEF SpuriousWakeup, poolShared, callVars, ownerVars, history
<1>9. CASE WorkerExit
  BY <1>9 DEF WorkerExit, callVars, ownerVars, history
<1>10. CASE WorkerTake
  <2>1. /\ Head(queue) \in Jobs
        /\ Tail(queue) \in Seq(Jobs)
        /\ Len(Tail(queue)) <= MaxQueueDepth
    BY <1>10, HeadTailProperties, LenProperties DEF WorkerTake
  <2>2. QED
    BY <1>10, <2>1 DEF WorkerTake, callVars, ownerVars, history
<1>11. CASE WorkerExpire
  BY <1>11 DEF WorkerExpire, callVars, ownerVars, history
<1>12. CASE WorkerStart
  BY <1>12 DEF WorkerStart, callVars, ownerVars, history
<1>13. CASE SynthesizeReturns
  BY <1>13 DEF SynthesizeReturns, poolShared, callVars, ownerVars, history
<1>14. CASE SynthesizeThrows
  BY <1>14 DEF SynthesizeThrows, poolShared, callVars, ownerVars, history
<1>15. CASE WorkerJudge
  BY <1>15 DEF WorkerJudge, poolShared, callVars, ownerVars, history
<1>16. CASE CallbackReturns
  BY <1>16 DEF CallbackReturns, poolShared, callVars, ownerVars
<1>17. CASE WorkerRelease
  BY <1>17 DEF WorkerRelease, callVars, ownerVars, history
<1>18. CASE ShutdownFlag
  <2>1. stops' \in 0 .. 1
    BY <1>18 DEF ShutdownFlag
  <2>2. TypeOK'
    BY <1>18, <2>1 DEF ShutdownFlag, workerVars, callVars, history
  <2>3. QED
    BY <1>18, <2>1, <2>2 DEF ShutdownFlag, workerVars, callVars, history
<1>19. CASE ShutdownNotify
  BY <1>19 DEF ShutdownNotify, WakeWorker, poolShared, callVars, history
<1>20. CASE ShutdownJoin
  <2>1. stops' \in 0 .. 2
    BY <1>20 DEF ShutdownJoin
  <2>2. QED
    BY <1>20, <2>1 DEF ShutdownJoin, workerVars, callVars, history
<1>21. CASE Tick
  BY <1>21 DEF Tick, poolShared, workerVars, callVars, ownerVars, history
<1>22. CASE UNCHANGED poolVars
  BY <1>22 DEF poolVars
<1>23. QED
  BY <1>1, <1>2, <1>3, <1>4, <1>5, <1>6, <1>7, <1>8, <1>9, <1>10, <1>11, <1>12,
     <1>13, <1>14, <1>15, <1>16, <1>17, <1>18, <1>19, <1>20, <1>21, <1>22
     DEF PoolNext, Submit, Worker, Shutdown

(* Type correctness: queue_ never outgrows max_queue_depth_ and active_ is  *)
(* 0 or 1, for any number of threads calling submit().                      *)
THEOREM TypeCorrect == PoolSpec => []TypeOK
<1>1. PoolSpec => []WorkerInv
  BY WorkerInvInit, WorkerInvNext, PTL DEF PoolSpec
<1>2. WorkerInv => TypeOK
  BY DEF WorkerInv
<1>3. QED
  BY <1>1, <1>2, PTL

-----------------------------------------------------------------------------
(* What the mutex is for.  It is the worker's exactly from the evaluation   *)
(* of cv_.wait's predicate to the moment it blocks or leaves; whatever the  *)
(* predicate said is still true when the worker blocks; and a worker that   *)
(* has returned saw the pool closed and empty, which it stays.              *)
SyncInv ==
  /\ mutex <=> wpc \in {"check", "sleep"}
  /\ wpc = "sleep" => queue = <<>> /\ accepting
  /\ NoLostWakeup
  /\ wpc = "exited" => queue = <<>> /\ ~accepting
  /\ ~joinable => wpc = "exited"

(* Nobody waits when the pool is constructed. *)
LEMMA SyncInvInit == PoolInit => SyncInv
BY DEF PoolInit, SyncInv, NoLostWakeup

(* No step of submit(), worker_loop() or shutdown() loses a wakeup. *)
LEMMA SyncInvNext == WorkerInv /\ SyncInv /\ [PoolNext]_poolVars => SyncInv'
<1> SUFFICES ASSUME WorkerInv, SyncInv, [PoolNext]_poolVars PROVE SyncInv'
  OBVIOUS
<1> USE DEF WorkerInv, TypeOK, SyncInv, NoLostWakeup
<1>1. ASSUME NEW j \in Jobs, NEW d \in ExplicitDeadlines \cup {Epoch}, SubmitCall(j, d)
      PROVE  SyncInv'
  BY <1>1 DEF SubmitCall, Epoch, poolShared, workerVars, ownerVars, history
<1>2. ASSUME NEW j \in Jobs, SubmitAccept(j) PROVE SyncInv'
  BY <1>2 DEF SubmitAccept, workerVars, ownerVars
<1>3. ASSUME NEW j \in Jobs, SubmitRefuse(j) PROVE SyncInv'
  BY <1>3 DEF SubmitRefuse, poolShared, workerVars, ownerVars, history
<1>4. ASSUME NEW j \in Jobs, SubmitNotify(j) PROVE SyncInv'
  BY <1>4 DEF SubmitNotify, WakeWorker, poolShared, ownerVars, history
<1>5. CASE WorkerLock
  BY <1>5 DEF WorkerLock, callVars, ownerVars, history
<1>6. CASE WorkerCheck
  BY <1>6 DEF WorkerCheck, poolShared, callVars, ownerVars, history
<1>7. CASE WorkerSleep
  BY <1>7 DEF WorkerSleep, callVars, ownerVars, history
<1>8. CASE SpuriousWakeup
  BY <1>8 DEF SpuriousWakeup, poolShared, callVars, ownerVars, history
<1>9. CASE WorkerExit
  BY <1>9 DEF WorkerExit, callVars, ownerVars, history
<1>10. CASE WorkerTake
  BY <1>10 DEF WorkerTake, callVars, ownerVars, history
<1>11. CASE WorkerExpire
  BY <1>11 DEF WorkerExpire, callVars, ownerVars, history
<1>12. CASE WorkerStart
  BY <1>12 DEF WorkerStart, callVars, ownerVars, history
<1>13. CASE SynthesizeReturns
  BY <1>13 DEF SynthesizeReturns, poolShared, callVars, ownerVars, history
<1>14. CASE SynthesizeThrows
  BY <1>14 DEF SynthesizeThrows, poolShared, callVars, ownerVars, history
<1>15. CASE WorkerJudge
  BY <1>15 DEF WorkerJudge, poolShared, callVars, ownerVars, history
<1>16. CASE CallbackReturns
  BY <1>16 DEF CallbackReturns, poolShared, callVars, ownerVars
<1>17. CASE WorkerRelease
  BY <1>17 DEF WorkerRelease, callVars, ownerVars, history
<1>18. CASE ShutdownFlag
  BY <1>18 DEF ShutdownFlag, workerVars, callVars, history
<1>19. CASE ShutdownNotify
  BY <1>19 DEF ShutdownNotify, WakeWorker, poolShared, callVars, history
<1>20. CASE ShutdownJoin
  BY <1>20 DEF ShutdownJoin, workerVars, callVars, history
<1>21. CASE Tick
  BY <1>21 DEF Tick, poolShared, workerVars, callVars, ownerVars, history
<1>22. CASE UNCHANGED poolVars
  BY <1>22 DEF poolVars
<1>23. QED
  BY <1>1, <1>2, <1>3, <1>4, <1>5, <1>6, <1>7, <1>8, <1>9, <1>10, <1>11, <1>12,
     <1>13, <1>14, <1>15, <1>16, <1>17, <1>18, <1>19, <1>20, <1>21, <1>22
     DEF PoolNext, Submit, Worker, Shutdown

(* The condition variable protocol loses no wakeup, whichever of submit(),  *)
(* shutdown() and spurious wakeups reach the worker in whichever order.     *)
THEOREM NoWakeupIsLost == PoolSpec => []NoLostWakeup
<1>1. PoolSpec => [](WorkerInv /\ SyncInv)
  BY WorkerInvInit, WorkerInvNext, SyncInvInit, SyncInvNext, PTL DEF PoolSpec
<1>2. SyncInv => NoLostWakeup
  BY DEF SyncInv
<1>3. QED
  BY <1>1, <1>2, PTL

-----------------------------------------------------------------------------
(* Where the accepted jobs are: a job that submit() has taken is answered,  *)
(* or in the worker's hands, or in the queue, and in one place only.        *)
QueueOwned ==
  \A i \in 1 .. Len(queue) :
    /\ jpc[queue[i]] \in Taken
    /\ calls[queue[i]] = 0
    /\ wpc \in Holding => queue[i] # wjob

QueueDistinct == \A i, k \in 1 .. Len(queue) : queue[i] = queue[k] => i = k

HandOwned == wpc \in Holding => jpc[wjob] \in Taken /\ calls[wjob] = 0

Accounted ==
  \A j \in Jobs : jpc[j] \in Taken =>
    \/ calls[j] = 1
    \/ wpc \in Holding /\ wjob = j
    \/ \E i \in 1 .. Len(queue) : queue[i] = j

JobsInv == QueueOwned /\ QueueDistinct /\ HandOwned /\ AtMostOneAnswer /\ Accounted

(* The new pool has no jobs. *)
LEMMA JobsInvInit == PoolInit => JobsInv
BY EmptySeq DEF PoolInit, JobsInv, QueueOwned, QueueDistinct, HandOwned,
                AtMostOneAnswer, Accounted, Taken, Holding

(* The steps that move no job: they leave the queue, the worker's job and   *)
(* the answers alone.                                                       *)
LEMMA JobsInvKept ==
  ASSUME JobsInv, UNCHANGED <<queue, wjob, jpc, calls>>,
         wpc' \in Holding <=> wpc \in Holding
  PROVE  JobsInv'
BY DEF JobsInv, QueueOwned, QueueDistinct, HandOwned, AtMostOneAnswer, Accounted

(* The steps of submit() that do not change whether its job is taken. *)
LEMMA JobsInvCall ==
  ASSUME WorkerInv, JobsInv, NEW j \in Jobs, NEW p,
         jpc' = [jpc EXCEPT ![j] = p], p \in Taken <=> jpc[j] \in Taken,
         UNCHANGED <<queue, wjob, calls>>, wpc' \in Holding <=> wpc \in Holding
  PROVE  JobsInv'
<1>1. /\ Len(queue) \in Nat
      /\ \A i \in 1 .. Len(queue) : queue[i] \in Jobs
  BY LenProperties, ElementOfSeq DEF WorkerInv, TypeOK
<1>2. \A k \in Jobs : jpc'[k] \in Taken <=> jpc[k] \in Taken
  BY DEF WorkerInv, TypeOK
<1>3. wpc \in Holding => wjob \in Jobs
  BY DEF WorkerInv, TypeOK, HasJob
<1>4. QueueOwned' /\ QueueDistinct'
  BY <1>1, <1>2 DEF JobsInv, QueueOwned, QueueDistinct
<1>5. HandOwned' /\ AtMostOneAnswer' /\ Accounted'
  BY <1>2, <1>3 DEF JobsInv, HandOwned, AtMostOneAnswer, Accounted
<1>6. QED
  BY <1>4, <1>5 DEF JobsInv

(* submit() hands a job that nobody has to the queue. *)
LEMMA JobsInvAccept ==
  ASSUME WorkerInv, JobsInv, NEW j \in Jobs, SubmitAccept(j)
  PROVE  JobsInv'
<1> DEFINE n == Len(queue)
<1>1. n \in Nat /\ \A i \in 1 .. n : queue[i] \in Jobs
  BY LenProperties, ElementOfSeq DEF WorkerInv, TypeOK
<1>2. /\ Len(queue') = n + 1
      /\ \A i \in 1 .. n : queue'[i] = queue[i]
      /\ queue'[n + 1] = j
  BY <1>1 DEF SubmitAccept, WorkerInv, TypeOK
<1>3. UNCHANGED <<wpc, wjob, calls>>
  BY DEF SubmitAccept, workerVars
<1>4. jpc[j] \notin Taken /\ \A k \in Jobs : jpc'[k] \in Taken <=> (k = j \/ jpc[k] \in Taken)
  BY DEF SubmitAccept, WorkerInv, TypeOK, Taken
<1>5. wpc \in Holding => wjob \in Jobs /\ wjob # j
  BY <1>4 DEF WorkerInv, TypeOK, HasJob, JobsInv, HandOwned
<1>6. calls[j] = 0
  BY <1>4 DEF WorkerInv, TypeOK, JobsInv, AtMostOneAnswer
<1>7. \A i \in 1 .. n : queue[i] # j
  BY <1>4 DEF JobsInv, QueueOwned
<1>8. \A i \in 1 .. n + 1 : i \in 1 .. n \/ i = n + 1
  BY <1>1
<1> HIDE DEF n
<1>9. QueueOwned'
  <2> SUFFICES ASSUME NEW i \in 1 .. n + 1
               PROVE  /\ jpc'[queue'[i]] \in Taken
                      /\ calls'[queue'[i]] = 0
                      /\ wpc' \in Holding => queue'[i] # wjob'
    BY <1>2 DEF QueueOwned
  <2>1. CASE i \in 1 .. n
    BY <2>1, <1>1, <1>2, <1>3, <1>4 DEF JobsInv, QueueOwned, n
  <2>2. CASE i = n + 1
    BY <2>2, <1>2, <1>3, <1>4, <1>5, <1>6
  <2>3. QED
    BY <2>1, <2>2, <1>8
<1>10. QueueDistinct'
  <2> SUFFICES ASSUME NEW i \in 1 .. n + 1, NEW k \in 1 .. n + 1, queue'[i] = queue'[k]
               PROVE  i = k
    BY <1>2 DEF QueueDistinct
  <2>1. CASE i \in 1 .. n /\ k \in 1 .. n
    BY <2>1, <1>2 DEF JobsInv, QueueDistinct, n
  <2>2. CASE i = n + 1 /\ k \in 1 .. n
    BY <2>2, <1>2, <1>7
  <2>3. CASE i \in 1 .. n /\ k = n + 1
    BY <2>3, <1>2, <1>7
  <2>4. QED
    BY <2>1, <2>2, <2>3, <1>8
<1>11. HandOwned' /\ AtMostOneAnswer'
  BY <1>3, <1>4, <1>5 DEF JobsInv, HandOwned, AtMostOneAnswer
<1>12. Accounted'
  <2> SUFFICES ASSUME NEW k \in Jobs, jpc'[k] \in Taken
               PROVE  \/ calls'[k] = 1
                      \/ wpc' \in Holding /\ wjob' = k
                      \/ \E i \in 1 .. n + 1 : queue'[i] = k
    BY <1>2 DEF Accounted
  <2>1. CASE k = j
    BY <2>1, <1>1, <1>2
  <2>2. CASE jpc[k] \in Taken
    BY <2>2, <1>1, <1>2, <1>3 DEF JobsInv, Accounted, n
  <2>3. QED
    BY <2>1, <2>2, <1>4
<1>13. QED
  BY <1>9, <1>10, <1>11, <1>12 DEF JobsInv

(* The head of the queue becomes the worker's, and leaves the queue. *)
LEMMA JobsInvTake ==
  ASSUME WorkerInv, JobsInv, WorkerTake
  PROVE  JobsInv'
<1> DEFINE n == Len(queue)
<1>1. n \in Nat \ {0} /\ \A i \in 1 .. n : queue[i] \in Jobs
  BY LenProperties, ElementOfSeq, EmptySeq DEF WorkerInv, TypeOK, WorkerTake
<1>2. /\ Len(queue') = n - 1
      /\ \A i \in 1 .. n - 1 : queue'[i] = queue[i + 1]
      /\ wjob' = queue[1]
  BY <1>1, HeadTailProperties DEF WorkerInv, TypeOK, WorkerTake
<1>3. wpc = "check" /\ wpc' = "taken" /\ UNCHANGED <<jpc, calls>>
  BY DEF WorkerTake, callVars, history
<1>4. 1 \in 1 .. n /\ \A i \in 1 .. n - 1 : i + 1 \in 1 .. n /\ i + 1 # 1
  BY <1>1
<1>5. \A i \in 1 .. n : i = 1 \/ (i - 1 \in 1 .. n - 1 /\ queue'[i - 1] = queue[i])
  BY <1>1, <1>2
<1> HIDE DEF n
<1>6. QueueOwned'
  <2> SUFFICES ASSUME NEW i \in 1 .. n - 1
               PROVE  /\ jpc'[queue'[i]] \in Taken
                      /\ calls'[queue'[i]] = 0
                      /\ queue'[i] # wjob'
    BY <1>2 DEF QueueOwned
  <2>1. jpc[queue[i + 1]] \in Taken /\ calls[queue[i + 1]] = 0
    BY <1>4 DEF JobsInv, QueueOwned, n
  <2>2. queue[i + 1] # queue[1]
    BY <1>4 DEF JobsInv, QueueDistinct, n
  <2>3. QED
    BY <2>1, <2>2, <1>2, <1>3
<1>7. QueueDistinct'
  <2> SUFFICES ASSUME NEW i \in 1 .. n - 1, NEW k \in 1 .. n - 1, queue'[i] = queue'[k]
               PROVE  i = k
    BY <1>2 DEF QueueDistinct
  <2>1. i + 1 = k + 1
    BY <1>2, <1>4 DEF JobsInv, QueueDistinct, n
  <2>2. QED
    BY <2>1, <1>1
<1>8. HandOwned' /\ AtMostOneAnswer'
  BY <1>2, <1>3, <1>4 DEF JobsInv, QueueOwned, HandOwned, AtMostOneAnswer, n
<1>9. Accounted'
  <2> SUFFICES ASSUME NEW k \in Jobs, jpc[k] \in Taken
               PROVE  \/ calls[k] = 1
                      \/ wjob' = k
                      \/ \E i \in 1 .. n - 1 : queue'[i] = k
    BY <1>2, <1>3 DEF Accounted, Holding
  <2>1. calls[k] = 1 \/ \E i \in 1 .. n : queue[i] = k
    BY <1>3 DEF JobsInv, Accounted, Holding, n
  <2>2. QED
    BY <2>1, <1>2, <1>5
<1>10. QED
  BY <1>6, <1>7, <1>8, <1>9 DEF JobsInv

(* The worker's job is answered, and leaves the worker's hands. *)
LEMMA JobsInvAnswer ==
  ASSUME WorkerInv, JobsInv, CallbackReturns
  PROVE  JobsInv'
<1>1. Len(queue) \in Nat /\ \A i \in 1 .. Len(queue) : queue[i] \in Jobs
  BY LenProperties, ElementOfSeq DEF WorkerInv, TypeOK
<1>2. /\ wpc = "callback"
      /\ wpc' \notin Holding
      /\ UNCHANGED <<queue, jpc>>
  BY DEF CallbackReturns, Holding, poolShared, callVars
<1>3. wjob \in Jobs /\ jpc[wjob] \in Taken /\ calls[wjob] = 0
  BY <1>2 DEF WorkerInv, TypeOK, HasJob, Holding, JobsInv, HandOwned
<1>4. \A k \in Jobs : calls'[k] = IF k = wjob THEN 1 ELSE calls[k]
  BY <1>3 DEF CallbackReturns, WorkerInv, TypeOK
<1>5. QueueOwned' /\ QueueDistinct'
  BY <1>1, <1>2, <1>4 DEF JobsInv, QueueOwned, QueueDistinct, Holding
<1>6. HandOwned' /\ AtMostOneAnswer'
  BY <1>2, <1>3, <1>4 DEF JobsInv, HandOwned, AtMostOneAnswer
<1>7. Accounted'
  BY <1>2, <1>4 DEF JobsInv, Accounted
<1>8. QED
  BY <1>5, <1>6, <1>7 DEF JobsInv

(* At every step each accepted job is in exactly one place. *)
LEMMA JobsInvNext == WorkerInv /\ JobsInv /\ [PoolNext]_poolVars => JobsInv'
<1> SUFFICES ASSUME WorkerInv, JobsInv, [PoolNext]_poolVars PROVE JobsInv'
  OBVIOUS
<1>1. ASSUME NEW j \in Jobs, NEW d \in ExplicitDeadlines \cup {Epoch}, SubmitCall(j, d)
      PROVE  JobsInv'
  BY <1>1, JobsInvCall DEF SubmitCall, Taken, poolShared, workerVars, history
<1>2. ASSUME NEW j \in Jobs, SubmitAccept(j) PROVE JobsInv'
  BY <1>2, JobsInvAccept
<1>3. ASSUME NEW j \in Jobs, SubmitRefuse(j) PROVE JobsInv'
  BY <1>3, JobsInvCall DEF SubmitRefuse, Taken, poolShared, workerVars, history
<1>4. ASSUME NEW j \in Jobs, SubmitNotify(j) PROVE JobsInv'
  <2>1. wpc' \in Holding <=> wpc \in Holding
    BY <1>4 DEF SubmitNotify, WakeWorker, Holding
  <2>2. QED
    BY <1>4, <2>1, JobsInvCall DEF SubmitNotify, Taken, poolShared, history
<1>5. CASE WorkerTake
  BY <1>5, JobsInvTake
<1>6. CASE CallbackReturns
  BY <1>6, JobsInvAnswer
<1>7. CASE WorkerRelease
  <2>1. wpc' \notin Holding /\ wpc \notin Holding /\ UNCHANGED <<queue, jpc, calls>>
    BY <1>7 DEF WorkerRelease, Holding, callVars, history
  <2>2. QED
    BY <2>1 DEF JobsInv, QueueOwned, QueueDistinct, HandOwned, AtMostOneAnswer, Accounted
<1>8. CASE \/ WorkerLock \/ WorkerCheck \/ WorkerSleep \/ SpuriousWakeup \/ WorkerExit
           \/ WorkerExpire \/ WorkerStart
  BY <1>8, JobsInvKept DEF WorkerLock, WorkerCheck, WorkerSleep, SpuriousWakeup, WorkerExit,
     WorkerExpire, WorkerStart, Holding, poolShared, callVars, history
<1>9. CASE SynthesizeReturns \/ SynthesizeThrows \/ WorkerJudge
  BY <1>9, JobsInvKept DEF SynthesizeReturns, SynthesizeThrows, WorkerJudge,
     Holding, poolShared, callVars, history
<1>10. CASE ShutdownFlag \/ ShutdownNotify \/ ShutdownJoin \/ Tick
  BY <1>10, JobsInvKept DEF ShutdownFlag, ShutdownNotify, ShutdownJoin, Tick, WakeWorker,
     Holding, poolShared, workerVars, callVars, history
<1>11. CASE UNCHANGED poolVars
  BY <1>11, JobsInvKept DEF poolVars
<1>12. QED
  BY <1>1, <1>2, <1>3, <1>4, <1>5, <1>6, <1>7, <1>8, <1>9, <1>10, <1>11
     DEF PoolNext, Submit, Worker, Shutdown

(* No job is answered twice, and no refused one at all: the callbacks of a  *)
(* refused job refer to a frame that is gone.                               *)
THEOREM NoSecondAnswer == PoolSpec => []AtMostOneAnswer
<1>1. PoolSpec => [](WorkerInv /\ JobsInv)
  BY WorkerInvInit, WorkerInvNext, JobsInvInit, JobsInvNext, PTL DEF PoolSpec
<1>2. JobsInv => AtMostOneAnswer
  BY DEF JobsInv
<1>3. QED
  BY <1>1, <1>2, PTL

(* shutdown() drains: when it has joined the worker, every job that any     *)
(* submit() accepted has been answered.                                     *)
THEOREM ShutdownDrains == PoolSpec => []DrainedWhenJoined
<1>1. PoolSpec => [](WorkerInv /\ SyncInv /\ JobsInv)
  BY WorkerInvInit, WorkerInvNext, SyncInvInit, SyncInvNext,
     JobsInvInit, JobsInvNext, PTL DEF PoolSpec
<1>2. SyncInv /\ JobsInv => DrainedWhenJoined
  BY EmptySeq DEF SyncInv, JobsInv, Accounted, DrainedWhenJoined, Holding
<1>3. QED
  BY <1>1, <1>2, PTL

-----------------------------------------------------------------------------
(* FifoOrder is inductive relative to WorkerInv: three steps move a job,    *)
(* each across one of the two joints of answered \o InHand \o queue.        *)
LEMMA FifoKept ==
  ASSUME FifoOrder, UNCHANGED <<enqueued, answered, queue, wjob>>,
         wpc' \in Holding <=> wpc \in Holding
  PROVE  FifoOrder'
BY DEF FifoOrder, InHand

(* submit() appends to both sides. *)
LEMMA FifoAccept ==
  ASSUME WorkerInv, FifoOrder, NEW j \in Jobs, SubmitAccept(j)
  PROVE  FifoOrder'
<1> DEFINE front == answered \o InHand
<1>1. InHand \in Seq(Jobs) /\ queue \in Seq(Jobs) /\ answered \in Seq(Jobs)
  BY EmptySeq DEF InHand, WorkerInv, TypeOK, HasJob
<1>2. front \in Seq(Jobs)
  BY <1>1, ConcatProperties
<1>3. front' = front /\ queue' = Append(queue, j) /\ enqueued' = Append(enqueued, j)
  BY DEF SubmitAccept, InHand, workerVars
<1>4. <<j>> \in Seq(Jobs)
  OBVIOUS
<1> HIDE DEF front
<1>5. front \o (queue \o <<j>>) = (front \o queue) \o <<j>>
  BY <1>1, <1>2, <1>4, ConcatAssociative
<1>6. queue' = queue \o <<j>>
  BY <1>1, <1>3, AppendIsConcat
<1>7. enqueued' = enqueued \o <<j>>
  BY <1>3, AppendIsConcat DEF WorkerInv, TypeOK
<1>8. enqueued = front \o queue
  BY DEF FifoOrder, front
<1>9. enqueued' = front' \o queue'
  BY <1>3, <1>5, <1>6, <1>7, <1>8
<1>10. QED
  BY <1>9 DEF FifoOrder, front

(* The worker's empty hand takes the head of the queue. *)
LEMMA FifoTake ==
  ASSUME WorkerInv, FifoOrder, WorkerTake
  PROVE  FifoOrder'
<1>1. queue \in Seq(Jobs) /\ queue # <<>> /\ answered \in Seq(Jobs)
  BY DEF WorkerInv, TypeOK, WorkerTake
<1>2. Head(queue) \in Jobs /\ Tail(queue) \in Seq(Jobs) /\ <<Head(queue)>> \in Seq(Jobs)
  BY <1>1, HeadTailProperties
<1>3. <<Head(queue)>> \o Tail(queue) = queue
  BY <1>1, <1>2
<1>4. InHand = <<>> /\ InHand' = <<Head(queue)>> /\ queue' = Tail(queue)
  BY DEF WorkerTake, InHand, Holding
<1>5. enqueued = answered \o queue
  BY <1>1, <1>4, ConcatEmptySeq DEF FifoOrder
<1>6. (answered \o <<Head(queue)>>) \o Tail(queue) = answered \o queue
  BY <1>1, <1>2, <1>3, ConcatAssociative
<1>7. UNCHANGED <<enqueued, answered>>
  BY DEF WorkerTake, history
<1>8. QED
  BY <1>4, <1>5, <1>6, <1>7 DEF FifoOrder

(* The callback moves the job from the hand to the answers. *)
LEMMA FifoAnswer ==
  ASSUME WorkerInv, FifoOrder, CallbackReturns
  PROVE  FifoOrder'
<1>1. wpc = "callback" /\ wjob \in Jobs
  BY DEF CallbackReturns, WorkerInv, TypeOK, HasJob, Holding
<1>2. InHand = <<wjob>> /\ InHand' = <<>>
  BY <1>1 DEF CallbackReturns, InHand, Holding
<1>3. answered \in Seq(Jobs) /\ UNCHANGED <<queue, enqueued>>
  BY DEF CallbackReturns, WorkerInv, TypeOK, poolShared
<1>4. answered' = answered \o <<wjob>> /\ answered' \in Seq(Jobs)
  BY <1>1, <1>3, AppendIsConcat, AppendProperties DEF CallbackReturns
<1>5. answered' \o <<>> = answered'
  BY <1>4, ConcatEmptySeq
<1>6. QED
  BY <1>2, <1>3, <1>4, <1>5 DEF FifoOrder

(* Every other step leaves the order alone. *)
LEMMA FifoNext == WorkerInv /\ FifoOrder /\ [PoolNext]_poolVars => FifoOrder'
<1> SUFFICES ASSUME WorkerInv, FifoOrder, [PoolNext]_poolVars PROVE FifoOrder'
  OBVIOUS
<1>1. ASSUME NEW j \in Jobs, NEW d \in ExplicitDeadlines \cup {Epoch}, SubmitCall(j, d)
      PROVE  FifoOrder'
  BY <1>1, FifoKept DEF SubmitCall, poolShared, workerVars, history
<1>2. ASSUME NEW j \in Jobs, SubmitAccept(j) PROVE FifoOrder'
  BY <1>2, FifoAccept
<1>3. ASSUME NEW j \in Jobs, SubmitRefuse(j) PROVE FifoOrder'
  BY <1>3, FifoKept DEF SubmitRefuse, poolShared, workerVars, history
<1>4. ASSUME NEW j \in Jobs, SubmitNotify(j) PROVE FifoOrder'
  BY <1>4, FifoKept DEF SubmitNotify, WakeWorker, Holding, poolShared, history
<1>5. CASE WorkerTake
  BY <1>5, FifoTake
<1>6. CASE CallbackReturns
  BY <1>6, FifoAnswer
<1>7. CASE WorkerRelease
  BY <1>7 DEF WorkerRelease, FifoOrder, InHand, Holding, history
<1>8. CASE \/ WorkerLock \/ WorkerCheck \/ WorkerSleep \/ SpuriousWakeup \/ WorkerExit
           \/ WorkerExpire \/ WorkerStart
  BY <1>8, FifoKept DEF WorkerLock, WorkerCheck, WorkerSleep, SpuriousWakeup, WorkerExit,
     WorkerExpire, WorkerStart, Holding, poolShared, history
<1>9. CASE SynthesizeReturns \/ SynthesizeThrows \/ WorkerJudge
  BY <1>9, FifoKept DEF SynthesizeReturns, SynthesizeThrows, WorkerJudge,
     Holding, poolShared, history
<1>10. CASE ShutdownFlag \/ ShutdownNotify \/ ShutdownJoin \/ Tick
  BY <1>10, FifoKept DEF ShutdownFlag, ShutdownNotify, ShutdownJoin, Tick, WakeWorker,
     Holding, poolShared, workerVars, history
<1>11. CASE UNCHANGED poolVars
  BY <1>11, FifoKept DEF poolVars
<1>12. QED
  BY <1>1, <1>2, <1>3, <1>4, <1>5, <1>6, <1>7, <1>8, <1>9, <1>10, <1>11
     DEF PoolNext, Submit, Worker, Shutdown

(* Jobs are answered in the order they were accepted, and none disappears   *)
(* between submit(), the queue, the worker and the callback.                *)
THEOREM AnswersAreFifo == PoolSpec => []FifoOrder
<1>1. PoolInit => FifoOrder
  BY EmptySeq, ConcatEmptySeq DEF PoolInit, FifoOrder, InHand, Holding
<1>2. QED
  BY <1>1, WorkerInvInit, WorkerInvNext, FifoNext, PTL DEF PoolSpec

-----------------------------------------------------------------------------
(* When the caller of submit() may be told that its time is over. *)
Due(j) == IF asked[j] = Epoch THEN called[j] + RequestTimeout ELSE asked[j]

TimedOut == {"timed_out", "exceeded"}

(* NoEarlyTimeout made inductive: the deadline is the one promised from the *)
(* moment submit() is called, and holds for the verdict before the answer.  *)
ClockInv ==
  /\ \A j \in Jobs : jpc[j] # "idle" => deadline[j] = Due(j)
  /\ verdict \in TimedOut => now >= deadline[wjob]
  /\ \A j \in Jobs : outcome[j] \in TimedOut => jpc[j] # "idle" /\ now >= deadline[j]

(* Steps that neither answer nor start a call only let time pass. *)
LEMMA ClockKept ==
  ASSUME WorkerInv, ClockInv, UNCHANGED <<deadline, asked, called, outcome>>,
         \A j \in Jobs : jpc'[j] = "idle" <=> jpc[j] = "idle",
         now' = now \/ now' = now + 1,
         verdict' \in TimedOut => verdict \in TimedOut /\ wjob' = wjob
  PROVE  ClockInv'
<1>1. now \in Nat /\ \A j \in Jobs : deadline[j] \in Nat
  BY DEF WorkerInv, TypeOK
<1>2. verdict \in TimedOut => wjob \in Jobs
  BY DEF WorkerInv, TypeOK, HasJob, Holding, TimedOut
<1>3. QED
  BY <1>1, <1>2 DEF ClockInv, Due

(* A deadline is fixed by submit() and judged against a clock that only grows. *)
LEMMA ClockInvNext == WorkerInv /\ JobsInv /\ ClockInv /\ [PoolNext]_poolVars => ClockInv'
<1> SUFFICES ASSUME WorkerInv, JobsInv, ClockInv, [PoolNext]_poolVars PROVE ClockInv'
  OBVIOUS
<1> USE DEF TimedOut
<1>1. ASSUME NEW j \in Jobs, NEW d \in ExplicitDeadlines \cup {Epoch}, SubmitCall(j, d)
      PROVE  ClockInv'
  <2>1. jpc[j] = "idle" /\ UNCHANGED <<verdict, wjob, outcome, now>>
    BY <1>1 DEF SubmitCall, workerVars, history
  <2>2. \A k \in Jobs :
          /\ jpc'[k] = IF k = j THEN "enqueue" ELSE jpc[k]
          /\ deadline'[k] = IF k = j THEN IF d = Epoch THEN now + RequestTimeout ELSE d
                                     ELSE deadline[k]
          /\ asked'[k] = IF k = j THEN d ELSE asked[k]
          /\ called'[k] = IF k = j THEN now ELSE called[k]
    BY <1>1 DEF SubmitCall, WorkerInv, TypeOK
  <2>3. verdict \in TimedOut => wjob \in Jobs /\ wjob # j
    BY <2>1 DEF WorkerInv, TypeOK, HasJob, Holding, JobsInv, HandOwned, Taken
  <2>4. \A k \in Jobs : jpc'[k] # "idle" => deadline'[k] = Due(k)'
    BY <2>2 DEF ClockInv, Due
  <2>5. QED
    BY <2>1, <2>2, <2>3, <2>4 DEF ClockInv
<1>2. ASSUME NEW j \in Jobs, SubmitAccept(j) \/ SubmitRefuse(j) \/ SubmitNotify(j)
      PROVE  ClockInv'
  <2>1. \A k \in Jobs : jpc'[k] = "idle" <=> jpc[k] = "idle"
    BY <1>2 DEF SubmitAccept, SubmitRefuse, SubmitNotify, WorkerInv, TypeOK
  <2>2. QED
    BY <1>2, <2>1, ClockKept DEF SubmitAccept, SubmitRefuse, SubmitNotify, workerVars, history
<1>3. CASE WorkerTake
  BY <1>3, ClockKept DEF WorkerTake, WorkerInv, callVars, history
<1>4. CASE WorkerExpire \/ WorkerJudge
  <2>1. verdict' \in TimedOut => now' >= deadline'[wjob']
    BY <1>4 DEF WorkerExpire, WorkerJudge, callVars
  <2>2. QED
    BY <1>4, <2>1 DEF WorkerExpire, WorkerJudge, ClockInv, Due, callVars, history
<1>5. CASE CallbackReturns
  <2>1. wjob \in Jobs /\ jpc[wjob] # "idle" /\ verdict' = "none"
    BY <1>5 DEF CallbackReturns, WorkerInv, TypeOK, HasJob, Holding, JobsInv, HandOwned, Taken
  <2>2. \A k \in Jobs : outcome'[k] = IF k = wjob THEN verdict ELSE outcome[k]
    BY <1>5 DEF CallbackReturns, WorkerInv, TypeOK
  <2>3. UNCHANGED <<jpc, deadline, asked, called, now>>
    BY <1>5 DEF CallbackReturns, callVars
  <2>4. QED
    BY <2>1, <2>2, <2>3 DEF ClockInv, Due
<1>6. CASE SynthesizeThrows \/ WorkerRelease
  BY <1>6, ClockKept DEF SynthesizeThrows, WorkerRelease, WorkerInv, HasJob, Holding,
     callVars, history
<1>7. CASE \/ WorkerLock \/ WorkerCheck \/ WorkerSleep \/ SpuriousWakeup \/ WorkerExit
           \/ WorkerStart \/ SynthesizeReturns
  BY <1>7, ClockKept DEF WorkerLock, WorkerCheck, WorkerSleep, SpuriousWakeup, WorkerExit,
     WorkerStart, SynthesizeReturns, callVars, history
<1>8. CASE ShutdownFlag \/ ShutdownNotify \/ ShutdownJoin \/ Tick
  BY <1>8, ClockKept DEF ShutdownFlag, ShutdownNotify, ShutdownJoin, Tick,
     workerVars, callVars, history
<1>9. CASE UNCHANGED poolVars
  BY <1>9, ClockKept DEF poolVars
<1>10. QED
  BY <1>1, <1>2, <1>3, <1>4, <1>5, <1>6, <1>7, <1>8, <1>9
     DEF PoolNext, Submit, Worker, Shutdown

(* No caller is told that it timed out before its deadline, whether the job *)
(* waited in the queue or was synthesized too slowly.                       *)
THEOREM TimeoutsAreDue == PoolSpec => []NoEarlyTimeout
<1>1. PoolInit => ClockInv
  BY DEF PoolInit, ClockInv, TimedOut
<1>2. PoolSpec => [](WorkerInv /\ JobsInv /\ ClockInv)
  BY <1>1, WorkerInvInit, WorkerInvNext, JobsInvInit, JobsInvNext, ClockInvNext, PTL
     DEF PoolSpec
<1>3. WorkerInv /\ ClockInv => NoEarlyTimeout
  BY DEF WorkerInv, TypeOK, ClockInv, Due, TimedOut, NoEarlyTimeout
<1>4. QED
  BY <1>2, <1>3, PTL

-----------------------------------------------------------------------------
(* The jobs that were told they timed out in the queue. *)
Late == {j \in Jobs : outcome[j] = "timed_out"}

(* MonitorsAgree made inductive: a job that was not answered has no outcome *)
(* yet, so that the one the worker has just counted is not among the late.  *)
MonitorInv ==
  /\ \A j \in Jobs : calls[j] = 0 => outcome[j] = "none"
  /\ IsFiniteSet(Late)
  /\ expired = Cardinality(Late) + IF verdict = "timed_out" THEN 1 ELSE 0

(* Steps that neither expire nor answer a job count nothing. *)
LEMMA MonitorKept ==
  ASSUME MonitorInv, UNCHANGED <<calls, outcome, expired>>,
         verdict' = "timed_out" <=> verdict = "timed_out"
  PROVE  MonitorInv'
<1>1. Late' = Late
  BY DEF Late
<1>2. QED
  BY <1>1 DEF MonitorInv

(* The worker finds a job expired, or answers one. *)
LEMMA MonitorInvNext ==
  WorkerInv /\ JobsInv /\ MonitorInv /\ [PoolNext]_poolVars => MonitorInv'
<1> SUFFICES ASSUME WorkerInv, JobsInv, MonitorInv, [PoolNext]_poolVars PROVE MonitorInv'
  OBVIOUS
<1>1. CASE WorkerExpire
  <2>1. /\ Late' = Late /\ verdict = "none" /\ verdict' = "timed_out"
        /\ expired' = expired + 1 /\ UNCHANGED <<calls, outcome>>
    BY <1>1 DEF WorkerExpire, WorkerInv, Late, history
  <2>2. Cardinality(Late) \in Nat
    BY FS_CardinalityType DEF MonitorInv
  <2>3. QED
    BY <2>1, <2>2 DEF MonitorInv
<1>2. CASE CallbackReturns
  <2>1. wjob \in Jobs /\ calls[wjob] = 0 /\ outcome[wjob] = "none" /\ wjob \notin Late
    BY <1>2 DEF CallbackReturns, WorkerInv, TypeOK, HasJob, Holding, JobsInv, HandOwned,
                MonitorInv, Late
  <2>2. \A k \in Jobs : /\ outcome'[k] = IF k = wjob THEN verdict ELSE outcome[k]
                        /\ calls'[k] = IF k = wjob THEN calls[k] + 1 ELSE calls[k]
    BY <1>2 DEF CallbackReturns, WorkerInv, TypeOK
  <2>3. verdict' = "none" /\ expired' = expired
    BY <1>2 DEF CallbackReturns, poolShared
  <2>4. Late' = IF verdict = "timed_out" THEN Late \cup {wjob} ELSE Late
    BY <2>1, <2>2 DEF Late
  <2>5. /\ IsFiniteSet(Late) /\ IsFiniteSet(Late \cup {wjob})
        /\ Cardinality(Late \cup {wjob}) = Cardinality(Late) + 1 /\ Cardinality(Late) \in Nat
    BY <2>1, FS_AddElement, FS_CardinalityType DEF MonitorInv
  <2>6. \A j \in Jobs : calls'[j] = 0 => outcome'[j] = "none"
    BY <2>1, <2>2 DEF MonitorInv
  <2>7. QED
    BY <2>3, <2>4, <2>5, <2>6 DEF MonitorInv
<1>3. CASE SynthesizeThrows \/ WorkerJudge
  <2>1. verdict = "none" /\ verdict' # "timed_out"
    BY <1>3 DEF SynthesizeThrows, WorkerJudge, WorkerInv
  <2>2. QED
    BY <1>3, <2>1, MonitorKept DEF SynthesizeThrows, WorkerJudge, poolShared, history
<1>4. ASSUME NEW j \in Jobs, NEW d, SubmitCall(j, d)
      PROVE  MonitorInv'
  BY <1>4, MonitorKept DEF SubmitCall, poolShared, workerVars, history
<1>5. ASSUME NEW j \in Jobs, Submit(j)
      PROVE  MonitorInv'
  BY <1>5, MonitorKept DEF Submit, SubmitAccept, SubmitRefuse, SubmitNotify, poolShared,
     workerVars, history
<1>6. CASE \/ WorkerLock \/ WorkerCheck \/ WorkerSleep \/ SpuriousWakeup \/ WorkerExit
           \/ WorkerTake \/ WorkerStart \/ SynthesizeReturns \/ WorkerRelease
  BY <1>6, MonitorKept DEF WorkerLock, WorkerCheck, WorkerSleep, SpuriousWakeup, WorkerExit,
     WorkerTake, WorkerStart, SynthesizeReturns, WorkerRelease, poolShared, history
<1>7. CASE ShutdownFlag \/ Shutdown \/ Tick
  BY <1>7, MonitorKept DEF ShutdownFlag, Shutdown, ShutdownNotify, ShutdownJoin, Tick,
     poolShared, workerVars, history
<1>8. CASE UNCHANGED poolVars
  BY <1>8, MonitorKept DEF poolVars
<1>9. QED
  BY <1>1, <1>2, <1>3, <1>4, <1>5, <1>6, <1>7, <1>8 DEF PoolNext, Worker

(* active_jobs() and expired_jobs() agree with what the worker does and     *)
(* with what callers were told, whichever path leaves ActiveGuard's scope.  *)
THEOREM MonitorsTellTheTruth == PoolSpec => []MonitorsAgree
<1>1. PoolInit => MonitorInv
  <2> SUFFICES ASSUME PoolInit PROVE MonitorInv
    OBVIOUS
  <2>1. Late = {} /\ expired = 0 /\ verdict = "none" /\ \A j \in Jobs : outcome[j] = "none"
    BY DEF PoolInit, Late
  <2>2. QED
    BY <2>1, FS_EmptySet DEF MonitorInv
<1>2. PoolSpec => [](WorkerInv /\ JobsInv /\ MonitorInv)
  BY <1>1, WorkerInvInit, WorkerInvNext, JobsInvInit, JobsInvNext, MonitorInvNext, PTL
     DEF PoolSpec
<1>3. WorkerInv /\ MonitorInv => MonitorsAgree
  BY DEF WorkerInv, MonitorInv, MonitorsAgree, Late
<1>4. QED
  BY <1>2, <1>3, PTL

=============================================================================
