---------------------------- MODULE InferencePool ----------------------------
(***************************************************************************)
(* tts::InferencePool: a bounded FIFO of jobs filled by submit() from any   *)
(* thread, one worker thread that empties it, and an owner that shuts the   *)
(* pool down.                                                               *)
(*                                                                          *)
(* Granularity.  A critical section of mutex_ is one step, except that the  *)
(* worker's cv_.wait holds the mutex over two steps (evaluate the           *)
(* predicate, then block), so that a writer that did not take the mutex     *)
(* could slip between them.  notify_one/notify_all come after the unlock,   *)
(* as steps of their own.  Time passes between any two steps.               *)
(***************************************************************************)
EXTENDS Naturals, Sequences, FiniteSets

CONSTANTS
  Jobs,               \* the calls of submit(); each hands over one job
  MaxQueueDepth,      \* max_queue_depth_
  RequestTimeout,     \* request_timeout_seconds_, in clock ticks
  ExplicitDeadlines,  \* deadlines a caller may set itself
  MaxTime,            \* bound: the clock stops here
  NoJob               \* the worker holds no job

Epoch == 0            \* the default-constructed time_point

(* The constructor throws unless depth and timeout are at least 1. *)
ASSUME PoolAssumption ==
  /\ MaxQueueDepth \in Nat \ {0}
  /\ RequestTimeout \in Nat \ {0}
  /\ ExplicitDeadlines \subseteq Nat \ {Epoch}
  /\ MaxTime \in Nat
  /\ NoJob \notin Jobs

VARIABLES
  queue,      \* queue_
  accepting,  \* accepting_
  mutex,      \* mutex_ is held by the worker across two steps
  active,     \* active_
  expired,    \* expired_
  joinable,   \* worker_.joinable()
  wpc,        \* where worker_loop() is
  wjob,       \* the worker's local `job`
  verdict,    \* the answer the worker has decided on
  jpc,        \* where each call of submit() is
  deadline,   \* job.deadline
  opc,        \* where the owner is in shutdown()
  stops,      \* completed calls of shutdown()
  now,        \* steady_clock
  asked,      \* history: the deadline field as the caller passed it
  called,     \* history: when submit() was called
  calls,      \* history: callbacks invoked for each job
  outcome,    \* history: the last answer given for each job
  enqueued,   \* history: jobs in the order submit() accepted them
  answered    \* history: jobs in the order they were answered

poolShared == <<queue, accepting, mutex, active, expired, joinable>>
workerVars == <<wpc, wjob, verdict>>
callVars   == <<jpc, deadline, asked, called>>
ownerVars  == <<opc, stops>>
history    == <<calls, outcome, enqueued, answered>>
poolVars   == <<queue, accepting, mutex, active, expired, joinable,
                wpc, wjob, verdict, jpc, deadline, opc, stops, now,
                asked, called, calls, outcome, enqueued, answered>>

Answers == {"success", "timed_out", "exceeded", "failed"}

(* submit() has taken the job: it is the pool's to answer. *)
Taken == {"notify", "accepted"}

(* The worker has a job it has not answered yet. *)
Holding == {"taken", "synthesizing", "synthesized", "callback"}

(* The scope of ActiveGuard. *)
Guarded == {"synthesizing", "synthesized", "release"}

PoolInit ==
  /\ queue = <<>>
  /\ accepting = TRUE
  /\ mutex = FALSE
  /\ active = 0
  /\ expired = 0
  /\ joinable = TRUE
  /\ wpc = "lock"
  /\ wjob = NoJob
  /\ verdict = "none"
  /\ jpc = [j \in Jobs |-> "idle"]
  /\ deadline = [j \in Jobs |-> Epoch]
  /\ opc = "idle"
  /\ stops = 0
  /\ now = 1
  /\ asked = [j \in Jobs |-> Epoch]
  /\ called = [j \in Jobs |-> Epoch]
  /\ calls = [j \in Jobs |-> 0]
  /\ outcome = [j \in Jobs |-> "none"]
  /\ enqueued = <<>>
  /\ answered = <<>>

-----------------------------------------------------------------------------
(***************************************************************************)
(* submit()                                                                *)
(***************************************************************************)

(* The pool exists until its destructor starts, the second shutdown(). *)
PoolAlive == stops = 0 \/ (stops = 1 /\ opc = "idle")

(* Variant: the epoch sentinel is taken for a deadline. *)
SubmitCallNoDefault(j, d) ==
  /\ jpc[j] = "idle"
  /\ PoolAlive
  /\ jpc' = [jpc EXCEPT ![j] = "enqueue"]
  /\ deadline' = [deadline EXCEPT ![j] = d]
  /\ asked' = [asked EXCEPT ![j] = d]
  /\ called' = [called EXCEPT ![j] = now]
  /\ UNCHANGED <<poolShared, workerVars, ownerVars, now, history>>

(* The deadline defaults to now + timeout, before the lock is taken. *)
SubmitCall(j, d) ==
  /\ jpc[j] = "idle"
  /\ PoolAlive
  /\ jpc' = [jpc EXCEPT ![j] = "enqueue"]
  /\ deadline' = [deadline EXCEPT ![j] =
                    IF d = Epoch THEN now + RequestTimeout ELSE d]
  /\ asked' = [asked EXCEPT ![j] = d]
  /\ called' = [called EXCEPT ![j] = now]
  /\ UNCHANGED <<poolShared, workerVars, ownerVars, now, history>>

(* Variants: the queue takes one job too many; jobs are taken after shutdown. *)
SubmitAcceptOneMore(j) ==
  /\ jpc[j] = "enqueue"
  /\ ~mutex
  /\ accepting
  /\ Len(queue) <= MaxQueueDepth
  /\ queue' = Append(queue, j)
  /\ enqueued' = Append(enqueued, j)
  /\ jpc' = [jpc EXCEPT ![j] = "notify"]
  /\ UNCHANGED <<accepting, mutex, active, expired, joinable, workerVars,
                 deadline, asked, called, ownerVars, now,
                 calls, outcome, answered>>

SubmitAcceptLate(j) ==
  /\ jpc[j] = "enqueue"
  /\ ~mutex
  /\ Len(queue) < MaxQueueDepth
  /\ queue' = Append(queue, j)
  /\ enqueued' = Append(enqueued, j)
  /\ jpc' = [jpc EXCEPT ![j] = "notify"]
  /\ UNCHANGED <<accepting, mutex, active, expired, joinable, workerVars,
                 deadline, asked, called, ownerVars, now,
                 calls, outcome, answered>>

SubmitAccept(j) ==
  /\ jpc[j] = "enqueue"
  /\ ~mutex
  /\ accepting
  /\ Len(queue) < MaxQueueDepth
  /\ queue' = Append(queue, j)
  /\ enqueued' = Append(enqueued, j)
  /\ jpc' = [jpc EXCEPT ![j] = "notify"]
  /\ UNCHANGED <<accepting, mutex, active, expired, joinable, workerVars,
                 deadline, asked, called, ownerVars, now,
                 calls, outcome, answered>>

(* Variant: the job is pushed first, and the caller told that it was not. *)
SubmitRefuseAfterPush(j) ==
  /\ jpc[j] = "enqueue"
  /\ ~mutex
  /\ ~accepting \/ Len(queue) >= MaxQueueDepth
  /\ queue' = Append(queue, j)
  /\ enqueued' = Append(enqueued, j)
  /\ jpc' = [jpc EXCEPT ![j] = "refused"]
  /\ UNCHANGED <<accepting, mutex, active, expired, joinable, workerVars,
                 deadline, asked, called, ownerVars, now,
                 calls, outcome, answered>>

SubmitRefuse(j) ==
  /\ jpc[j] = "enqueue"
  /\ ~mutex
  /\ ~accepting \/ Len(queue) >= MaxQueueDepth
  /\ jpc' = [jpc EXCEPT ![j] = "refused"]
  /\ UNCHANGED <<poolShared, workerVars, deadline, asked, called, ownerVars,
                 now, history>>

(* A worker blocked in cv_.wait wakes and goes for the mutex again. *)
WakeWorker == wpc' = IF wpc = "waiting" THEN "lock" ELSE wpc

(* Variant: nobody is notified. *)
SubmitNotifyMissing(j) ==
  /\ jpc[j] = "notify"
  /\ jpc' = [jpc EXCEPT ![j] = "accepted"]
  /\ UNCHANGED <<poolShared, workerVars, deadline, asked, called,
                 ownerVars, now, history>>

SubmitNotify(j) ==
  /\ jpc[j] = "notify"
  /\ jpc' = [jpc EXCEPT ![j] = "accepted"]
  /\ WakeWorker
  /\ UNCHANGED <<poolShared, wjob, verdict, deadline, asked, called,
                 ownerVars, now, history>>

Submit(j) == SubmitAccept(j) \/ SubmitRefuse(j) \/ SubmitNotify(j)

-----------------------------------------------------------------------------
(***************************************************************************)
(* worker_loop()                                                           *)
(***************************************************************************)

WorkerLock ==
  /\ wpc = "lock"
  /\ ~mutex
  /\ mutex' = TRUE
  /\ wpc' = "check"
  /\ UNCHANGED <<queue, accepting, active, expired, joinable, wjob, verdict,
                 callVars, ownerVars, now, history>>

(* The predicate of cv_.wait is false: the worker is about to block. *)
WorkerCheck ==
  /\ wpc = "check"
  /\ accepting
  /\ queue = <<>>
  /\ wpc' = "sleep"
  /\ UNCHANGED <<poolShared, wjob, verdict, callVars, ownerVars, now, history>>

(* Blocking and releasing the mutex is one step of the condition variable. *)
WorkerSleep ==
  /\ wpc = "sleep"
  /\ wpc' = "waiting"
  /\ mutex' = FALSE
  /\ UNCHANGED <<queue, accepting, active, expired, joinable, wjob, verdict,
                 callVars, ownerVars, now, history>>

(* A condition variable may wake its waiter for no reason. *)
SpuriousWakeup ==
  /\ wpc = "waiting"
  /\ wpc' = "lock"
  /\ UNCHANGED <<poolShared, wjob, verdict, callVars, ownerVars, now, history>>

(* Variant: shutdown is noticed before the queue is drained. *)
WorkerExitUndrained ==
  /\ wpc = "check"
  /\ ~accepting
  /\ mutex' = FALSE
  /\ wpc' = "exited"
  /\ UNCHANGED <<queue, accepting, active, expired, joinable, wjob, verdict,
                 callVars, ownerVars, now, history>>

WorkerExit ==
  /\ wpc = "check"
  /\ ~accepting
  /\ queue = <<>>
  /\ mutex' = FALSE
  /\ wpc' = "exited"
  /\ UNCHANGED <<queue, accepting, active, expired, joinable, wjob, verdict,
                 callVars, ownerVars, now, history>>

(* Variant: the newest job is taken, as from a stack. *)
WorkerTakeNewest ==
  /\ wpc = "check"
  /\ queue # <<>>
  /\ wjob' = queue[Len(queue)]
  /\ queue' = SubSeq(queue, 1, Len(queue) - 1)
  /\ mutex' = FALSE
  /\ wpc' = "taken"
  /\ UNCHANGED <<accepting, active, expired, joinable, verdict,
                 callVars, ownerVars, now, history>>

WorkerTake ==
  /\ wpc = "check"
  /\ queue # <<>>
  /\ wjob' = Head(queue)
  /\ queue' = Tail(queue)
  /\ mutex' = FALSE
  /\ wpc' = "taken"
  /\ UNCHANGED <<accepting, active, expired, joinable, verdict,
                 callVars, ownerVars, now, history>>

(* The job expired in the queue: no inference, on_error is called. *)
WorkerExpire ==
  /\ wpc = "taken"
  /\ now >= deadline[wjob]
  /\ expired' = expired + 1
  /\ verdict' = "timed_out"
  /\ wpc' = "callback"
  /\ UNCHANGED <<queue, accepting, mutex, active, joinable, wjob,
                 callVars, ownerVars, now, history>>

(* ActiveGuard is constructed and synthesize() is entered. *)
WorkerStart ==
  /\ wpc = "taken"
  /\ now < deadline[wjob]
  /\ active' = active + 1
  /\ wpc' = "synthesizing"
  /\ UNCHANGED <<queue, accepting, mutex, expired, joinable, wjob, verdict,
                 callVars, ownerVars, now, history>>

SynthesizeReturns ==
  /\ wpc = "synthesizing"
  /\ wpc' = "synthesized"
  /\ UNCHANGED <<poolShared, wjob, verdict, callVars, ownerVars, now, history>>

(* synthesize() throws: on_error is called from the handler. *)
SynthesizeThrows ==
  /\ wpc = "synthesizing"
  /\ verdict' = "failed"
  /\ wpc' = "callback"
  /\ UNCHANGED <<poolShared, wjob, callVars, ownerVars, now, history>>

(* The second deadline check decides between on_error and on_success. *)
WorkerJudge ==
  /\ wpc = "synthesized"
  /\ verdict' = IF now >= deadline[wjob] THEN "exceeded" ELSE "success"
  /\ wpc' = "callback"
  /\ UNCHANGED <<poolShared, wjob, callVars, ownerVars, now, history>>

(* Variant: without ActiveGuard, the error path forgets active_.fetch_sub. *)
CallbackReturnsUnguarded ==
  /\ wpc = "callback"
  /\ calls' = [calls EXCEPT ![wjob] = @ + 1]
  /\ outcome' = [outcome EXCEPT ![wjob] = verdict]
  /\ answered' = Append(answered, wjob)
  /\ verdict' = "none"
  /\ wpc' = IF verdict = "success" THEN "release" ELSE "lock"
  /\ wjob' = IF verdict = "success" THEN wjob ELSE NoJob
  /\ UNCHANGED <<poolShared, callVars, ownerVars, now, enqueued>>

(* The callback has run: the job is answered, and what the callback throws  *)
(* is logged and dropped. An expired job's iteration ends here (continue);   *)
(* the others still have to leave ActiveGuard's scope.                       *)
CallbackReturns ==
  /\ wpc = "callback"
  /\ calls' = [calls EXCEPT ![wjob] = @ + 1]
  /\ outcome' = [outcome EXCEPT ![wjob] = verdict]
  /\ answered' = Append(answered, wjob)
  /\ verdict' = "none"
  /\ wpc' = IF verdict = "timed_out" THEN "lock" ELSE "release"
  /\ wjob' = IF verdict = "timed_out" THEN NoJob ELSE wjob
  /\ UNCHANGED <<poolShared, callVars, ownerVars, now, enqueued>>

WorkerRelease ==
  /\ wpc = "release"
  /\ active' = active - 1
  /\ wjob' = NoJob
  /\ wpc' = "lock"
  /\ UNCHANGED <<queue, accepting, mutex, expired, joinable, verdict,
                 callVars, ownerVars, now, history>>

Worker ==
  \/ WorkerLock \/ WorkerCheck \/ WorkerSleep \/ WorkerExit \/ WorkerTake
  \/ WorkerExpire \/ WorkerStart \/ SynthesizeReturns \/ SynthesizeThrows
  \/ WorkerJudge \/ CallbackReturns \/ WorkerRelease

-----------------------------------------------------------------------------
(***************************************************************************)
(* shutdown(), called by the owner and once more by the destructor.  The    *)
(* destructor runs only when no call of submit() is under way: the owner    *)
(* has joined the threads that submit.                                      *)
(***************************************************************************)
(* Variant: accepting_ is an atomic, so why lock. *)
ShutdownFlagUnlocked ==
  /\ opc = "idle"
  /\ stops = 0 \/ (stops = 1 /\ \A j \in Jobs : jpc[j] \notin {"enqueue", "notify"})
  /\ accepting' = FALSE
  /\ opc' = "notify"
  /\ UNCHANGED <<queue, mutex, active, expired, joinable, workerVars,
                 callVars, stops, now, history>>

ShutdownFlag ==
  /\ opc = "idle"
  /\ stops = 0 \/ (stops = 1 /\ \A j \in Jobs : jpc[j] \notin {"enqueue", "notify"})
  /\ ~mutex
  /\ accepting' = FALSE
  /\ opc' = "notify"
  /\ UNCHANGED <<queue, mutex, active, expired, joinable, workerVars,
                 callVars, stops, now, history>>

(* Variant: nobody is notified. *)
ShutdownNotifyMissing ==
  /\ opc = "notify"
  /\ opc' = "join"
  /\ UNCHANGED <<poolShared, workerVars, callVars, stops, now, history>>

ShutdownNotify ==
  /\ opc = "notify"
  /\ opc' = "join"
  /\ WakeWorker
  /\ UNCHANGED <<poolShared, wjob, verdict, callVars, stops, now, history>>

(* join() blocks until worker_loop() has returned. *)
ShutdownJoin ==
  /\ opc = "join"
  /\ joinable => wpc = "exited"
  /\ joinable' = FALSE
  /\ opc' = "idle"
  /\ stops' = stops + 1
  /\ UNCHANGED <<queue, accepting, mutex, active, expired, workerVars,
                 callVars, now, history>>

Shutdown == ShutdownNotify \/ ShutdownJoin

Tick ==
  /\ now < MaxTime
  /\ now' = now + 1
  /\ UNCHANGED <<poolShared, workerVars, callVars, ownerVars, history>>

PoolNext ==
  \/ \E j \in Jobs :
       \/ \E d \in ExplicitDeadlines \cup {Epoch} : SubmitCall(j, d)
       \/ Submit(j)
  \/ Worker
  \/ SpuriousWakeup
  \/ ShutdownFlag
  \/ Shutdown
  \/ Tick

PoolSpec == PoolInit /\ [][PoolNext]_poolVars

(***************************************************************************)
(* Fairness: the operating system runs every thread that can move, and a    *)
(* mutex that is released again and again is not denied to one caller       *)
(* forever (SF; it matters only if spurious wakeups never stop).  That      *)
(* Worker is fair also says that synthesize() and the callbacks return.     *)
(* Nobody is obliged to call submit() or shutdown().                        *)
(***************************************************************************)
PoolFairness ==
  /\ \A j \in Jobs : SF_poolVars(Submit(j))
  /\ WF_poolVars(Worker)
  /\ WF_poolVars(Shutdown)

FairPoolSpec == PoolSpec /\ PoolFairness

-----------------------------------------------------------------------------
(* The values the variables range over; queue_ never outgrows               *)
(* max_queue_depth_ and active_ is 0 or 1, as inference_pool.hpp says.      *)
TypeOK ==
  /\ queue \in Seq(Jobs) /\ Len(queue) <= MaxQueueDepth
  /\ accepting \in BOOLEAN
  /\ mutex \in BOOLEAN
  /\ active \in 0 .. 1
  /\ expired \in Nat
  /\ joinable \in BOOLEAN
  /\ wpc \in {"lock", "check", "sleep", "waiting", "exited", "taken",
              "synthesizing", "synthesized", "callback", "release"}
  /\ wjob \in Jobs \cup {NoJob}
  /\ verdict \in Answers \cup {"none"}
  /\ jpc \in [Jobs -> {"idle", "enqueue", "notify", "accepted", "refused"}]
  /\ deadline \in [Jobs -> Nat]
  /\ opc \in {"idle", "notify", "join"}
  /\ stops \in 0 .. 2
  /\ now \in Nat
  /\ asked \in [Jobs -> Nat]
  /\ called \in [Jobs -> Nat]
  /\ calls \in [Jobs -> Nat]
  /\ outcome \in [Jobs -> Answers \cup {"none"}]
  /\ enqueued \in Seq(Jobs)
  /\ answered \in Seq(Jobs)

(* No wakeup is lost: a worker that sleeps in cv_.wait although there is    *)
(* work, or although the pool is shutting down, has a notification coming.  *)
(* shutdown() takes mutex_ to store an atomic for this reason alone.        *)
NoLostWakeup ==
  wpc = "waiting" /\ (queue # <<>> \/ ~accepting) =>
    opc = "notify" \/ \E j \in Jobs : jpc[j] = "notify"

(* A job is answered at most once, and only if submit() returned (or is     *)
(* about to return) true: handle_speech destroys what the callbacks of a    *)
(* refused job refer to.                                                    *)
AtMostOneAnswer ==
  \A j \in Jobs : calls[j] <= 1 /\ (calls[j] = 1 => jpc[j] \in Taken)

(* The job in the worker's hands and not answered yet, as a sequence. *)
InHand == IF wpc \in Holding THEN <<wjob>> ELSE <<>>

(* Jobs are answered in the order submit() accepted them, and none is lost  *)
(* between the queue, the worker and the answer.                            *)
FifoOrder == enqueued = answered \o InHand \o queue

(* Once shutdown() has joined the worker nothing accepted is left behind:   *)
(* "drains in-flight work, joins worker" (inference_pool.hpp).              *)
DrainedWhenJoined ==
  ~joinable => \A j \in Jobs : jpc[j] \in Taken => calls[j] = 1

(* No job is told that it timed out before the deadline its caller set, or  *)
(* before request_timeout_seconds have passed since submit() was called.    *)
NoEarlyTimeout ==
  \A j \in Jobs : outcome[j] \in {"timed_out", "exceeded"} =>
    now >= IF asked[j] = Epoch THEN called[j] + RequestTimeout ELSE asked[j]

(* The counters agree with what happened: active_jobs() is 1 exactly inside *)
(* ActiveGuard's scope, whichever path leaves it, and expired_jobs() counts *)
(* the jobs that were told they timed out in the queue.                     *)
MonitorsAgree ==
  /\ active = IF wpc \in Guarded \/ (wpc = "callback" /\ verdict # "timed_out")
              THEN 1 ELSE 0
  /\ expired = Cardinality({j \in Jobs : outcome[j] = "timed_out"})
               + IF verdict = "timed_out" THEN 1 ELSE 0

(* Every call of submit() is refused or its job answered, even when a       *)
(* shutdown overtakes it: handle_speech waits for the answer without limit. *)
AnsweredEventually ==
  \A j \in Jobs :
    jpc[j] = "enqueue" ~> (jpc[j] = "refused" \/ calls[j] = 1)

(* shutdown() returns, from whatever state of the worker and the queue. *)
ShutdownCompletes == opc = "notify" ~> (opc = "idle" /\ ~joinable)

(* The pool keeps the promise SynthesisQueue states. *)
JobStatus(j) ==
  CASE calls[j] >= 1       -> "answered"
    [] jpc[j] = "refused"  -> "refused"
    [] jpc[j] \in Taken /\ calls[j] = 0 -> "pending"
    [] OTHER               -> "new"

Promise == INSTANCE SynthesisQueue WITH
  Jobs <- Jobs,
  Capacity <- MaxQueueDepth,
  status <- [j \in Jobs |-> JobStatus(j)],
  open <- accepting,
  stopped <- ~joinable

(* InferencePool, with its threads, its mutex and its condition variable,   *)
(* implements SynthesisQueue: safety and the promise that answers come.     *)
ImplementsQueue == Promise!AbsSpec

=============================================================================
