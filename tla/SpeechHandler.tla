---------------------------- MODULE SpeechHandler ----------------------------
(***************************************************************************)
(* handle_speech() on the HTTP threads, composed with the InferencePool it  *)
(* submits to and with main(), which stops the listener and then the pool.  *)
(*                                                                          *)
(* A request r \in Jobs is the job it submits.  The callbacks capture the   *)
(* handler's stack by reference: result_mutex, result_cv, result_ready and  *)
(* the two results live from line 269 to the handler's return.  The         *)
(* critical sections of result_mutex are split into their steps on both     *)
(* sides, and the gauge updates into the read of queue_depth() and the Set. *)
(***************************************************************************)
EXTENDS InferencePool, Validation

CONSTANTS
  HttpThreads,     \* size of the HTTP library's thread pool
  WaitForListener  \* the owner shuts the pool down after listen() has returned, as
                   \* main() does; FALSE: at any time, as TtsServer::shutdown() allows

ASSUME SpeechAssumption ==
  /\ HttpThreads \in Nat \ {0}
  /\ WaitForListener \in BOOLEAN

VARIABLES
  hpc,        \* where each request's handler is
  depthRead,  \* queue_depth() as the handler read it, before the Set
  resultReady,\* result_ready
  resultError,\* synth_error is not empty
  rlock,      \* who holds result_mutex
  cbpc,       \* where the worker is in the callback
  status,     \* the HTTP status of the response
  listening,  \* the listener accepts connections
  activeGauge,\* Metrics::active_jobs
  depthGauge, \* Metrics::queue_depth
  requests    \* Metrics::requests_total, by status

frameVars  == <<resultReady, resultError, rlock, cbpc>>
metricVars == <<activeGauge, depthGauge, requests>>
speechVars == <<hpc, depthRead, resultReady, resultError, rlock, cbpc, status,
                listening, activeGauge, depthGauge, requests>>
allVars    == <<poolVars, speechVars>>

Codes == {200, 400, 413, 500, 503}

(* The handler's frame exists: from line 269 to its return. *)
Framed == {"count", "read1", "set1", "submitting", "set2", "wait", "check",
           "sleep", "blocked", "down", "read3", "set3", "respond"}

Busy == {r \in Jobs : hpc[r] \notin {"idle", "arrived", "done"}}

SpeechInit ==
  /\ PoolInit
  /\ hpc = [r \in Jobs |-> "idle"]
  /\ depthRead = [r \in Jobs |-> 0]
  /\ resultReady = [r \in Jobs |-> FALSE]
  /\ resultError = [r \in Jobs |-> FALSE]
  /\ rlock = [r \in Jobs |-> "free"]
  /\ cbpc = "none"
  /\ status = [r \in Jobs |-> 0]
  /\ listening = TRUE
  /\ activeGauge = 0
  /\ depthGauge = 0
  /\ requests = [c \in Codes |-> 0]

Goto(r, p) == hpc' = [hpc EXCEPT ![r] = p]

(* requests_total(c).Increment() and the return with status c. *)
Respond(r, c) ==
  /\ requests' = [requests EXCEPT ![c] = @ + 1]
  /\ status' = [status EXCEPT ![r] = c]
  /\ Goto(r, "done")

-----------------------------------------------------------------------------
(* The HTTP library accepts a connection, and later gives it a thread. *)
Arrive(r) ==
  /\ listening
  /\ hpc[r] = "idle"
  /\ Goto(r, "arrived")
  /\ UNCHANGED <<poolVars, depthRead, frameVars, status, listening, metricVars>>

Dispatch(r) ==
  /\ hpc[r] = "arrived"
  /\ Cardinality(Busy) < HttpThreads
  /\ Goto(r, "validate")
  /\ UNCHANGED <<poolVars, depthRead, frameVars, status, listening, metricVars>>

(* The checks of validation.cpp touch nothing shared: they are one step, of *)
(* which only the verdict on the body that came matters from here on.       *)
ValidateOk(r) ==
  /\ hpc[r] = "validate"
  /\ Ok \in Verdicts
  /\ Goto(r, "admit")
  /\ UNCHANGED <<poolVars, depthRead, frameVars, status, listening, metricVars>>

ValidateFails(r) ==
  /\ hpc[r] = "validate"
  /\ \E c \in Verdicts \cap {400, 413} : Respond(r, c)
  /\ UNCHANGED <<poolVars, depthRead, frameVars, listening, activeGauge, depthGauge>>

(* parsed.value() throws on a field of the wrong type; only parse_error is  *)
(* caught, so the HTTP library answers 500 and no counter is incremented.   *)
ValidateThrows(r) ==
  /\ hpc[r] = "validate"
  /\ Throws \in Verdicts
  /\ status' = [status EXCEPT ![r] = 500]
  /\ Goto(r, "done")
  /\ UNCHANGED <<poolVars, depthRead, frameVars, listening, metricVars>>

(* is_accepting() reads the atomic without the mutex. *)
AdmitOk(r) ==
  /\ hpc[r] = "admit"
  /\ accepting
  /\ Goto(r, "count")
  /\ UNCHANGED <<poolVars, depthRead, frameVars, status, listening, metricVars>>

AdmitFails(r) ==
  /\ hpc[r] = "admit"
  /\ ~accepting
  /\ Respond(r, 503)
  /\ UNCHANGED <<poolVars, depthRead, frameVars, listening, activeGauge, depthGauge>>

CountUp(r) ==
  /\ hpc[r] = "count"
  /\ activeGauge' = activeGauge + 1
  /\ Goto(r, "read1")
  /\ UNCHANGED <<poolVars, depthRead, frameVars, status, listening, depthGauge, requests>>

(* queue_depth(), under the pool's mutex. *)
ReadDepth(r) ==
  /\ ~mutex
  /\ \/ hpc[r] = "read1" /\ Goto(r, "set1")
     \/ hpc[r] = "submitting" /\ jpc[r] = "accepted" /\ Goto(r, "set2")
     \/ hpc[r] = "read3" /\ Goto(r, "set3")
  /\ depthRead' = [depthRead EXCEPT ![r] = Len(queue)]
  /\ UNCHANGED <<poolVars, frameVars, status, listening, metricVars>>

(* Variant: the handler gives its thread back without waiting for its job. *)
SetDepthNoWait(r) ==
  /\ \/ hpc[r] = "set2" /\ Goto(r, "done")
     \/ hpc[r] = "set3" /\ Goto(r, "respond")
  /\ depthGauge' = depthRead[r]
  /\ UNCHANGED <<poolVars, depthRead, frameVars, status, listening, activeGauge, requests>>

SetDepth(r) ==
  /\ \/ hpc[r] = "set2" /\ Goto(r, "wait")
     \/ hpc[r] = "set3" /\ Goto(r, "respond")
  /\ depthGauge' = depthRead[r]
  /\ UNCHANGED <<poolVars, depthRead, frameVars, status, listening, activeGauge, requests>>

(* The Set before submit() and the call: the deadline is left at its default. *)
CallSubmit(r) ==
  /\ hpc[r] = "set1"
  /\ depthGauge' = depthRead[r]
  /\ SubmitCall(r, Epoch)
  /\ Goto(r, "submitting")
  /\ UNCHANGED <<depthRead, frameVars, status, listening, activeGauge, requests>>

InSubmit(r) == Submit(r) /\ UNCHANGED speechVars

(* Variants: the gauge is left alone on the way out; it is decremented by a  *)
(* guard object and by hand.                                                 *)
QueueFullLeaks(r) ==
  /\ hpc[r] = "submitting"
  /\ jpc[r] = "refused"
  /\ Respond(r, 503)
  /\ UNCHANGED <<poolVars, depthRead, frameVars, listening, activeGauge, depthGauge>>

QueueFullTwice(r) ==
  /\ hpc[r] = "submitting"
  /\ jpc[r] = "refused"
  /\ activeGauge' = activeGauge - 2
  /\ Respond(r, 503)
  /\ UNCHANGED <<poolVars, depthRead, frameVars, listening, depthGauge>>

QueueFull(r) ==
  /\ hpc[r] = "submitting"
  /\ jpc[r] = "refused"
  /\ activeGauge' = activeGauge - 1
  /\ Respond(r, 503)
  /\ UNCHANGED <<poolVars, depthRead, frameVars, listening, depthGauge>>

-----------------------------------------------------------------------------
(* result_cv.wait(lock, result_ready) and its unlock. *)
WaitLock(r) ==
  /\ hpc[r] = "wait"
  /\ rlock[r] = "free"
  /\ rlock' = [rlock EXCEPT ![r] = "handler"]
  /\ Goto(r, "check")
  /\ UNCHANGED <<poolVars, depthRead, resultReady, resultError, cbpc, status,
                 listening, metricVars>>

WaitCheck(r) ==
  /\ hpc[r] = "check"
  /\ ~resultReady[r]
  /\ Goto(r, "sleep")
  /\ UNCHANGED <<poolVars, depthRead, frameVars, status, listening, metricVars>>

WaitSleep(r) ==
  /\ hpc[r] = "sleep"
  /\ rlock' = [rlock EXCEPT ![r] = "free"]
  /\ Goto(r, "blocked")
  /\ UNCHANGED <<poolVars, depthRead, resultReady, resultError, cbpc, status,
                 listening, metricVars>>

WaitSpurious(r) ==
  /\ hpc[r] = "blocked"
  /\ Goto(r, "wait")
  /\ UNCHANGED <<poolVars, depthRead, frameVars, status, listening, metricVars>>

WaitDone(r) ==
  /\ hpc[r] = "check"
  /\ resultReady[r]
  /\ rlock' = [rlock EXCEPT ![r] = "free"]
  /\ Goto(r, "down")
  /\ UNCHANGED <<poolVars, depthRead, resultReady, resultError, cbpc, status,
                 listening, metricVars>>

CountDown(r) ==
  /\ hpc[r] = "down"
  /\ activeGauge' = activeGauge - 1
  /\ Goto(r, "read3")
  /\ UNCHANGED <<poolVars, depthRead, frameVars, status, listening, depthGauge, requests>>

Finish(r) ==
  /\ hpc[r] = "respond"
  /\ Respond(r, IF resultError[r] THEN 500 ELSE 200)
  /\ UNCHANGED <<poolVars, depthRead, frameVars, listening, activeGauge, depthGauge>>

Handle(r) ==
  \/ Dispatch(r) \/ ValidateOk(r) \/ ValidateFails(r) \/ ValidateThrows(r)
  \/ AdmitOk(r) \/ AdmitFails(r) \/ CountUp(r) \/ ReadDepth(r) \/ SetDepth(r)
  \/ CallSubmit(r) \/ InSubmit(r) \/ QueueFull(r)
  \/ WaitLock(r) \/ WaitCheck(r) \/ WaitSleep(r) \/ WaitDone(r)
  \/ CountDown(r) \/ Finish(r)

-----------------------------------------------------------------------------
(***************************************************************************)
(* on_success and on_error, run by the worker: lock, store, notify, and the *)
(* unlock with which the callback returns.                                  *)
(***************************************************************************)
(* Variant: no lock around one flag. *)
CallbackNoLock ==
  /\ wpc = "callback"
  /\ cbpc = "none"
  /\ cbpc' = "locked"
  /\ UNCHANGED <<poolVars, hpc, depthRead, resultReady, resultError, rlock, status,
                 listening, metricVars>>

CallbackLock ==
  /\ wpc = "callback"
  /\ cbpc = "none"
  /\ rlock[wjob] = "free"
  /\ rlock' = [rlock EXCEPT ![wjob] = "worker"]
  /\ cbpc' = "locked"
  /\ UNCHANGED <<poolVars, hpc, depthRead, resultReady, resultError, status,
                 listening, metricVars>>

(* Variant: the lock covers the assignments only, not the notification. *)
CallbackStoreUnlock ==
  /\ cbpc = "locked"
  /\ resultReady' = [resultReady EXCEPT ![wjob] = TRUE]
  /\ resultError' = [resultError EXCEPT ![wjob] = verdict # "success"]
  /\ rlock' = [rlock EXCEPT ![wjob] = "free"]
  /\ cbpc' = "stored"
  /\ UNCHANGED <<poolVars, hpc, depthRead, status, listening, metricVars>>

(* Variants: on_error forgets result_ready, or synth_error. *)
CallbackStoreNotReady ==
  /\ cbpc = "locked"
  /\ resultReady' = [resultReady EXCEPT ![wjob] = verdict = "success"]
  /\ resultError' = [resultError EXCEPT ![wjob] = verdict # "success"]
  /\ cbpc' = "stored"
  /\ UNCHANGED <<poolVars, hpc, depthRead, rlock, status, listening, metricVars>>

CallbackStoreNoError ==
  /\ cbpc = "locked"
  /\ resultReady' = [resultReady EXCEPT ![wjob] = TRUE]
  /\ cbpc' = "stored"
  /\ UNCHANGED <<poolVars, hpc, depthRead, resultError, rlock, status, listening,
                 metricVars>>

CallbackStore ==
  /\ cbpc = "locked"
  /\ resultReady' = [resultReady EXCEPT ![wjob] = TRUE]
  /\ resultError' = [resultError EXCEPT ![wjob] = verdict # "success"]
  /\ cbpc' = "stored"
  /\ UNCHANGED <<poolVars, hpc, depthRead, rlock, status, listening, metricVars>>

(* Variant: nobody is notified. *)
CallbackNotifyMissing ==
  /\ cbpc = "stored"
  /\ cbpc' = "notified"
  /\ UNCHANGED <<poolVars, hpc, depthRead, resultReady, resultError, rlock, status,
                 listening, metricVars>>

CallbackNotify ==
  /\ cbpc = "stored"
  /\ cbpc' = "notified"
  /\ hpc' = [hpc EXCEPT ![wjob] = IF @ = "blocked" THEN "wait" ELSE @]
  /\ UNCHANGED <<poolVars, depthRead, resultReady, resultError, rlock, status,
                 listening, metricVars>>

CallbackUnlock ==
  /\ cbpc = "notified"
  /\ cbpc' = "none"
  /\ rlock' = [rlock EXCEPT ![wjob] = "free"]
  /\ CallbackReturns
  /\ UNCHANGED <<hpc, depthRead, resultReady, resultError, status, listening, metricVars>>

WorkerAlone ==
  /\ \/ WorkerLock \/ WorkerCheck \/ WorkerSleep \/ WorkerExit \/ WorkerTake
     \/ WorkerExpire \/ WorkerStart \/ SynthesizeReturns \/ SynthesizeThrows
     \/ WorkerJudge \/ WorkerRelease
  /\ UNCHANGED speechVars

WorkerThread ==
  WorkerAlone \/ CallbackLock \/ CallbackStore \/ CallbackNotify \/ CallbackUnlock

-----------------------------------------------------------------------------
(***************************************************************************)
(* main(): a signal stops the listener; listen() returns when every         *)
(* accepted connection has been served; then the pool is shut down, and     *)
(* destroyed when main() returns.  Without WaitForListener the pool may be  *)
(* shut down under the handlers, as the tests of handle_speech do.          *)
(***************************************************************************)
StopListening ==
  /\ listening
  /\ listening' = FALSE
  /\ UNCHANGED <<poolVars, hpc, depthRead, frameVars, status, metricVars>>

ListenReturned == ~listening /\ \A r \in Jobs : hpc[r] \in {"idle", "done"}

(* Variant: main() stops the pool without waiting for listen(). *)
ShutdownAtOnce ==
  /\ stops = 0 \/ ListenReturned
  /\ ShutdownFlag
  /\ UNCHANGED speechVars

(* The pool's destructor, the second shutdown(), always comes last. *)
ServerShutdown ==
  /\ ListenReturned \/ (stops = 0 /\ ~WaitForListener)
  /\ ShutdownFlag
  /\ UNCHANGED speechVars

OwnerWaits == Shutdown /\ UNCHANGED speechVars

ClockAndWakeups == (Tick \/ SpuriousWakeup) /\ UNCHANGED speechVars

SpeechNext ==
  \/ \E r \in Jobs : Arrive(r) \/ Handle(r) \/ WaitSpurious(r)
  \/ WorkerThread
  \/ StopListening
  \/ ServerShutdown
  \/ OwnerWaits
  \/ ClockAndWakeups

SpeechSpec == SpeechInit /\ [][SpeechNext]_allVars

(* As for the pool: threads run, and neither mutex starves a thread. *)
SpeechFairness ==
  /\ \A r \in Jobs : SF_allVars(Handle(r))
  /\ SF_allVars(WorkerThread)
  /\ SF_allVars(ServerShutdown)
  /\ WF_allVars(OwnerWaits)

FairSpeechSpec == SpeechSpec /\ SpeechFairness

-----------------------------------------------------------------------------
(* The values the variables range over; the active gauge never goes below   *)
(* zero.                                                                    *)
SpeechTypeOK ==
  /\ TypeOK
  /\ hpc \in [Jobs -> Framed \cup {"idle", "arrived", "validate", "admit", "done"}]
  /\ depthRead \in [Jobs -> 0 .. MaxQueueDepth]
  /\ resultReady \in [Jobs -> BOOLEAN]
  /\ resultError \in [Jobs -> BOOLEAN]
  /\ rlock \in [Jobs -> {"free", "handler", "worker"}]
  /\ cbpc \in {"none", "locked", "stored", "notified"}
  /\ status \in [Jobs -> Codes \cup {0}]
  /\ listening \in BOOLEAN
  /\ activeGauge \in Nat
  /\ depthGauge \in 0 .. MaxQueueDepth
  /\ requests \in [Codes -> Nat]

(* The worker never runs a callback into a stack frame that is gone: a job  *)
(* in the queue or in the worker's hands has a handler that has not         *)
(* returned. The callbacks hold nothing but references to that frame.       *)
FrameAlive ==
  /\ wpc \in Holding => hpc[wjob] \in Framed
  /\ \A i \in 1 .. Len(queue) : hpc[queue[i]] \in Framed

(* A handler that sleeps although its result is there is being notified:    *)
(* neither side of result_cv loses the wakeup.                              *)
ResultNotLost ==
  \A r \in Jobs : hpc[r] = "blocked" /\ resultReady[r] =>
    wjob = r /\ cbpc = "stored"

(* The response tells what the pool answered: 200 exactly for on_success,   *)
(* 500 for every on_error, 503 only for a job the pool does not have.       *)
ResponseMatchesAnswer ==
  \A r \in Jobs : hpc[r] = "done" =>
    CASE status[r] = 200 -> outcome[r] = "success"
      [] status[r] = 500 -> outcome[r] \notin {"success"}
      [] OTHER           -> calls[r] = 0 /\ jpc[r] \notin Taken

(* When no request is being handled the active gauge is back at zero,       *)
(* whichever way the requests went.                                         *)
GaugeRestored == Busy = {} => activeGauge = 0

(* A graceful stop turns nobody away: as long as a connection is waiting or *)
(* a request is being handled the pool is open, so that a 503 always means  *)
(* a full queue.                                                            *)
StopTurnsNobodyAway ==
  \A r \in Jobs : hpc[r] \notin {"idle", "done"} => accepting

(* Each job keeps its HTTP thread: the jobs in the queue and the requests    *)
(* that have yet to submit one are at most as many as the busy threads.  So  *)
(* a queue as deep as the HTTP library has threads is never full when a      *)
(* handler calls submit(): with the default depth of 10 and eight threads no *)
(* client is answered "queue_full".                                          *)
ThreadsBoundQueue ==
  Len(queue) + Cardinality({r \in Busy : jpc[r] = "idle"}) <= Cardinality(Busy)

(* Every accepted connection gets a response, also when a signal stops the  *)
(* server meanwhile: handle_speech waits without a time limit.              *)
EveryRequestServed == \A r \in Jobs : hpc[r] = "arrived" ~> hpc[r] = "done"

(* A stop completes: main() returns once the listener has been stopped. *)
StopCompletes == ~listening ~> stops = 2

(* What metrics.cpp says of opentts_queue_depth: "Jobs waiting in queue".   *)
(* With no request being handled nothing waits.                             *)
DepthGaugeTrue == Busy = {} => depthGauge = Len(queue)

=============================================================================
