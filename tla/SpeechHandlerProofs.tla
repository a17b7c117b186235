------------------------ MODULE SpeechHandlerProofs ------------------------
(***************************************************************************)
(* What holds of handle_speech, its callbacks and the order of shutdown for *)
(* every number of requests and HTTP threads, every depth of the queue and  *)
(* every timeout.                                                           *)
(*                                                                          *)
(* Every step of the composition is a step of the pool or leaves it alone,  *)
(* so that the pool's invariants hold here too.  On top of them: where a    *)
(* handler is says where its call of submit() is (CallInv); who holds       *)
(* result_mutex and what result_ready means (ResultInv); what was answered  *)
(* and what is said of it (AnswerInv); who is counted (GaugeInv).           *)
(***************************************************************************)
EXTENDS SpeechHandler, PoolPromiseProofs

(* handle_speech, the callbacks and main() use the pool as its interface    *)
(* allows: each step is one of the pool's or leaves it alone.               *)
LEMMA PoolStep == [SpeechNext]_allVars => [PoolNext]_poolVars
<1> SUFFICES ASSUME [SpeechNext]_allVars PROVE [PoolNext]_poolVars
  OBVIOUS
<1>1. ASSUME NEW r \in Jobs, CallSubmit(r) PROVE PoolNext
  BY <1>1 DEF CallSubmit, PoolNext
<1>2. ASSUME NEW r \in Jobs, InSubmit(r) PROVE PoolNext
  BY <1>2 DEF InSubmit, PoolNext
<1>3. ASSUME NEW r \in Jobs, Arrive(r) \/ Handle(r) \/ WaitSpurious(r) PROVE [PoolNext]_poolVars
  BY <1>1, <1>2, <1>3 DEF Handle, Arrive, WaitSpurious, Dispatch, ValidateOk, ValidateFails,
     ValidateThrows, AdmitOk, AdmitFails, CountUp, ReadDepth, SetDepth, QueueFull, WaitLock,
     WaitCheck, WaitSleep, WaitDone, CountDown, Finish
<1>4. CASE WorkerThread
  BY <1>4 DEF WorkerThread, WorkerAlone, CallbackLock, CallbackStore, CallbackNotify, CallbackUnlock,
     PoolNext, Worker
<1>5. CASE StopListening \/ ServerShutdown \/ OwnerWaits \/ ClockAndWakeups
  BY <1>5 DEF StopListening, ServerShutdown, OwnerWaits, ClockAndWakeups, PoolNext
<1>6. CASE UNCHANGED allVars
  BY <1>6 DEF allVars
<1>7. QED
  BY <1>3, <1>4, <1>5, <1>6 DEF SpeechNext

(* The composition implements the pool's specification: what is proved of   *)
(* InferencePool alone holds under handle_speech and main().                *)
THEOREM SpeechImplementsPool == SpeechSpec => PoolSpec
<1>1. SpeechInit => PoolInit
  BY DEF SpeechInit
<1>2. QED
  BY <1>1, PoolStep, PTL DEF SpeechSpec, PoolSpec

(* Under handle_speech and main() the pool keeps the promise it makes to    *)
(* callers: handle_speech may wait without limit, for each job it submitted *)
(* is refused with a reason or stays pending until it is answered, once.    *)
THEOREM SpeechKeepsPromise == SpeechSpec => Promise!AbsSafe
BY SpeechImplementsPool, PoolKeepsPromise, PTL

(* The pool's own invariants. *)
PoolInv == WorkerInv /\ SyncInv /\ JobsInv

(* They hold throughout. *)
LEMMA PoolInvHolds == SpeechSpec => []PoolInv
<1>1. PoolSpec => []PoolInv
  BY WorkerInvInit, WorkerInvNext, SyncInvInit, SyncInvNext, JobsInvInit, JobsInvNext, PTL
     DEF PoolSpec, PoolInv
<1>2. QED
  BY <1>1, SpeechImplementsPool, PTL

-----------------------------------------------------------------------------
Places == Framed \cup {"idle", "arrived", "validate", "admit", "done"}

(* SpeechTypeOK without the pool and without the active gauge, of which it  *)
(* takes more to know that it never goes below zero.                        *)
HandlerTypeOK ==
  /\ hpc \in [Jobs -> Places]
  /\ depthRead \in [Jobs -> 0 .. MaxQueueDepth]
  /\ resultReady \in [Jobs -> BOOLEAN]
  /\ resultError \in [Jobs -> BOOLEAN]
  /\ rlock \in [Jobs -> {"free", "handler", "worker"}]
  /\ cbpc \in {"none", "locked", "stored", "notified"}
  /\ status \in [Jobs -> Codes \cup {0}]
  /\ listening \in BOOLEAN
  /\ depthGauge \in 0 .. MaxQueueDepth
  /\ requests \in [Codes -> Nat]

(* No request has come. *)
LEMMA HandlerTypeInit == SpeechInit => HandlerTypeOK
BY PoolAssumption DEF SpeechInit, HandlerTypeOK, Places, Framed, Codes

(* Every step of a handler keeps the types. *)
LEMMA HandlerTypeHandler ==
  ASSUME PoolInv, HandlerTypeOK, NEW r \in Jobs, Arrive(r) \/ Handle(r) \/ WaitSpurious(r)
  PROVE  HandlerTypeOK'
<1> USE DEF HandlerTypeOK, Places, Framed, Codes, Goto, Respond, frameVars, metricVars
<1>1. CASE Arrive(r) \/ Dispatch(r) \/ ValidateOk(r) \/ AdmitOk(r) \/ CountUp(r)
  BY <1>1 DEF Arrive, Dispatch, ValidateOk, AdmitOk, CountUp
<1>2. CASE ValidateFails(r) \/ ValidateThrows(r) \/ AdmitFails(r) \/ QueueFull(r) \/ Finish(r)
  BY <1>2 DEF ValidateFails, ValidateThrows, AdmitFails, QueueFull, Finish
<1>3. CASE ReadDepth(r)
  <2>1. Len(queue) \in 0 .. MaxQueueDepth
    BY PoolAssumption, LenProperties DEF PoolInv, WorkerInv, TypeOK
  <2>2. depthRead' \in [Jobs -> 0 .. MaxQueueDepth]
    BY <1>3, <2>1 DEF ReadDepth
  <2>3. PICK p \in Places : hpc' = [hpc EXCEPT ![r] = p]
    BY <1>3 DEF ReadDepth
  <2>4. QED
    BY <1>3, <2>2, <2>3 DEF ReadDepth
<1>4. CASE SetDepth(r) \/ CallSubmit(r)
  BY <1>4 DEF SetDepth, CallSubmit
<1>5. CASE InSubmit(r)
  BY <1>5 DEF InSubmit, speechVars
<1>6. CASE WaitLock(r) \/ WaitCheck(r) \/ WaitSleep(r) \/ WaitSpurious(r) \/ WaitDone(r)
  BY <1>6 DEF WaitLock, WaitCheck, WaitSleep, WaitSpurious, WaitDone
<1>7. CASE CountDown(r)
  BY <1>7 DEF CountDown
<1>8. QED
  BY <1>1, <1>2, <1>3, <1>4, <1>5, <1>6, <1>7 DEF Handle

(* No step of any thread breaks the types. *)
LEMMA HandlerTypeNext == PoolInv /\ HandlerTypeOK /\ [SpeechNext]_allVars => HandlerTypeOK'
<1> SUFFICES ASSUME PoolInv, HandlerTypeOK, [SpeechNext]_allVars PROVE HandlerTypeOK'
  OBVIOUS
<1>1. ASSUME NEW r \in Jobs, Arrive(r) \/ Handle(r) \/ WaitSpurious(r) PROVE HandlerTypeOK'
  BY <1>1, HandlerTypeHandler
<1>2. CASE WorkerThread
  BY <1>2 DEF WorkerThread, WorkerAlone, CallbackLock, CallbackStore, CallbackNotify,
     CallbackUnlock, HandlerTypeOK, Places, Framed, speechVars, metricVars
<1>3. CASE StopListening \/ ServerShutdown \/ OwnerWaits \/ ClockAndWakeups
  BY <1>3 DEF StopListening, ServerShutdown, OwnerWaits, ClockAndWakeups, HandlerTypeOK,
     speechVars, frameVars, metricVars
<1>4. CASE UNCHANGED allVars
  BY <1>4 DEF allVars, speechVars, HandlerTypeOK
<1>5. QED
  BY <1>1, <1>2, <1>3, <1>4 DEF SpeechNext

-----------------------------------------------------------------------------
(* Before the call of submit(), after it has returned true, and after the   *)
(* wait for the result.                                                     *)
Before  == {"idle", "arrived", "validate", "admit", "count", "read1", "set1"}
Waiting == {"set2", "wait", "check", "sleep", "blocked"}
Past    == {"down", "read3", "set3", "respond"}

(* Where the handler is says where its call of submit() is, and that it     *)
(* goes past its wait only when its job has been answered.                  *)
CallInv ==
  \A r \in Jobs :
    /\ hpc[r] \in Before => jpc[r] = "idle"
    /\ hpc[r] = "submitting" => jpc[r] # "idle"
    /\ hpc[r] \in Waiting \cup Past => jpc[r] = "accepted"
    /\ hpc[r] \in Past => calls[r] = 1
    /\ hpc[r] = "done" => jpc[r] \in {"idle", "refused"} \/ (jpc[r] = "accepted" /\ calls[r] = 1)

(* Who holds result_mutex, and what result_ready says: the job has been     *)
(* answered, or its callback is past the assignment.                        *)
ResultInv ==
  /\ cbpc # "none" => wpc = "callback"
  /\ \A r \in Jobs :
       /\ rlock[r] = "worker" <=> cbpc # "none" /\ wjob = r
       /\ rlock[r] = "handler" <=> hpc[r] \in {"check", "sleep"}
       /\ resultReady[r] <=> calls[r] = 1 \/ (cbpc \in {"stored", "notified"} /\ wjob = r)
       /\ hpc[r] = "sleep" => ~resultReady[r]
  /\ ResultNotLost

(* synth_error is the answer, from the callback's assignment on. *)
AnswerInv ==
  /\ \A r \in Jobs :
       /\ calls[r] = 0 => outcome[r] = "none"
       /\ calls[r] = 1 => (resultError[r] <=> outcome[r] # "success")
       /\ cbpc \in {"stored", "notified"} /\ wjob = r => (resultError[r] <=> verdict # "success")
  /\ ResponseMatchesAnswer

(* Between active_jobs().Increment() and its Decrement(). *)
CountedAt == {"read1", "set1", "submitting", "set2", "wait", "check", "sleep", "blocked",
              "down"}

Counted == {r \in Jobs : hpc[r] \in CountedAt}

(* The gauge counts the handlers in between; the threads bound their number. *)
GaugeInv ==
  /\ IsFiniteSet(Busy)
  /\ activeGauge = Cardinality(Counted)

(* No request has come: all is idle. *)
LEMMA SpeechInvInit == SpeechInit => CallInv /\ ResultInv /\ AnswerInv
BY DEF SpeechInit, PoolInit, CallInv, ResultInv, ResultNotLost, AnswerInv,
       ResponseMatchesAnswer, Before, Waiting, Past

(* A handler's own steps keep it in line with its call of submit(). *)
LEMMA CallInvHandler ==
  ASSUME PoolInv, HandlerTypeOK, CallInv, ResultInv, NEW r \in Jobs,
         Arrive(r) \/ Handle(r) \/ WaitSpurious(r)
  PROVE  CallInv'
<1> USE DEF HandlerTypeOK, CallInv, Before, Waiting, Past, Goto, Respond
<1>1. CASE Arrive(r) \/ Dispatch(r) \/ ValidateOk(r) \/ AdmitOk(r) \/ CountUp(r)
  BY <1>1 DEF Arrive, Dispatch, ValidateOk, AdmitOk, CountUp, poolVars
<1>2. CASE ValidateFails(r) \/ ValidateThrows(r) \/ AdmitFails(r) \/ QueueFull(r) \/ Finish(r)
  BY <1>2 DEF ValidateFails, ValidateThrows, AdmitFails, QueueFull, Finish, poolVars
<1>3. CASE ReadDepth(r)
  BY <1>3 DEF ReadDepth, poolVars
<1>4. CASE SetDepth(r)
  BY <1>4 DEF SetDepth, poolVars
<1>5. CASE CallSubmit(r)
  BY <1>5 DEF CallSubmit, SubmitCall, history, PoolInv, WorkerInv, TypeOK
<1>6. CASE InSubmit(r)
  <2>1. UNCHANGED <<hpc, calls>>
    BY <1>6 DEF InSubmit, Submit, SubmitAccept, SubmitRefuse, SubmitNotify, history, speechVars
  <2>2. jpc[r] \in {"enqueue", "notify"} /\ jpc'[r] # "idle"
    BY <1>6 DEF InSubmit, Submit, SubmitAccept, SubmitRefuse, SubmitNotify,
       PoolInv, WorkerInv, TypeOK
  <2>3. \A k \in Jobs \ {r} : jpc'[k] = jpc[k]
    BY <1>6 DEF InSubmit, Submit, SubmitAccept, SubmitRefuse, SubmitNotify,
       PoolInv, WorkerInv, TypeOK
  <2>4. hpc[r] = "submitting"
    BY <2>2 DEF Places, Framed
  <2>5. QED
    BY <2>1, <2>2, <2>3, <2>4
<1>7. CASE WaitLock(r) \/ WaitCheck(r) \/ WaitSleep(r) \/ WaitSpurious(r) \/ CountDown(r)
  BY <1>7 DEF WaitLock, WaitCheck, WaitSleep, WaitSpurious, CountDown, poolVars
<1>8. CASE WaitDone(r)
  <2>1. calls[r] = 1
    BY <1>8 DEF WaitDone, ResultInv
  <2>2. QED
    BY <1>8, <2>1 DEF WaitDone, poolVars
<1>9. QED
  BY <1>1, <1>2, <1>3, <1>4, <1>5, <1>6, <1>7, <1>8 DEF Handle

(* Nor does any other thread part a handler from its call. *)
LEMMA CallInvNext ==
  PoolInv /\ HandlerTypeOK /\ CallInv /\ ResultInv /\ [SpeechNext]_allVars => CallInv'
<1> SUFFICES ASSUME PoolInv, HandlerTypeOK, CallInv, ResultInv, [SpeechNext]_allVars
             PROVE  CallInv'
  OBVIOUS
<1>1. ASSUME NEW r \in Jobs, Arrive(r) \/ Handle(r) \/ WaitSpurious(r) PROVE CallInv'
  BY <1>1, CallInvHandler
<1>2. CASE WorkerAlone
  <2>1. UNCHANGED <<hpc, jpc, calls>>
    BY <1>2 DEF WorkerAlone, WorkerLock, WorkerCheck, WorkerSleep, WorkerExit, WorkerTake,
       WorkerExpire, WorkerStart, SynthesizeReturns, SynthesizeThrows, WorkerJudge,
       WorkerRelease, callVars, history, speechVars
  <2>2. QED
    BY <2>1 DEF CallInv
<1>3. CASE CallbackLock \/ CallbackStore \/ CallbackNotify
  <2>1. UNCHANGED <<jpc, calls>>
    BY <1>3 DEF CallbackLock, CallbackStore, CallbackNotify, poolVars
  <2>2. \A r \in Jobs : hpc'[r] = hpc[r] \/ (hpc[r] = "blocked" /\ hpc'[r] = "wait")
    BY <1>3 DEF CallbackLock, CallbackStore, CallbackNotify, HandlerTypeOK
  <2>3. QED
    BY <2>1, <2>2 DEF CallInv, Before, Waiting, Past
<1>4. CASE CallbackUnlock
  <2>1. UNCHANGED <<hpc, jpc>> /\ \A r \in Jobs : calls'[r] = calls[r] \/ (r = wjob /\ calls'[r] = calls[r] + 1)
    BY <1>4 DEF CallbackUnlock, CallbackReturns, callVars, PoolInv, WorkerInv, TypeOK
  <2>2. wpc = "callback" /\ calls[wjob] = 0
    BY <1>4 DEF CallbackUnlock, CallbackReturns, PoolInv, JobsInv, HandOwned, Holding
  <2>3. QED
    BY <2>1, <2>2 DEF CallInv
<1>5. CASE StopListening \/ ServerShutdown \/ OwnerWaits \/ ClockAndWakeups
  <2>1. UNCHANGED <<hpc, jpc, calls>>
    BY <1>5 DEF StopListening, ServerShutdown, ShutdownFlag, OwnerWaits, Shutdown,
       ShutdownNotify, ShutdownJoin, ClockAndWakeups, Tick, SpuriousWakeup,
       poolVars, speechVars, callVars, history
  <2>2. QED
    BY <2>1 DEF CallInv
<1>6. CASE UNCHANGED allVars
  BY <1>6 DEF allVars, poolVars, speechVars, CallInv
<1>7. QED
  BY <1>1, <1>2, <1>3, <1>4, <1>5, <1>6 DEF SpeechNext, WorkerThread

(* A handler takes, holds and leaves result_mutex as a waiter should. *)
LEMMA ResultInvHandler ==
  ASSUME PoolInv, HandlerTypeOK, ResultInv, NEW r \in Jobs,
         Arrive(r) \/ Handle(r) \/ WaitSpurious(r)
  PROVE  ResultInv'
<1> DEFINE Frame == UNCHANGED <<resultReady, cbpc, calls, wjob>> /\ (wpc = "callback" => wpc' = wpc)
           Moves(from, to) == hpc[r] = from /\ hpc' = [hpc EXCEPT ![r] = to]
<1> USE DEF HandlerTypeOK, ResultInv, ResultNotLost, Goto, Respond, frameVars
<1>1. ASSUME NEW p, p \notin {"check", "sleep"}, NEW q, q \notin {"check", "sleep", "blocked"},
             Moves(p, q), Frame, UNCHANGED rlock
      PROVE  ResultInv'
  BY <1>1
<1>2. CASE Arrive(r) \/ Dispatch(r) \/ ValidateOk(r) \/ AdmitOk(r) \/ CountUp(r) \/ CountDown(r)
  BY <1>1, <1>2 DEF Arrive, Dispatch, ValidateOk, AdmitOk, CountUp, CountDown, poolVars
<1>3. CASE ValidateFails(r) \/ ValidateThrows(r) \/ AdmitFails(r) \/ QueueFull(r) \/ Finish(r)
  BY <1>1, <1>3 DEF ValidateFails, ValidateThrows, AdmitFails, QueueFull, Finish, poolVars
<1>4. CASE ReadDepth(r) \/ SetDepth(r)
  BY <1>1, <1>4 DEF ReadDepth, SetDepth, poolVars
<1>5. CASE CallSubmit(r)
  BY <1>1, <1>5 DEF CallSubmit, SubmitCall, workerVars, history
<1>6. CASE InSubmit(r)
  BY <1>6 DEF InSubmit, Submit, SubmitAccept, SubmitRefuse, SubmitNotify, WakeWorker,
     workerVars, history, speechVars
<1>7. CASE WaitLock(r)
  BY <1>7 DEF WaitLock, poolVars
<1>8. CASE WaitCheck(r)
  BY <1>8 DEF WaitCheck, poolVars
<1>9. CASE WaitSleep(r)
  BY <1>9 DEF WaitSleep, poolVars
<1>10. CASE WaitSpurious(r)
  BY <1>1, <1>10 DEF WaitSpurious, poolVars
<1>11. CASE WaitDone(r)
  BY <1>11 DEF WaitDone, poolVars
<1>12. QED
  BY <1>2, <1>3, <1>4, <1>5, <1>6, <1>7, <1>8, <1>9, <1>10, <1>11 DEF Handle

(* The callback does its part under the lock. *)
LEMMA ResultInvCallback ==
  ASSUME PoolInv, HandlerTypeOK, ResultInv,
         CallbackLock \/ CallbackStore \/ CallbackNotify \/ CallbackUnlock
  PROVE  ResultInv'
<1> USE DEF HandlerTypeOK, ResultInv, ResultNotLost
<1>1. wpc = "callback" /\ wjob \in Jobs /\ calls[wjob] = 0
  BY DEF CallbackLock, CallbackStore, CallbackNotify, CallbackUnlock, PoolInv, WorkerInv,
     TypeOK, HasJob, Holding, JobsInv, HandOwned
<1>2. CASE CallbackLock
  BY <1>1, <1>2 DEF CallbackLock, poolVars
<1>3. CASE CallbackStore
  BY <1>1, <1>3 DEF CallbackStore, poolVars
<1>4. CASE CallbackNotify
  BY <1>1, <1>4 DEF CallbackNotify, poolVars
<1>5. CASE CallbackUnlock
  <2>1. \A r \in Jobs : calls'[r] = IF r = wjob THEN 1 ELSE calls[r]
    BY <1>1, <1>5 DEF CallbackUnlock, CallbackReturns, PoolInv, WorkerInv, TypeOK
  <2>2. QED
    BY <1>1, <1>5, <2>1 DEF CallbackUnlock
<1>6. QED
  BY <1>2, <1>3, <1>4, <1>5

(* Between two callbacks the worker has no part in any frame. *)
LEMMA ResultInvNext ==
  PoolInv /\ HandlerTypeOK /\ ResultInv /\ [SpeechNext]_allVars => ResultInv'
<1> SUFFICES ASSUME PoolInv, HandlerTypeOK, ResultInv, [SpeechNext]_allVars
             PROVE  ResultInv'
  OBVIOUS
<1>1. ASSUME NEW r \in Jobs, Arrive(r) \/ Handle(r) \/ WaitSpurious(r) PROVE ResultInv'
  BY <1>1, ResultInvHandler
<1>2. CASE WorkerAlone
  <2>1. wpc # "callback" /\ UNCHANGED <<hpc, rlock, cbpc, resultReady, calls>>
    BY <1>2 DEF WorkerAlone, WorkerLock, WorkerCheck, WorkerSleep, WorkerExit, WorkerTake,
       WorkerExpire, WorkerStart, SynthesizeReturns, SynthesizeThrows, WorkerJudge,
       WorkerRelease, history, speechVars
  <2>2. QED
    BY <2>1 DEF ResultInv, ResultNotLost
<1>3. CASE CallbackLock \/ CallbackStore \/ CallbackNotify \/ CallbackUnlock
  BY <1>3, ResultInvCallback
<1>4. CASE StopListening \/ ServerShutdown \/ OwnerWaits \/ ClockAndWakeups
  <2>1. /\ UNCHANGED <<hpc, rlock, cbpc, resultReady, calls, wjob>>
        /\ wpc = "callback" => wpc' = wpc
    BY <1>4 DEF StopListening, ServerShutdown, ShutdownFlag, OwnerWaits, Shutdown,
       ShutdownNotify, ShutdownJoin, WakeWorker, ClockAndWakeups, Tick, SpuriousWakeup,
       poolVars, speechVars, frameVars, workerVars, history
  <2>2. QED
    BY <2>1 DEF ResultInv, ResultNotLost
<1>5. CASE UNCHANGED allVars
  BY <1>5 DEF allVars, poolVars, speechVars, ResultInv, ResultNotLost
<1>6. QED
  BY <1>1, <1>2, <1>3, <1>4, <1>5 DEF SpeechNext, WorkerThread

(* The response a handler gives is the answer its job got, if it got one. *)
LEMMA AnswerInvHandler ==
  ASSUME PoolInv, HandlerTypeOK, CallInv, AnswerInv, NEW r \in Jobs,
         Arrive(r) \/ Handle(r) \/ WaitSpurious(r)
  PROVE  AnswerInv'
<1> DEFINE Frame == UNCHANGED <<resultError, cbpc, calls, outcome, verdict, wjob>>
<1>0. \A k \in Jobs : jpc[k] \in {"idle", "refused"} => calls[k] = 0 /\ jpc[k] \notin Taken
  <2>1. \A k \in Jobs : calls[k] \in Nat
    BY DEF PoolInv, WorkerInv, TypeOK
  <2>2. QED
    BY <2>1 DEF PoolInv, JobsInv, AtMostOneAnswer, Taken
<1> USE DEF HandlerTypeOK, AnswerInv, ResponseMatchesAnswer, Goto, frameVars
<1>1. ASSUME NEW p, p # "done", hpc' = [hpc EXCEPT ![r] = p], Frame, UNCHANGED <<jpc, status>>
      PROVE  AnswerInv'
  BY <1>1
<1>2. ASSUME NEW c \in {400, 413, 503}, hpc' = [hpc EXCEPT ![r] = "done"],
             status' = [status EXCEPT ![r] = c], jpc[r] \in {"idle", "refused"},
             Frame, UNCHANGED jpc
      PROVE  AnswerInv'
  <2>1. calls[r] = 0 /\ jpc[r] \notin Taken
    BY <1>0, <1>2
  <2>2. QED
    BY <1>2, <2>1
<1>3. CASE Arrive(r) \/ Dispatch(r) \/ ValidateOk(r) \/ AdmitOk(r) \/ CountUp(r) \/ CountDown(r)
  BY <1>1, <1>3 DEF Arrive, Dispatch, ValidateOk, AdmitOk, CountUp, CountDown, poolVars
<1>4. CASE ReadDepth(r) \/ SetDepth(r)
  BY <1>1, <1>4 DEF ReadDepth, SetDepth, poolVars
<1>5. CASE WaitLock(r) \/ WaitCheck(r) \/ WaitSleep(r) \/ WaitSpurious(r) \/ WaitDone(r)
  BY <1>1, <1>5 DEF WaitLock, WaitCheck, WaitSleep, WaitSpurious, WaitDone, poolVars
<1>6. CASE ValidateFails(r) \/ AdmitFails(r) \/ QueueFull(r)
  <2>1. jpc[r] \in {"idle", "refused"}
    BY <1>6 DEF ValidateFails, AdmitFails, QueueFull, CallInv, Before
  <2>2. QED
    BY <1>2, <1>6, <2>1 DEF ValidateFails, AdmitFails, QueueFull, Respond, poolVars
<1>7. CASE ValidateThrows(r)
  <2>1. calls[r] = 0
    BY <1>0, <1>7 DEF ValidateThrows, CallInv, Before
  <2>2. QED
    BY <1>7, <2>1 DEF ValidateThrows, poolVars
<1>8. CASE Finish(r)
  <2>1. calls[r] = 1
    BY <1>8 DEF Finish, CallInv, Past
  <2>2. QED
    BY <1>8, <2>1 DEF Finish, Respond, poolVars
<1>9. CASE CallSubmit(r)
  BY <1>9 DEF CallSubmit, SubmitCall, workerVars, history, PoolInv, WorkerInv, TypeOK
<1>10. CASE InSubmit(r)
  <2>1. /\ UNCHANGED <<hpc, status, resultError, cbpc, calls, outcome, verdict, wjob>>
        /\ jpc[r] \in {"enqueue", "notify"}
        /\ \A k \in Jobs \ {r} : jpc'[k] = jpc[k]
    BY <1>10 DEF InSubmit, Submit, SubmitAccept, SubmitRefuse, SubmitNotify, workerVars,
       history, speechVars, PoolInv, WorkerInv, TypeOK
  <2>2. hpc[r] # "done"
    BY <2>1 DEF CallInv
  <2>3. QED
    BY <2>1, <2>2
<1>11. QED
  BY <1>3, <1>4, <1>5, <1>6, <1>7, <1>8, <1>9, <1>10 DEF Handle

(* The callback leaves the verdict in the frame, and the pool records it. *)
LEMMA AnswerInvCallback ==
  ASSUME PoolInv, HandlerTypeOK, CallInv, ResultInv, AnswerInv,
         CallbackLock \/ CallbackStore \/ CallbackNotify \/ CallbackUnlock
  PROVE  AnswerInv'
<1> USE DEF HandlerTypeOK, AnswerInv, ResponseMatchesAnswer
<1>1. wpc = "callback" /\ wjob \in Jobs /\ calls[wjob] = 0 /\ jpc[wjob] \in Taken
  BY DEF CallbackLock, CallbackStore, CallbackNotify, CallbackUnlock, ResultInv, PoolInv,
     WorkerInv, TypeOK, HasJob, Holding, JobsInv, HandOwned
<1>2. hpc[wjob] # "done"
  BY <1>1 DEF CallInv, Taken
<1>3. CASE CallbackLock
  BY <1>1, <1>3 DEF CallbackLock, poolVars
<1>4. CASE CallbackStore
  <2> DEFINE failed == verdict # "success"
  <2>0. resultError' = [resultError EXCEPT ![wjob] = failed]
    BY <1>4 DEF CallbackStore
  <2> HIDE DEF failed
  <2>1. resultError'[wjob] = failed
    BY <1>1, <2>0
  <2>2. \A r \in Jobs \ {wjob} : resultError'[r] = resultError[r]
    BY <1>4 DEF CallbackStore
  <2>3. UNCHANGED <<hpc, jpc, calls, outcome, status, wjob, verdict>>
    BY <1>4 DEF CallbackStore, poolVars
  <2>4. resultError'[wjob] <=> verdict' # "success"
    BY <2>1, <2>3 DEF failed
  <2>5. QED
    BY <1>1, <2>2, <2>3, <2>4
<1>5. CASE CallbackNotify
  BY <1>1, <1>5 DEF CallbackNotify, poolVars
<1>6. CASE CallbackUnlock
  <2>1. \A r \in Jobs : /\ calls'[r] = IF r = wjob THEN 1 ELSE calls[r]
                        /\ outcome'[r] = IF r = wjob THEN verdict ELSE outcome[r]
    BY <1>1, <1>6 DEF CallbackUnlock, CallbackReturns, PoolInv, WorkerInv, TypeOK
  <2>2. UNCHANGED <<hpc, jpc, status, resultError>> /\ cbpc = "notified" /\ cbpc' = "none"
    BY <1>6 DEF CallbackUnlock, CallbackReturns, callVars
  <2>3. QED
    BY <1>1, <1>2, <2>1, <2>2
<1>7. QED
  BY <1>3, <1>4, <1>5, <1>6

(* Nothing else answers anybody. *)
LEMMA AnswerInvNext ==
  /\ PoolInv /\ HandlerTypeOK /\ CallInv /\ ResultInv /\ AnswerInv
  /\ [SpeechNext]_allVars
  => AnswerInv'
<1> SUFFICES ASSUME PoolInv, HandlerTypeOK, CallInv, ResultInv, AnswerInv, [SpeechNext]_allVars
             PROVE  AnswerInv'
  OBVIOUS
<1>1. ASSUME NEW r \in Jobs, Arrive(r) \/ Handle(r) \/ WaitSpurious(r) PROVE AnswerInv'
  BY <1>1, AnswerInvHandler
<1>2. CASE WorkerAlone
  <2>1. /\ wpc # "callback"
        /\ UNCHANGED <<hpc, status, resultError, cbpc, jpc, calls, outcome>>
    BY <1>2 DEF WorkerAlone, WorkerLock, WorkerCheck, WorkerSleep, WorkerExit, WorkerTake,
       WorkerExpire, WorkerStart, SynthesizeReturns, SynthesizeThrows, WorkerJudge,
       WorkerRelease, callVars, history, speechVars
  <2>2. cbpc = "none"
    BY <2>1 DEF ResultInv
  <2>3. QED
    BY <2>1, <2>2 DEF AnswerInv, ResponseMatchesAnswer
<1>3. CASE CallbackLock \/ CallbackStore \/ CallbackNotify \/ CallbackUnlock
  BY <1>3, AnswerInvCallback
<1>4. CASE StopListening \/ ServerShutdown \/ OwnerWaits \/ ClockAndWakeups
  <2>1. UNCHANGED <<hpc, status, resultError, cbpc, jpc, calls, outcome, wjob, verdict>>
    BY <1>4 DEF StopListening, ServerShutdown, ShutdownFlag, OwnerWaits, Shutdown,
       ShutdownNotify, ShutdownJoin, WakeWorker, ClockAndWakeups, Tick, SpuriousWakeup,
       poolVars, speechVars, frameVars, workerVars, callVars, history
  <2>2. QED
    BY <2>1 DEF AnswerInv, ResponseMatchesAnswer
<1>5. CASE UNCHANGED allVars
  BY <1>5 DEF allVars, poolVars, speechVars, AnswerInv, ResponseMatchesAnswer
<1>6. QED
  BY <1>1, <1>2, <1>3, <1>4, <1>5 DEF SpeechNext, WorkerThread

-----------------------------------------------------------------------------
(* The counted handlers occupy threads, so that they are finitely many. *)
LEMMA CountedFinite ==
  ASSUME IsFiniteSet(Busy)
  PROVE  IsFiniteSet(Counted) /\ Cardinality(Counted) \in Nat
<1>1. Counted \in SUBSET Busy
  BY DEF Counted, CountedAt, Busy
<1>2. QED
  BY <1>1, FS_Subset, FS_CardinalityType

(* What a move of one handler does to the two sets. *)
LEMMA GaugeMove ==
  ASSUME HandlerTypeOK, IsFiniteSet(Busy), NEW r \in Jobs, NEW p,
         hpc' = [hpc EXCEPT ![r] = p]
  PROVE  /\ IsFiniteSet(Busy')
         /\ Counted' = IF p \in CountedAt
                       THEN Counted \cup {r} ELSE Counted \ {r}
<1>1. \A k \in Jobs : hpc'[k] = IF k = r THEN p ELSE hpc[k]
  BY DEF HandlerTypeOK
<1>2. Busy' = Busy \cup {r} \/ Busy' = Busy \ {r}
  <2>1. CASE p \in {"idle", "arrived", "done"}
    BY <2>1, <1>1 DEF Busy
  <2>2. CASE p \notin {"idle", "arrived", "done"}
    BY <2>2, <1>1 DEF Busy
  <2>3. QED
    BY <2>1, <2>2
<1>3. IsFiniteSet(Busy')
  BY <1>2, FS_AddElement, FS_RemoveElement
<1>4. CASE p \in CountedAt
  <2>1. Counted' = Counted \cup {r}
    BY <1>1, <1>4 DEF Counted
  <2>2. QED
    BY <1>3, <1>4, <2>1
<1>5. CASE p \notin CountedAt
  <2>1. Counted' = Counted \ {r}
    BY <1>1, <1>5 DEF Counted
  <2>2. QED
    BY <1>3, <1>5, <2>1
<1>6. QED
  BY <1>4, <1>5

(* A move that does not pass the Increment or the Decrement. *)
LEMMA GaugeKept ==
  ASSUME HandlerTypeOK, GaugeInv, NEW r \in Jobs, NEW p,
         hpc' = [hpc EXCEPT ![r] = p], UNCHANGED activeGauge,
         r \in Counted <=> p \in CountedAt
  PROVE  GaugeInv'
<1>1. IsFiniteSet(Busy') /\ Counted' = Counted
  BY GaugeMove DEF GaugeInv
<1>2. QED
  BY <1>1 DEF GaugeInv

(* Each way through the handler passes one Increment and one Decrement, or  *)
(* neither.                                                                 *)
LEMMA GaugeInvHandler ==
  ASSUME HandlerTypeOK, GaugeInv, NEW r \in Jobs, Arrive(r) \/ Handle(r) \/ WaitSpurious(r)
  PROVE  GaugeInv'
<1> USE DEF Goto, Respond, metricVars, CountedAt
<1>0. r \in Counted <=> hpc[r] \in CountedAt
  BY DEF Counted
<1>1. CASE Arrive(r) \/ Dispatch(r) \/ ValidateOk(r) \/ AdmitOk(r)
  BY <1>0, <1>1, GaugeKept DEF Arrive, Dispatch, ValidateOk, AdmitOk
<1>2. CASE ValidateFails(r) \/ ValidateThrows(r) \/ AdmitFails(r) \/ Finish(r)
  BY <1>0, <1>2, GaugeKept DEF ValidateFails, ValidateThrows, AdmitFails, Finish
<1>3. CASE ReadDepth(r) \/ SetDepth(r) \/ CallSubmit(r)
  BY <1>0, <1>3, GaugeKept DEF ReadDepth, SetDepth, CallSubmit
<1>4. CASE WaitLock(r) \/ WaitCheck(r) \/ WaitSleep(r) \/ WaitSpurious(r) \/ WaitDone(r)
  BY <1>0, <1>4, GaugeKept DEF WaitLock, WaitCheck, WaitSleep, WaitSpurious, WaitDone
<1>5. CASE InSubmit(r)
  BY <1>5 DEF InSubmit, speechVars, GaugeInv, Busy, Counted
<1>6. CASE CountUp(r)
  <2>1. r \notin Counted /\ activeGauge' = activeGauge + 1
    BY <1>0, <1>6 DEF CountUp
  <2>2. IsFiniteSet(Busy') /\ Counted' = Counted \cup {r}
    BY <1>6, GaugeMove DEF CountUp, GaugeInv
  <2>3. Cardinality(Counted') = Cardinality(Counted) + 1
    BY <2>1, <2>2, CountedFinite, FS_AddElement DEF GaugeInv
  <2>4. QED
    BY <2>1, <2>2, <2>3 DEF GaugeInv
<1>7. CASE CountDown(r) \/ QueueFull(r)
  <2>1. r \in Counted /\ activeGauge' = activeGauge - 1
    BY <1>0, <1>7 DEF CountDown, QueueFull
  <2>2. IsFiniteSet(Busy') /\ Counted' = Counted \ {r}
    BY <1>7, GaugeMove DEF CountDown, QueueFull, GaugeInv
  <2>3. Cardinality(Counted') = Cardinality(Counted) - 1
    BY <2>1, <2>2, CountedFinite, FS_RemoveElement DEF GaugeInv
  <2>4. QED
    BY <2>1, <2>2, <2>3 DEF GaugeInv
<1>8. QED
  BY <1>1, <1>2, <1>3, <1>4, <1>5, <1>6, <1>7 DEF Handle

(* Only a notified handler is moved by somebody else. *)
LEMMA GaugeInvNext == HandlerTypeOK /\ GaugeInv /\ [SpeechNext]_allVars => GaugeInv'
<1> SUFFICES ASSUME HandlerTypeOK, GaugeInv, [SpeechNext]_allVars PROVE GaugeInv'
  OBVIOUS
<1>1. ASSUME NEW r \in Jobs, Arrive(r) \/ Handle(r) \/ WaitSpurious(r) PROVE GaugeInv'
  BY <1>1, GaugeInvHandler
<1>2. CASE CallbackNotify
  <2>1. UNCHANGED activeGauge
    BY <1>2 DEF CallbackNotify, metricVars
  <2>2. \A r \in Jobs : hpc'[r] = hpc[r] \/ (hpc[r] = "blocked" /\ hpc'[r] = "wait")
    BY <1>2 DEF CallbackNotify, HandlerTypeOK
  <2>3. Busy' = Busy /\ Counted' = Counted
    BY <2>2 DEF Busy, Counted, CountedAt
  <2>4. QED
    BY <2>1, <2>3 DEF GaugeInv
<1>3. CASE WorkerAlone \/ CallbackLock \/ CallbackStore \/ CallbackUnlock
  BY <1>3 DEF WorkerAlone, CallbackLock, CallbackStore, CallbackUnlock, speechVars, metricVars,
     GaugeInv, Busy, Counted
<1>4. CASE StopListening \/ ServerShutdown \/ OwnerWaits \/ ClockAndWakeups
  BY <1>4 DEF StopListening, ServerShutdown, OwnerWaits, ClockAndWakeups, speechVars, metricVars,
     GaugeInv, Busy, Counted
<1>5. CASE UNCHANGED allVars
  BY <1>5 DEF allVars, speechVars, GaugeInv, Busy, Counted
<1>6. QED
  BY <1>1, <1>2, <1>3, <1>4, <1>5 DEF SpeechNext, WorkerThread

-----------------------------------------------------------------------------
(* Everything above, as one invariant of the composition. *)
SpeechInv ==
  PoolInv /\ HandlerTypeOK /\ CallInv /\ ResultInv /\ AnswerInv /\ GaugeInv

(* The layers together are an invariant. *)
LEMMA SpeechInvHolds == SpeechSpec => []SpeechInv
<1>1. SpeechInit => GaugeInv
  <2> SUFFICES ASSUME SpeechInit PROVE GaugeInv
    OBVIOUS
  <2>1. Busy = {} /\ Counted = {} /\ activeGauge = 0
    BY DEF SpeechInit, Busy, Counted, CountedAt
  <2>2. QED
    BY <2>1, FS_EmptySet DEF GaugeInv
<1>2. QED
  BY <1>1, PoolInvHolds, HandlerTypeInit, HandlerTypeNext, SpeechInvInit, CallInvNext,
     ResultInvNext, AnswerInvNext, GaugeInvNext, PTL DEF SpeechSpec, SpeechInv

(* Type correctness of the composition; the active gauge never goes below   *)
(* zero, because every Decrement follows the handler's own Increment.       *)
THEOREM SpeechTypeCorrect == SpeechSpec => []SpeechTypeOK
<1>1. SpeechInv => SpeechTypeOK
  <2> SUFFICES ASSUME SpeechInv PROVE SpeechTypeOK
    OBVIOUS
  <2>1. activeGauge \in Nat
    BY CountedFinite DEF SpeechInv, GaugeInv
  <2>2. TypeOK
    BY DEF SpeechInv, PoolInv, WorkerInv
  <2>3. QED
    BY <2>1, <2>2 DEF SpeechInv, HandlerTypeOK, Places, SpeechTypeOK
<1>2. QED
  BY <1>1, SpeechInvHolds, PTL

(* A job in the queue or with the worker has a handler that still waits for *)
(* it: its callbacks never refer to a frame that is gone.                   *)
LEMMA FrameOfOpenJob ==
  ASSUME SpeechInv, NEW r \in Jobs, jpc[r] \in Taken, calls[r] = 0
  PROVE  hpc[r] \in Framed /\ r \in Busy /\ jpc[r] # "idle"
BY DEF SpeechInv, HandlerTypeOK, Places, Framed, CallInv, Before, Taken, Busy

(* The worker never runs a callback into a stack frame that is gone,        *)
(* whenever handle_speech returns and whoever shuts the pool down.          *)
THEOREM FramesOutliveCallbacks == SpeechSpec => []FrameAlive
<1>1. SpeechInv => FrameAlive
  <2> SUFFICES ASSUME SpeechInv PROVE FrameAlive
    OBVIOUS
  <2>1. \A i \in 1 .. Len(queue) :
          queue[i] \in Jobs /\ jpc[queue[i]] \in Taken /\ calls[queue[i]] = 0
    BY LenProperties, ElementOfSeq
       DEF SpeechInv, PoolInv, WorkerInv, TypeOK, JobsInv, QueueOwned
  <2>2. wpc \in Holding => wjob \in Jobs /\ jpc[wjob] \in Taken /\ calls[wjob] = 0
    BY DEF SpeechInv, PoolInv, WorkerInv, TypeOK, HasJob, JobsInv, HandOwned
  <2>3. QED
    BY <2>1, <2>2, FrameOfOpenJob DEF FrameAlive
<1>2. QED
  BY <1>1, SpeechInvHolds, PTL

(* A handler that sleeps on a result that is there is being notified. *)
THEOREM NoResultIsLost == SpeechSpec => []ResultNotLost
<1>1. SpeechInv => ResultNotLost
  BY DEF SpeechInv, ResultInv
<1>2. QED
  BY <1>1, SpeechInvHolds, PTL

(* The status of every response is what the pool answered its job. *)
THEOREM ResponsesTellTheAnswer == SpeechSpec => []ResponseMatchesAnswer
<1>1. SpeechInv => ResponseMatchesAnswer
  BY DEF SpeechInv, AnswerInv
<1>2. QED
  BY <1>1, SpeechInvHolds, PTL

(* The active gauge is back at zero when no request is being handled. *)
THEOREM GaugeComesBack == SpeechSpec => []GaugeRestored
<1>1. SpeechInv => GaugeRestored
  <2> SUFFICES ASSUME SpeechInv, Busy = {} PROVE activeGauge = 0
    BY DEF GaugeRestored
  <2>1. Counted = {}
    BY DEF Counted, CountedAt, Busy
  <2>2. QED
    BY <2>1, FS_EmptySet DEF SpeechInv, GaugeInv
<1>2. QED
  BY <1>1, SpeechInvHolds, PTL

(* The queue holds distinct jobs of busy handlers, none of which has yet to *)
(* submit: the HTTP threads bound the queue, whatever its depth.            *)
THEOREM ThreadsBoundTheQueue == SpeechSpec => []ThreadsBoundQueue
<1>1. SpeechInv => ThreadsBoundQueue
  <2> SUFFICES ASSUME SpeechInv PROVE ThreadsBoundQueue
    OBVIOUS
  <2> DEFINE n      == Len(queue)
             queued == {queue[i] : i \in 1 .. n}
             coming == {r \in Busy : jpc[r] = "idle"}
  <2>1. n \in Nat /\ queue \in [1 .. n -> Jobs]
    BY LenProperties DEF SpeechInv, PoolInv, WorkerInv, TypeOK
  <2>2. \A i \in 1 .. n : queue[i] \in Busy /\ jpc[queue[i]] # "idle"
    BY <2>1, FrameOfOpenJob DEF SpeechInv, PoolInv, JobsInv, QueueOwned
  <2>3. queue \in Bijection(1 .. n, queued)
    <3>1. \A i, j \in 1 .. n : queue[i] = queue[j] => i = j
      BY DEF SpeechInv, PoolInv, JobsInv, QueueDistinct
    <3>2. queue \in [1 .. n -> queued]
      BY <2>1
    <3>3. \A x \in queued : \E i \in 1 .. n : queue[i] = x
      OBVIOUS
    <3> HIDE DEF queued, n
    <3>4. QED
      BY <3>1, <3>2, <3>3 DEF Bijection, Injection, IsInjective, Surjection
  <2>4. IsFiniteSet(queued) /\ Cardinality(queued) = n
    <3>1. ExistsBijection(1 .. n, queued)
      BY <2>3 DEF ExistsBijection
    <3>2. QED
      BY <2>1, <3>1, FS_CountingElements, FS_NatBijection
  <2>5. IsFiniteSet(Busy) /\ IsFiniteSet(coming)
    BY FS_Subset DEF SpeechInv, GaugeInv
  <2>6. queued \cap coming = {} /\ queued \cup coming \subseteq Busy
    BY <2>2
  <2> HIDE DEF queued, coming, n
  <2>7. Cardinality(queued \cup coming) = Cardinality(queued) + Cardinality(coming)
    <3>1. Cardinality(queued \cap coming) = 0
      BY <2>6, FS_EmptySet
    <3>2. Cardinality(queued) \in Nat /\ Cardinality(coming) \in Nat
      BY <2>4, <2>5, FS_CardinalityType
    <3>3. Cardinality(queued \cup coming)
            = Cardinality(queued) + Cardinality(coming) - Cardinality(queued \cap coming)
      BY <2>4, <2>5, FS_Union
    <3>4. QED
      BY <3>1, <3>2, <3>3
  <2>8. Cardinality(queued \cup coming) <= Cardinality(Busy)
    BY <2>5, <2>6, FS_Subset
  <2>9. QED
    BY <2>4, <2>7, <2>8 DEF ThreadsBoundQueue, n, coming
<1>2. QED
  BY <1>1, SpeechInvHolds, PTL

-----------------------------------------------------------------------------
(* Under main()'s order the pool is closed only after listen() has returned. *)
ClosedAfterListen == WaitForListener => accepting \/ ListenReturned

(* A listener that has returned accepts nobody, and its handlers are done. *)
LEMMA ClosedAfterListenNext ==
  HandlerTypeOK /\ ClosedAfterListen /\ [SpeechNext]_allVars => ClosedAfterListen'
<1> SUFFICES ASSUME HandlerTypeOK, ClosedAfterListen, [SpeechNext]_allVars, WaitForListener
             PROVE  accepting' \/ ListenReturned'
  BY DEF ClosedAfterListen
<1>1. CASE ServerShutdown
  BY <1>1 DEF ServerShutdown, ListenReturned, speechVars
<1>2. CASE ~ServerShutdown /\ ~ListenReturned
  <2>1. accepting
    BY <1>2 DEF ClosedAfterListen
  <2>2. UNCHANGED accepting
    <3>1. ASSUME NEW r \in Jobs, Arrive(r) \/ Handle(r) \/ WaitSpurious(r) PROVE UNCHANGED accepting
      BY <3>1 DEF Arrive, Handle, WaitSpurious, Dispatch, ValidateOk, ValidateFails,
         ValidateThrows, AdmitOk, AdmitFails, CountUp, ReadDepth, SetDepth, CallSubmit,
         SubmitCall, InSubmit, Submit, SubmitAccept, SubmitRefuse, SubmitNotify, QueueFull,
         WaitLock, WaitCheck, WaitSleep, WaitDone, CountDown, Finish, poolVars, poolShared
    <3>2. CASE WorkerThread
      BY <3>2 DEF WorkerThread, WorkerAlone, WorkerLock, WorkerCheck, WorkerSleep, WorkerExit,
         WorkerTake, WorkerExpire, WorkerStart, SynthesizeReturns, SynthesizeThrows,
         WorkerJudge, WorkerRelease, CallbackLock, CallbackStore, CallbackNotify,
         CallbackUnlock, CallbackReturns, poolVars, poolShared
    <3>3. CASE StopListening \/ OwnerWaits \/ ClockAndWakeups
      BY <3>3 DEF StopListening, OwnerWaits, Shutdown, ShutdownNotify, ShutdownJoin,
         ClockAndWakeups, Tick, SpuriousWakeup, poolVars, poolShared
    <3>4. CASE UNCHANGED allVars
      BY <3>4 DEF allVars, poolVars
    <3>5. QED
      BY <1>2, <3>1, <3>2, <3>3, <3>4 DEF SpeechNext
  <2>3. QED
    BY <2>1, <2>2
<1>3. CASE ListenReturned
  <2>1. ~listening /\ \A r \in Jobs : hpc[r] \in {"idle", "done"}
    BY <1>3 DEF ListenReturned
  <2>2. ASSUME NEW r \in Jobs, Arrive(r) \/ Handle(r) \/ WaitSpurious(r) PROVE UNCHANGED <<listening, hpc>>
    BY <2>1, <2>2 DEF Arrive, Handle, WaitSpurious, Dispatch, ValidateOk, ValidateFails,
       ValidateThrows, AdmitOk, AdmitFails, CountUp, ReadDepth, SetDepth, CallSubmit, InSubmit,
       QueueFull, WaitLock, WaitCheck, WaitSleep, WaitDone, CountDown, Finish, speechVars
  <2>3. CASE WorkerThread
    <3>1. UNCHANGED listening /\ \A r \in Jobs : hpc'[r] = hpc[r] \/ hpc[r] = "blocked"
      BY <2>3 DEF WorkerThread, WorkerAlone, CallbackLock, CallbackStore, CallbackNotify,
         CallbackUnlock, speechVars, HandlerTypeOK
    <3>2. QED
      BY <2>1, <3>1 DEF ListenReturned
  <2>4. CASE StopListening \/ ServerShutdown \/ OwnerWaits \/ ClockAndWakeups \/ UNCHANGED allVars
    BY <2>1, <2>4 DEF StopListening, ServerShutdown, OwnerWaits, ClockAndWakeups, allVars,
       speechVars, ListenReturned
  <2>5. QED
    BY <2>1, <2>2, <2>3, <2>4 DEF SpeechNext, ListenReturned
<1>4. QED
  BY <1>1, <1>2, <1>3

(* A graceful stop turns nobody away: under main()'s order a request that   *)
(* has been accepted always finds the pool open.                            *)
THEOREM StopIsGraceful ==
  ASSUME WaitForListener
  PROVE  SpeechSpec => []StopTurnsNobodyAway
<1>1. SpeechInit => ClosedAfterListen
  BY DEF SpeechInit, PoolInit, ClosedAfterListen
<1>2. ClosedAfterListen => StopTurnsNobodyAway
  BY DEF ClosedAfterListen, StopTurnsNobodyAway, ListenReturned
<1>3. SpeechSpec => []HandlerTypeOK
  BY SpeechInvHolds, PTL DEF SpeechInv
<1>4. QED
  BY <1>1, <1>2, <1>3, ClosedAfterListenNext, PTL DEF SpeechSpec

=============================================================================
