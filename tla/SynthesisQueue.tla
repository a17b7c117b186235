--------------------------- MODULE SynthesisQueue ---------------------------
(***************************************************************************)
(* What InferencePool promises its callers, without threads, locks or time. *)
(* A call of submit() is either refused or leaves its job pending; every    *)
(* pending job is answered exactly once, whatever happens to the pool       *)
(* afterwards; the pool stops only when nothing is pending.                 *)
(***************************************************************************)
EXTENDS Naturals, FiniteSets

CONSTANTS
  Jobs,       \* the calls of submit(), one job each
  Capacity    \* max_queue_depth

VARIABLES
  status,     \* what the caller of submit() knows of its job
  open,       \* the pool still accepts jobs
  stopped     \* shutdown() has returned

absVars == <<status, open, stopped>>

Pending == {j \in Jobs : status[j] = "pending"}

AbsInit ==
  /\ status = [j \in Jobs |-> "new"]
  /\ open = TRUE
  /\ stopped = FALSE

(* One job may be with the worker while Capacity others wait. *)
Accept(j) ==
  /\ status[j] = "new"
  /\ open
  /\ Cardinality(Pending) <= Capacity
  /\ status' = [status EXCEPT ![j] = "pending"]
  /\ UNCHANGED <<open, stopped>>

(* A refusal has a reason the caller can act on. *)
Refuse(j) ==
  /\ status[j] = "new"
  /\ ~open \/ Cardinality(Pending) >= Capacity
  /\ status' = [status EXCEPT ![j] = "refused"]
  /\ UNCHANGED <<open, stopped>>

Answer(j) ==
  /\ status[j] = "pending"
  /\ status' = [status EXCEPT ![j] = "answered"]
  /\ UNCHANGED <<open, stopped>>

Close ==
  /\ open
  /\ open' = FALSE
  /\ UNCHANGED <<status, stopped>>

Stop ==
  /\ ~open
  /\ Pending = {}
  /\ stopped' = TRUE
  /\ UNCHANGED <<status, open>>

AbsNext ==
  \/ \E j \in Jobs : Accept(j) \/ Refuse(j) \/ Answer(j)
  \/ Close
  \/ Stop

AbsSafe == AbsInit /\ [][AbsNext]_absVars

(* Answers do come, and a closed queue does stop. *)
AbsSpec ==
  /\ AbsSafe
  /\ \A j \in Jobs : WF_absVars(Answer(j))
  /\ WF_absVars(Stop)

=============================================================================
