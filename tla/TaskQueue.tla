----------------------------- MODULE TaskQueue -----------------------------
(***************************************************************************)
(* The life of one asynq task that carries a job key (internal/queue).     *)
(*                                                                         *)
(* Every job of the platform is published with TaskID = job key, so Redis  *)
(* holds at most one record per key.  This module describes that record    *)
(* and what publishing, delivering and reporting do to it; the components  *)
(* keep one record per job key in a variable of their own.                 *)
(***************************************************************************)
EXTENDS Naturals

CONSTANT MaxRetries      \* config.MaxRetries, passed on every Enqueue

ASSUME MaxRetriesAssumption == MaxRetries \in Nat

TaskStates == {"none", "pending", "active", "retry", "completed", "archived"}

Task == [st : TaskStates, retried : 0 .. MaxRetries]

(* No record in Redis: the key was never published, its retention elapsed, *)
(* or Redis lost its data.                                                 *)
NoTask == [st |-> "none", retried |-> 0]

(* A conflicting TaskID is not an error for the caller: whatever state the *)
(* existing record is in, publishing again leaves it as it is.             *)
Enqueue(t) == IF t.st = "none" THEN [st |-> "pending", retried |-> 0] ELSE t

Deliverable(t) == t.st \in {"pending", "retry"}

Deliver(t) == [t EXCEPT !.st = "active"]

(* Mutated form of Failed: one retry too many.                             *)
FailedOnceMore(t) == IF t.retried <= MaxRetries
                     THEN [st |-> "retry", retried |-> t.retried + 1]
                     ELSE [t EXCEPT !.st = "archived"]

(* A failed execution is retried until the retries are used up and then    *)
(* moved to the archive, the dead letter queue.                            *)
Failed(t) == IF t.retried < MaxRetries
             THEN [st |-> "retry", retried |-> t.retried + 1]
             ELSE [t EXCEPT !.st = "archived"]

Outcomes == {"ok", "err", "skipRetry"}

(* What the handler returned reaches Redis only while the record is active.*)
Report(t, outcome) ==
    IF t.st # "active" THEN t
    ELSE CASE outcome = "ok"         -> [t EXCEPT !.st = "completed"]
           [] outcome = "skipRetry"  -> [t EXCEPT !.st = "archived"]
           [] outcome = "err"        -> Failed(t)

(* asynq.Retention keeps a completed record, and so its TaskID, for a day. *)
RetentionOver(t) == IF t.st = "completed" THEN NoTask ELSE t
=============================================================================
