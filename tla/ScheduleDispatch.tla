--------------------------- MODULE ScheduleDispatch ---------------------------
(***************************************************************************)
(* The durable claims that make a cron schedule run each of its            *)
(* occurrences at most once: the Gateway's scheduler processes, which claim *)
(* due occurrences, publish them to the broker and recover what got stuck, *)
(* and the workflow engine's workers, which admit a delivered claim, run   *)
(* the workflow and record how it ended.                                   *)
(*                                                                         *)
(* One schedule is modelled; schedules share nothing.  An occurrence is    *)
(* named by its fire time.  Deadlines of a claim are kept as what is left  *)
(* of them on the database clock; NoTime is SQL NULL.                      *)
(***************************************************************************)
EXTENDS Integers, FiniteSets

CONSTANTS
    Schedulers,       \* Gateway replicas; each runs one tick at a time
    Workers,          \* task slots of the workflow engine
    Horizon,          \* last instant at which a modelled occurrence fires
    MaxAttempts,      \* max_attempts
    Lease,            \* lease_seconds
    DeliveryTimeout,  \* delivery_timeout_seconds
    RetryDelay,       \* retry_delay_seconds; its growth per attempt is left out
    ExecutionLimit,   \* execution_deadline_seconds
    MaxRestarts       \* bound: how often a scheduler process is replaced

ASSUME BoundAssumption ==
    /\ Horizon \in Nat \ {0} /\ MaxAttempts \in Nat \ {0} /\ MaxRestarts \in Nat
    /\ IsFiniteSet(Schedulers)
ASSUME TimeAssumption ==
    /\ Lease \in Nat \ {0} /\ DeliveryTimeout \in Nat \ {0}
    /\ RetryDelay \in Nat \ {0} /\ ExecutionLimit \in Nat \ {0}

VARIABLES
    now,        \* the database clock
    cursor,     \* Schedule.next_run_at
    row,        \* the claim of each occurrence
    claims,     \* how many claims were ever created for an occurrence
    runs,       \* how many admissions were ever committed for it
    ended,      \* how the engine of its last admission ended, if it did
    published,  \* how often its task was handed to the broker
    phase,      \* where a scheduler stands in its tick
    todo,       \* the publish requests of its prepared batch
    sending,    \* the request whose publish result is not yet recorded
    epoch,      \* how often the process was replaced: its instance_id
    work        \* the execution plan each worker holds

vars == <<now, cursor, row, claims, runs, ended, published,
          phase, todo, sending, epoch, work>>
schedulerVars == <<phase, todo, sending, epoch>>
historyVars == <<claims, runs, ended, published>>

-----------------------------------------------------------------------------
Occurrences == 1 .. Horizon
NoTime == -1
NoOccurrence == 0

(* Cursor values: NULL before reconciliation, NULL with an error code once *)
(* the cron expression was found invalid, or an instant; Horizon + 1 is    *)
(* any later one.                                                          *)
Uninitialized == 0
Invalid == -1
Later == now + 1 .. Horizon + 1

Waiting == {"pending", "dispatching", "enqueued"}
Terminal == {"succeeded", "canceled", "dead_lettered"}
Statuses == {"none", "running"} \cup Waiting \cup Terminal

PendingReasons == {"budget_evaluation_failed", "broker_enqueue_failed"}
BeforeAdmission == {"budget_evaluation_failed", "enqueue_attempts_exhausted"}
AfterAdmission == {"execution_failed_after_admission", "execution_outcome_unknown"}
None == "none"
Policy == "policy"   \* any of CANCELED_REASONS
Reasons == {None, Policy} \cup PendingReasons \cup BeforeAdmission \cup AfterAdmission

(* lease_owner: the instance_id of a scheduler process, or the admission   *)
(* owner, a fresh uuid per admission.                                      *)
NoOwner == <<>>
Instance(s) == <<s, epoch[s]>>
Admission(w, n) == <<w, n>>

NoRow ==
    [status |-> "none", reason |-> None, owner |-> NoOwner, attempts |-> 0,
     lease |-> NoTime, deadline |-> NoTime, retry |-> NoTime, run |-> 0,
     tasked |-> FALSE, enqueued |-> FALSE, started |-> FALSE,
     completed |-> FALSE, reviewed |-> FALSE]

NoSending == [occurrence |-> NoOccurrence, accepted |-> FALSE]
NoWork == [state |-> "idle", occurrence |-> NoOccurrence, run |-> 0, result |-> None]

Exhausted(o) == row[o].attempts >= MaxAttempts

-----------------------------------------------------------------------------
(* Rows the two repositories write.                                        *)

NewClaim(status, reason, retry) ==
    [NoRow EXCEPT !.status = status, !.reason = reason, !.retry = retry,
                  !.completed = (status = "canceled")]

Canceled(o) ==
    [row[o] EXCEPT !.status = "canceled", !.reason = Policy, !.owner = NoOwner,
                   !.lease = NoTime, !.deadline = NoTime, !.retry = NoTime,
                   !.run = 0, !.started = FALSE, !.completed = TRUE]

(* Back to pending while attempts are left, otherwise a dead letter.       *)
PutBack(o, attempts, pendingReason, deadReason) ==
    LET dead == attempts >= MaxAttempts
    IN  [row[o] EXCEPT
            !.status = IF dead THEN "dead_lettered" ELSE "pending",
            !.reason = IF dead THEN deadReason ELSE pendingReason,
            !.attempts = attempts, !.owner = NoOwner, !.lease = NoTime,
            !.retry = IF dead THEN NoTime ELSE RetryDelay, !.completed = dead]

NotEnqueued(o) ==
    PutBack(o, row[o].attempts, "broker_enqueue_failed", "enqueue_attempts_exhausted")

NoBudgetAnswer(o, attempts) ==
    PutBack(o, attempts, "budget_evaluation_failed", "budget_evaluation_failed")

(* Mutant: the attempt is not counted.                                     *)
DispatchedUncounted(o, s) ==
    [row[o] EXCEPT !.status = "dispatching", !.reason = None, !.owner = Instance(s),
                   !.lease = Lease, !.tasked = TRUE, !.retry = NoTime]

Dispatched(o, s) ==
    [row[o] EXCEPT !.status = "dispatching", !.reason = None, !.owner = Instance(s),
                   !.lease = Lease, !.tasked = TRUE, !.attempts = @ + 1,
                   !.retry = NoTime]

Enqueued(o) ==
    [row[o] EXCEPT !.status = "enqueued", !.owner = NoOwner,
                   !.lease = DeliveryTimeout, !.enqueued = TRUE]

Running(o, w, run) ==
    [row[o] EXCEPT !.status = "running", !.reason = None,
                   !.owner = Admission(w, run), !.lease = NoTime,
                   !.deadline = ExecutionLimit, !.run = run, !.enqueued = TRUE,
                   !.started = TRUE, !.retry = NoTime]

Quarantined(o) ==
    [row[o] EXCEPT !.status = "dead_lettered", !.reason = "execution_outcome_unknown",
                   !.owner = NoOwner, !.deadline = NoTime, !.completed = TRUE]

Finalized(o, result) ==
    [row[o] EXCEPT !.status = IF result = None THEN "succeeded" ELSE "dead_lettered",
                   !.reason = result, !.owner = NoOwner, !.deadline = NoTime,
                   !.completed = TRUE]

-----------------------------------------------------------------------------
Init ==
    /\ now = 0
    /\ cursor \in {Uninitialized} \cup Later
    /\ row = [o \in Occurrences |-> NoRow]
    /\ claims = [o \in Occurrences |-> 0]
    /\ runs = [o \in Occurrences |-> 0]
    /\ ended = [o \in Occurrences |-> "no"]
    /\ published = [o \in Occurrences |-> 0]
    /\ phase = [s \in Schedulers |-> "recover"]
    /\ todo = [s \in Schedulers |-> {}]
    /\ sending = [s \in Schedulers |-> NoSending]
    /\ epoch = [s \in Schedulers |-> 0]
    /\ work = [w \in Workers |-> NoWork]

Goto(s, step) == phase' = [phase EXCEPT ![s] = step]

(* A transaction of the tick commits, and the tick goes on; or it commits  *)
(* but the process sees an error and skips to the maintenance.             *)
Commit(s, next) == Goto(s, next) \/ Goto(s, "maintain")

(* A transaction of the tick fails and is rolled back.                     *)
TickFails(s) ==
    /\ phase[s] \in {"recover", "claim", "prepare"}
    /\ Goto(s, "maintain")
    /\ UNCHANGED <<now, cursor, row, historyVars, todo, sending, epoch, work>>

(* Mutant: a task the broker lost is not looked for.                       *)
DispatchExpired == {o \in Occurrences : row[o].status = "dispatching" /\ row[o].lease = 0}

LeaseExpired == {o \in Occurrences : row[o].status \in {"dispatching", "enqueued"} /\ row[o].lease = 0}
DeadlineExpired == {o \in Occurrences : row[o].status = "running" /\ row[o].deadline = 0}

(* Rows are taken FOR UPDATE SKIP LOCKED with a limit, so a transaction    *)
(* handles any subset of those that qualify.                               *)
RecoverCritical(s, stuck, lost) ==
    /\ phase[s] = "recover"
    /\ row' = [o \in Occurrences |->
                 IF o \in stuck THEN NotEnqueued(o)
                 ELSE IF o \in lost THEN Quarantined(o)
                 ELSE row[o]]
    /\ Commit(s, "claim")
    /\ UNCHANGED <<now, cursor, historyVars, todo, sending, epoch, work>>

(* reconcile_uninitialized: first_after, or the cron expression is invalid. *)
Reconcile(s) ==
    /\ phase[s] = "claim"
    /\ cursor = Uninitialized
    /\ cursor' \in Later \cup {Invalid}
    /\ UNCHANGED <<now, row, historyVars, schedulerVars, work>>

(* add_schedule: a deployment that is activated again restarts its cursor; *)
(* while it was inactive ClaimNothing stood in for its ticks.              *)
Reschedule ==
    /\ cursor' \in Later
    /\ UNCHANGED <<now, row, historyVars, schedulerVars, work>>

(* Drain mode, an inactive deployment, nothing due, or the due schedule is *)
(* locked by a replica.                                                    *)
ClaimNothing(s) ==
    /\ phase[s] = "claim"
    /\ Goto(s, "prepare")
    /\ UNCHANGED <<now, cursor, row, historyVars, todo, sending, epoch, work>>

Due == cursor \in 1 .. now

(* Mutant: the next fire time is searched from the occurrence itself.      *)
AdvanceFromOccurrence == cursor' \in cursor .. Horizon + 1

(* next_after_occurrence: the first fire time after now; missed ones are   *)
(* not made up for.                                                        *)
Advance == cursor' \in Later

(* claim_due_occurrences: the claim and the new cursor in one transaction; *)
(* the unique constraint lets no second claim of an occurrence in.         *)
ClaimDue(s) ==
    /\ phase[s] = "claim"
    /\ Due
    /\ row[cursor].status = "none"
    /\ \E claim \in {NewClaim("pending", None, NoTime),
                     NewClaim("pending", "budget_evaluation_failed", RetryDelay),
                     NewClaim("canceled", Policy, NoTime)} :
          row' = [row EXCEPT ![cursor] = claim]
    /\ claims' = [claims EXCEPT ![cursor] = @ + 1]
    /\ Advance
    /\ Commit(s, "prepare")
    /\ UNCHANGED <<now, runs, ended, published, todo, sending, epoch, work>>

MarkInvalid(s) ==
    /\ phase[s] = "claim"
    /\ Due
    /\ cursor' = Invalid
    /\ Commit(s, "prepare")
    /\ UNCHANGED <<now, row, historyVars, todo, sending, epoch, work>>

Candidates == {o \in Occurrences : row[o].status = "pending" /\ row[o].retry \in {NoTime, 0}}

Decisions == {"rejected", "unavailable", "allowed"}

(* What prepare_publish_batch makes of one candidate: canceled by policy,  *)
(* out of attempts, waiting for a budget answer, or dispatching.           *)
Prepared(o, s, decision) ==
    IF decision = "rejected" THEN Canceled(o)
    ELSE IF Exhausted(o) THEN NotEnqueued(o)
    ELSE IF decision = "unavailable" THEN NoBudgetAnswer(o, row[o].attempts + 1)
    ELSE Dispatched(o, s)

PrepareBatch(s, batch) ==
    /\ phase[s] = "prepare"
    /\ \E decision \in [batch -> Decisions] :
          /\ row' = [o \in Occurrences |->
                       IF o \in batch THEN Prepared(o, s, decision[o]) ELSE row[o]]
          /\ \/ /\ Goto(s, "publish")
                /\ todo' = [todo EXCEPT ![s] =
                              {o \in batch : decision[o] = "allowed" /\ ~Exhausted(o)}]
             \/ Goto(s, "maintain") /\ UNCHANGED todo
    /\ UNCHANGED <<now, cursor, historyVars, sending, epoch, work>>

(* The broker call, outside any transaction.  A call that raises may still *)
(* have left the task in the queue.                                        *)
Publish(s) ==
    /\ phase[s] = "publish"
    /\ sending[s] = NoSending
    /\ \E o \in todo[s], accepted \in BOOLEAN :
          /\ sending' = [sending EXCEPT ![s] = [occurrence |-> o, accepted |-> accepted]]
          /\ todo' = [todo EXCEPT ![s] = @ \ {o}]
          /\ \/ published' = [published EXCEPT ![o] = @ + 1]
             \/ ~accepted /\ UNCHANGED published
    /\ UNCHANGED <<now, cursor, row, claims, runs, ended, phase, epoch, work>>

(* Mutant: the result is written to whatever the claim has become.         *)
OwnsAnyClaim(s, o) == row[o].status # "none"

(* The compare-and-set of a publish result.                                *)
OwnsDispatch(s, o) == row[o].status = "dispatching" /\ row[o].owner = Instance(s)

RecordPublishResult(s) ==
    /\ phase[s] = "publish"
    /\ LET o == sending[s].occurrence
       IN  /\ o # NoOccurrence
           /\ OwnsDispatch(s, o)
           /\ row' = [row EXCEPT ![o] =
                        IF sending[s].accepted THEN Enqueued(o) ELSE NotEnqueued(o)]
    /\ sending' = [sending EXCEPT ![s] = NoSending]
    /\ UNCHANGED <<now, cursor, historyVars, phase, todo, epoch, work>>

(* The claim has moved on, by an early delivery or another replica, or the *)
(* result cannot be written; the dispatching lease will expire.            *)
PublishResultDropped(s) ==
    /\ phase[s] = "publish"
    /\ sending[s] # NoSending
    /\ sending' = [sending EXCEPT ![s] = NoSending]
    /\ UNCHANGED <<now, cursor, row, historyVars, phase, todo, epoch, work>>

PublishDone(s) ==
    /\ phase[s] = "publish"
    /\ todo[s] = {} /\ sending[s] = NoSending
    /\ Goto(s, "maintain")
    /\ UNCHANGED <<now, cursor, row, historyVars, todo, sending, epoch, work>>

(* cleanup_terminal_claims: rows older than their retention; an unknown    *)
(* outcome is kept until an operator has reviewed it.                      *)
Removable ==
    {o \in Occurrences :
        /\ row[o].status \in Terminal
        /\ row[o].reason = "execution_outcome_unknown" => row[o].reviewed}

Maintain(s, old) ==
    /\ phase[s] = "maintain"
    /\ row' = [o \in Occurrences |-> IF o \in old THEN NoRow ELSE row[o]]
    /\ Goto(s, "recover")
    /\ UNCHANGED <<now, cursor, historyVars, todo, sending, epoch, work>>

(* A Gateway process is replaced by one with a new instance_id.            *)
Restart(s) ==
    /\ epoch[s] < MaxRestarts
    /\ epoch' = [epoch EXCEPT ![s] = @ + 1]
    /\ Goto(s, "recover")
    /\ todo' = [todo EXCEPT ![s] = {}]
    /\ sending' = [sending EXCEPT ![s] = NoSending]
    /\ UNCHANGED <<now, cursor, row, historyVars, work>>

-----------------------------------------------------------------------------
(* Mutant: a delivery of a dead-lettered claim starts its run after all.   *)
AdmissibleWhenDead(o) ==
    /\ published[o] > 0
    /\ row[o].status \in {"dispatching", "enqueued", "dead_lettered"}

(* A task that was handed to the broker may be delivered late, repeatedly  *)
(* or never.  A delivery that meets any other status changes nothing.      *)
Admissible(o) ==
    /\ published[o] > 0
    /\ row[o].status \in {"dispatching", "enqueued"}

AdmitCanceled(o) ==
    /\ Admissible(o)
    /\ row' = [row EXCEPT ![o] = Canceled(o)]
    /\ UNCHANGED <<now, cursor, historyVars, schedulerVars, work>>

AdmitDeferred(o) ==
    /\ Admissible(o)
    /\ row' = [row EXCEPT ![o] = NoBudgetAnswer(o, row[o].attempts)]
    /\ UNCHANGED <<now, cursor, historyVars, schedulerVars, work>>

(* The winner of the claim starts the engine, unless it fails or is lost   *)
(* once the admission is committed.                                        *)
AdmitRunning(w, o) ==
    /\ work[w] = NoWork
    /\ Admissible(o)
    /\ LET run == runs[o] + 1
       IN  /\ row' = [row EXCEPT ![o] = Running(o, w, run)]
           /\ runs' = [runs EXCEPT ![o] = run]
           /\ \/ work' = [work EXCEPT ![w] = [state |-> "running", occurrence |-> o,
                                              run |-> run, result |-> None]]
              \/ UNCHANGED work
    /\ ended' = [ended EXCEPT ![o] = "no"]
    /\ UNCHANGED <<now, cursor, claims, published, schedulerVars>>

(* engine.execute returns or raises.                                       *)
EngineEnds(w) ==
    /\ work[w].state = "running"
    /\ \E result \in {None} \cup AfterAdmission :
          /\ work' = [work EXCEPT ![w].state = "finalizing", ![w].result = result]
          /\ ended' = [ended EXCEPT ![work[w].occurrence] = result]
    /\ UNCHANGED <<now, cursor, row, claims, runs, published, schedulerVars>>

(* Mutant: the final write only looks at the claim's run.                  *)
HoldsAnyRun(w) ==
    /\ work[w].state = "finalizing"
    /\ row[work[w].occurrence].run = work[w].run
    /\ row[work[w].occurrence].status # "none"

(* The compare-and-set of the final write.                                 *)
HoldsRun(w) ==
    /\ work[w].state = "finalizing"
    /\ LET claim == row[work[w].occurrence]
       IN  /\ claim.status = "running"
           /\ claim.run = work[w].run
           /\ claim.owner = Admission(w, work[w].run)

Finalize(w) ==
    /\ HoldsRun(w)
    /\ row' = [row EXCEPT ![work[w].occurrence] = Finalized(work[w].occurrence, work[w].result)]
    /\ work' = [work EXCEPT ![w] = NoWork]
    /\ UNCHANGED <<now, cursor, historyVars, schedulerVars>>

(* The claim was quarantined meanwhile, or the database stays unreachable  *)
(* for all attempts at the final write, or the worker is lost.             *)
Abandon(w) ==
    /\ work[w] # NoWork
    /\ work' = [work EXCEPT ![w] = NoWork]
    /\ UNCHANGED <<now, cursor, row, historyVars, schedulerVars>>

(* An operator acknowledges an unknown outcome.                            *)
Review(o) ==
    /\ row[o].status = "dead_lettered"
    /\ row[o].reason = "execution_outcome_unknown"
    /\ ~row[o].reviewed
    /\ row' = [row EXCEPT ![o].reviewed = TRUE]
    /\ UNCHANGED <<now, cursor, historyVars, schedulerVars, work>>

-----------------------------------------------------------------------------
Sooner(t) == IF t > 0 THEN t - 1 ELSE t

Tick ==
    /\ now' = IF now < Horizon THEN now + 1 ELSE now
    /\ row' = [o \in Occurrences |->
                 [row[o] EXCEPT !.lease = Sooner(@), !.deadline = Sooner(@),
                                !.retry = Sooner(@)]]
    /\ UNCHANGED <<cursor, historyVars, schedulerVars, work>>

TickStep(s) ==
    \/ \E stuck \in SUBSET LeaseExpired, lost \in SUBSET DeadlineExpired :
          RecoverCritical(s, stuck, lost)
    \/ Reconcile(s) \/ ClaimNothing(s) \/ ClaimDue(s) \/ MarkInvalid(s)
    \/ \E batch \in SUBSET Candidates : PrepareBatch(s, batch)
    \/ Publish(s) \/ RecordPublishResult(s) \/ PublishResultDropped(s) \/ PublishDone(s)
    \/ \E old \in SUBSET Removable : Maintain(s, old)

WorkerStep ==
    \/ \E o \in Occurrences : AdmitCanceled(o) \/ AdmitDeferred(o) \/ Review(o)
    \/ \E w \in Workers, o \in Occurrences : AdmitRunning(w, o)
    \/ \E w \in Workers : EngineEnds(w) \/ Finalize(w) \/ Abandon(w)

Next ==
    \/ \E s \in Schedulers : TickStep(s) \/ TickFails(s) \/ Restart(s)
    \/ WorkerStep
    \/ Reschedule
    \/ Tick

Spec == Init /\ [][Next]_vars

(* Time passes and every replica goes on with its tick.  Rows are taken    *)
(* oldest first and locked only for the length of a transaction, and the   *)
(* database does not fail for ever at the same step, so a replica does not *)
(* for ever skip a step or the rows it may take.  Nothing is assumed of    *)
(* the broker, the workers or the budget service.                          *)
FairTick(s) ==
    /\ WF_vars(TickStep(s))
    /\ SF_vars(RecoverCritical(s, LeaseExpired, DeadlineExpired) /\ phase'[s] = "claim")
    /\ SF_vars(TickStep(s) /\ phase'[s] = "prepare")
    /\ SF_vars(PrepareBatch(s, Candidates))

FairSpec == Spec /\ WF_vars(Tick) /\ \A s \in Schedulers : FairTick(s)

-----------------------------------------------------------------------------
Owners == ((Schedulers \cup Workers) \X Nat) \cup {NoOwner}

RowType ==
    [status : Statuses, reason : Reasons, owner : Owners, attempts : Nat,
     lease : Int, deadline : Int, retry : Int, run : Nat, tasked : BOOLEAN,
     enqueued : BOOLEAN, started : BOOLEAN, completed : BOOLEAN, reviewed : BOOLEAN]

(* Every variable stays in its type.                                       *)
TypeOK ==
    /\ now \in 0 .. Horizon
    /\ cursor \in -1 .. Horizon + 1
    /\ row \in [Occurrences -> RowType]
    /\ claims \in [Occurrences -> Nat]
    /\ runs \in [Occurrences -> Nat]
    /\ ended \in [Occurrences -> {"no", None} \cup AfterAdmission]
    /\ published \in [Occurrences -> Nat]
    /\ phase \in [Schedulers -> {"recover", "claim", "prepare", "publish", "maintain"}]
    /\ todo \in [Schedulers -> SUBSET Occurrences]
    /\ sending \in [Schedulers -> [occurrence : Occurrences \cup {NoOccurrence},
                                   accepted : BOOLEAN]]
    /\ epoch \in [Schedulers -> Nat]
    /\ work \in [Workers -> [state : {"idle", "running", "finalizing"},
                             occurrence : Occurrences \cup {NoOccurrence},
                             run : Nat, result : {None} \cup AfterAdmission]]

(* ScheduleDispatchClaimState.validate and the CHECK constraints: which    *)
(* fields a claim has in which status.                                     *)
ValidStatus(r) ==
    \/ r = NoRow
    \/ /\ r.status = "pending"
       /\ r.owner = NoOwner /\ r.lease = NoTime /\ r.deadline = NoTime
       /\ ~r.started /\ ~r.completed /\ r.run = 0
    \/ /\ r.status = "dispatching"
       /\ r.owner # NoOwner /\ r.lease # NoTime /\ r.deadline = NoTime
       /\ r.tasked /\ ~r.started /\ ~r.completed /\ r.run = 0
    \/ /\ r.status = "enqueued"
       /\ r.owner = NoOwner /\ r.lease # NoTime /\ r.deadline = NoTime
       /\ r.tasked /\ r.enqueued /\ ~r.started /\ ~r.completed /\ r.run = 0
    \/ /\ r.status = "running"
       /\ r.owner # NoOwner /\ r.lease = NoTime /\ r.deadline # NoTime
       /\ r.tasked /\ r.enqueued /\ r.started /\ ~r.completed /\ r.run # 0
    \/ /\ r.status \in Terminal
       /\ r.owner = NoOwner /\ r.lease = NoTime /\ r.deadline = NoTime /\ r.completed
       /\ r.status = "succeeded" => r.enqueued /\ r.started /\ r.run # 0
       /\ r.status = "canceled" => ~r.started /\ r.run = 0

ValidReason(r) ==
    /\ r.status = "pending" => r.reason \in {None} \cup PendingReasons
    /\ r.status \in {"dispatching", "enqueued", "running", "succeeded"} => r.reason = None
    /\ r.status = "canceled" => r.reason = Policy
    /\ r.status = "dead_lettered" =>
          \/ r.reason \in BeforeAdmission /\ ~r.started /\ r.run = 0
          \/ r.reason \in AfterAdmission /\ r.started /\ r.run # 0 /\ r.tasked /\ r.enqueued
    /\ r.retry # NoTime => r.status = "pending"
    /\ r.reviewed => r.status = "dead_lettered" /\ r.reason = "execution_outcome_unknown"

(* No order of ticks, deliveries, recoveries and final writes leads to a   *)
(* claim the database would reject.                                        *)
ValidClaims == \A o \in Occurrences : ValidStatus(row[o]) /\ ValidReason(row[o])

(* At most one worker is ever admitted to run an occurrence, whatever is   *)
(* delivered twice or late, and although claims are cleaned up.            *)
AtMostOneRun == \A o \in Occurrences : runs[o] <= 1

(* At most one claim is ever created for an occurrence, also once cleanup  *)
(* has removed the row the unique constraint would have found.             *)
ClaimedOnce == \A o \in Occurrences : claims[o] <= 1

(* The ledger tells the truth: a claim dropped before admission never ran, *)
(* and a run recorded as succeeded or failed ended so.                     *)
HonestLedger ==
    \A o \in Occurrences :
        /\ row[o].status = "canceled" \/ row[o].reason \in BeforeAdmission => runs[o] = 0
        /\ row[o].status = "succeeded" => ended[o] = None
        /\ row[o].reason = "execution_failed_after_admission" => ended[o] = row[o].reason

(* A task is handed to the broker at most once per attempt, and attempts   *)
(* are bounded, over all replicas, restarts and recoveries.                *)
BoundedPublishing ==
    \A o \in Occurrences :
        /\ published[o] <= MaxAttempts
        /\ row[o].status # "none" => published[o] <= row[o].attempts
        /\ row[o].attempts <= MaxAttempts
        /\ row[o].status = "pending" => ~Exhausted(o)

Transitions ==
    { <<"none", "pending">>, <<"none", "canceled">>,
      <<"pending", "dispatching">>, <<"pending", "canceled">>, <<"pending", "dead_lettered">>,
      <<"dispatching", "pending">>, <<"dispatching", "enqueued">>, <<"dispatching", "running">>,
      <<"dispatching", "canceled">>, <<"dispatching", "dead_lettered">>,
      <<"enqueued", "pending">>, <<"enqueued", "running">>,
      <<"enqueued", "canceled">>, <<"enqueued", "dead_lettered">>,
      <<"running", "succeeded">>, <<"running", "dead_lettered">> }

(* Only the transitions of the domain's table happen, which the            *)
(* repositories do not consult: a terminal claim can only be removed, and  *)
(* an unknown outcome only after its review.                               *)
LegalTransitions ==
    [][ \A o \in Occurrences :
          LET old == row[o]  new == row'[o]
          IN  \/ new.status = old.status /\ (old.reviewed => new.reviewed)
              \/ <<old.status, new.status>> \in Transitions
              \/ /\ old.status \in Terminal /\ new = NoRow
                 /\ old.reason = "execution_outcome_unknown" => old.reviewed ]_vars

(* Every claim reaches a terminal status, without help of the broker, the  *)
(* workers or the budget service.                                          *)
EveryClaimEnds ==
    \A o \in Occurrences : row[o].status \in Waiting \cup {"running"}
                           ~> row[o].status \in Terminal \cup {"none"}

-----------------------------------------------------------------------------
(* What the ledger promises, see ScheduleOccurrence.                       *)
Standing(o) ==
    IF row[o].status = "none" THEN (IF claims[o] = 0 THEN "future" ELSE "forgotten")
    ELSE IF row[o].status \in Waiting THEN "open"
    ELSE IF row[o].status = "dead_lettered" THEN
        (IF row[o].reason \in BeforeAdmission THEN "dropped"
         ELSE IF row[o].reason = "execution_outcome_unknown" THEN "unknown"
         ELSE "failed")
    ELSE IF row[o].status = "canceled" THEN "dropped"
    ELSE row[o].status

Promise == INSTANCE ScheduleOccurrence WITH
    standing <- [o \in Occurrences |-> Standing(o)]

KeepsPromise == Promise!Spec
=============================================================================
