---------------------------- MODULE LeasedOutbox ----------------------------
(***************************************************************************)
(* The two outboxes with committed leases: audit events, whose delivery is *)
(* the audit row that is inserted in the transaction that ends the lease,  *)
(* and notifications of security alerts, which are published to Redis      *)
(* before the lease is ended.                                              *)
(*                                                                         *)
(* Celery Beat starts passes.  A pass recovers the leases that have run    *)
(* out, leases what is due, and commits; then it delivers one event after  *)
(* another.  Its owner token is new, and a worker runs one pass at a time: *)
(* a token is named by the worker, which never touches the leases of its   *)
(* earlier passes.  Every read of an event after a commit is a new one.    *)
(***************************************************************************)
EXTENDS Naturals, FiniteSets

CONSTANTS
    Audits, Notifications,    \* the events of the two outboxes
    Correlated,    \* audits that name a workflow run
    Workers,
    NoWorker, NoEvent,
    MaxAttempts,   \* max_attempts
    Limit          \* of the events leased by one pass

Events == Audits \cup Notifications

ASSUME OutboxAssumption ==
    /\ Audits \cap Notifications = {}
    /\ Correlated \subseteq Audits
    /\ IsFiniteSet(Workers)
    /\ NoWorker \notin Workers /\ NoEvent \notin Events
    /\ MaxAttempts \in Nat \ {0}
    /\ Limit \in Nat \ {0}

VARIABLES
    row,         \* the rows of the outboxes
    runs,        \* the audits whose workflow run is recorded
    audit,       \* the audit rows: absent, written by the outbox with or
                 \* without the run, or by the consumer of audit.record
    published,   \* how often a notification has been published
    pass         \* what the workers are doing

vars == <<row, runs, audit, published, pass>>

Idle == [step |-> "idle", todo |-> {}, event |-> NoEvent, link |-> "unlinked"]

Init ==
    /\ row = [e \in Events |->
                 [status |-> "none", attempts |-> 0, owner |-> NoWorker, expired |-> FALSE]]
    /\ runs = {}
    /\ audit = [e \in Audits |-> "absent"]
    /\ published = [e \in Notifications |-> 0]
    /\ pass = [w \in Workers |-> Idle]

-----------------------------------------------------------------------------
(* The rows.                                                               *)

Due(e)  == row[e].status \in {"pending", "retry_scheduled"}
Over(e) == row[e].status \in {"succeeded", "dead_lettered"}

(* _lock_owned_lease                                                       *)
Owns(w, e) == row[e].status = "leased" /\ row[e].owner = w

(* Mutant: only the first lease counts as an attempt.                      *)
MutantLeased(r, w) ==
    [status |-> "leased", owner |-> w, expired |-> FALSE,
     attempts |-> IF r.status = "pending" THEN r.attempts + 1 ELSE r.attempts]

Leased(r, w) ==
    [status |-> "leased", attempts |-> r.attempts + 1, owner |-> w, expired |-> FALSE]

Unleased(r, status) == [r EXCEPT !.status = status, !.owner = NoWorker, !.expired = FALSE]

(* Mutant: the last attempt is followed by one more.                       *)
MutantFailed(r) ==
    Unleased(r, IF r.attempts <= MaxAttempts THEN "retry_scheduled" ELSE "dead_lettered")

(* _apply_retry_or_dead_letter                                             *)
Failed(r) ==
    Unleased(r, IF r.attempts < MaxAttempts THEN "retry_scheduled" ELSE "dead_lettered")

-----------------------------------------------------------------------------
(* Around the outboxes.                                                    *)

(* The transaction that adds the event commits.                            *)
Enqueue(e) ==
    /\ row[e].status = "none"
    /\ row' = [row EXCEPT ![e].status = "pending"]
    /\ UNCHANGED <<runs, audit, published, pass>>

RunRecorded(e) ==
    /\ e \notin runs
    /\ runs' = runs \cup {e}
    /\ UNCHANGED <<row, audit, published, pass>>

(* The audit row is inserted and not committed: others with its id wait.   *)
Inserting(w, e) == pass[w].step = "inserted" /\ pass[w].event = e

(* The consumer of audit.record, for a message with the same audit id.     *)
RecordedElsewhere(e) ==
    /\ audit[e] = "absent"
    /\ \A w \in Workers : ~Inserting(w, e)
    /\ audit' = [audit EXCEPT ![e] = "elsewhere"]
    /\ UNCHANGED <<row, runs, published, pass>>

(* lease_expires_at passes.                                                *)
Expire(e) ==
    /\ row[e].status = "leased"
    /\ ~row[e].expired
    /\ row' = [row EXCEPT ![e].expired = TRUE]
    /\ UNCHANGED <<runs, audit, published, pass>>

-----------------------------------------------------------------------------
(* A pass over one outbox.                                                 *)

Goto(w, step) == pass' = [pass EXCEPT ![w].step = step]

(* On with the next event, or the end of the pass.                         *)
Continue(w) ==
    pass' = [pass EXCEPT ![w] = IF @.todo = {} THEN Idle
                                ELSE [Idle EXCEPT !.step = "next", !.todo = pass[w].todo]]

(* recover_stale_leases, lease_due_events and the commit.  What has just   *)
(* been recovered is not due yet; time passes until it is, so that every   *)
(* later pass may lease it.                                                *)
Start(w, outbox) ==
    /\ pass[w].step = "idle"
    /\ LET stale == {e \in outbox : row[e].status = "leased" /\ row[e].expired}
           due   == {e \in outbox : Due(e)}
       IN  \E batch \in SUBSET due :
              /\ Cardinality(batch) <= Limit
              /\ batch = due \/ Cardinality(batch) = Limit
              /\ row' = [e \in Events |-> IF e \in stale THEN Failed(row[e])
                                          ELSE IF e \in batch THEN Leased(row[e], w)
                                          ELSE row[e]]
              /\ pass' = [pass EXCEPT ![w] =
                             IF batch = {} THEN Idle
                             ELSE [Idle EXCEPT !.step = "next", !.todo = batch]]
    /\ UNCHANGED <<runs, audit, published>>

Take(w) ==
    /\ pass[w].step = "next"
    /\ \E e \in pass[w].todo :
          pass' = [pass EXCEPT ![w].step  = IF e \in Audits THEN "read" ELSE "publish",
                               ![w].event = e,
                               ![w].todo  = @ \ {e}]
    /\ UNCHANGED <<row, runs, audit, published>>

(* Mutant: it does not wait on the attempt before the last.                *)
MutantAwaitsRun(e) ==
    /\ row[e].attempts < MaxAttempts - 1
    /\ e \in Correlated \ runs
    /\ audit[e] = "absent"

(* workflow_run_correlation_is_pending, and an attempt is left.            *)
AwaitsRun(e) ==
    /\ row[e].attempts < MaxAttempts
    /\ e \in Correlated \ runs
    /\ audit[e] = "absent"

(* Up to the look at the audit row.  The payload of an event that somebody *)
(* else has delivered meanwhile is empty, which raises.                    *)
Read(w) ==
    LET e == pass[w].event
    IN  /\ pass[w].step = "read"
        /\ Goto(w, IF row[e].status = "succeeded" \/ AwaitsRun(e) THEN "failed"
                   ELSE IF audit[e] = "absent" THEN "insert"
                   ELSE "found")
        /\ UNCHANGED <<row, runs, audit, published>>

(* validate_audit_workflow_correlation and the insert: it waits, and finds *)
(* that the audit is there (_resolve_concurrent_winner), or is in.         *)
Insert(w) ==
    LET e == pass[w].event
    IN  /\ pass[w].step = "insert"
        /\ \A v \in Workers : ~Inserting(v, e)
        /\ pass' = [pass EXCEPT ![w].step = IF audit[e] = "absent" THEN "inserted" ELSE "winner",
                                ![w].link = IF e \in runs THEN "linked" ELSE "unlinked"]
        /\ UNCHANGED <<row, runs, audit, published>>

(* Managers are notified, or some of them and then it raises.              *)
Publish(w) ==
    /\ pass[w].step = "publish"
    /\ published' = [published EXCEPT ![pass[w].event] = @ + 1]
    /\ \E step \in {"published", "failed"} : Goto(w, step)
    /\ UNCHANGED <<row, runs, audit>>

(* mark_succeeded, and the commit with it or the rollback without.         *)
MarkSucceeded(w) ==
    LET e == pass[w].event
    IN  /\ pass[w].step \in {"inserted", "found", "winner", "published"}
        /\ IF Owns(w, e)
           THEN /\ row' = [row EXCEPT ![e] = Unleased(@, "succeeded")]
                /\ audit' = IF pass[w].step = "inserted"
                            THEN [audit EXCEPT ![e] = pass[w].link] ELSE audit
           ELSE UNCHANGED <<row, audit>>
        /\ Continue(w)
        /\ UNCHANGED <<runs, published>>

(* Whatever raises inside the try, the commit included.                    *)
Raise(w) ==
    /\ pass[w].step \in {"read", "insert", "inserted", "found", "publish"}
    /\ Goto(w, "failed")
    /\ UNCHANGED <<row, runs, audit, published>>

(* mark_retry_or_dead_letter                                               *)
MarkFailed(w) ==
    LET e == pass[w].event
    IN  /\ pass[w].step = "failed"
        /\ row' = IF Owns(w, e) THEN [row EXCEPT ![e] = Failed(@)] ELSE row
        /\ Continue(w)
        /\ UNCHANGED <<runs, audit, published>>

(* The worker is lost, or an exception ends the pass: what it has leased   *)
(* stays leased.                                                           *)
Crash(w) ==
    /\ pass[w].step # "idle"
    /\ pass' = [pass EXCEPT ![w] = Idle]
    /\ UNCHANGED <<row, runs, audit, published>>

Progress(w) ==
    Take(w) \/ Read(w) \/ Insert(w) \/ Publish(w) \/ MarkSucceeded(w) \/ MarkFailed(w)

Next ==
    \/ \E e \in Events : Enqueue(e) \/ Expire(e)
    \/ \E e \in Correlated : RunRecorded(e)
    \/ \E e \in Audits : RecordedElsewhere(e)
    \/ \E w \in Workers :
          \/ \E outbox \in {Audits, Notifications} : Start(w, outbox)
          \/ Progress(w)
          \/ Raise(w)
          \/ Crash(w)

Spec == Init /\ [][Next]_vars

(* Beat sends both tasks again and again into one queue, which is served in*)
(* its order; a pass goes on or is lost; time passes.                      *)
Fairness ==
    /\ \A outbox \in {Audits, Notifications} :
          SF_vars(\E w \in Workers : Start(w, outbox))
    /\ \A w \in Workers : WF_vars(Progress(w) \/ Crash(w))
    /\ \A e \in Events : WF_vars(Expire(e))

FairSpec == Spec /\ Fairness

-----------------------------------------------------------------------------
(* Properties.                                                             *)

Status == {"none", "pending", "leased", "retry_scheduled", "succeeded", "dead_lettered"}
Step   == {"idle", "next", "read", "insert", "inserted", "found", "winner",
           "publish", "published", "failed"}

RowType  == [status : Status, attempts : 0 .. MaxAttempts,
             owner : Workers \cup {NoWorker}, expired : BOOLEAN]
PassType == [step : Step, todo : SUBSET Events, event : Events \cup {NoEvent},
             link : {"linked", "unlinked"}]

(* No event is attempted more often than max_attempts allows, although     *)
(* leases run out under passes that go on and are lost with their workers. *)
TypeOK ==
    /\ row \in [Events -> RowType]
    /\ runs \subseteq Correlated
    /\ audit \in [Audits -> {"absent", "linked", "unlinked", "elsewhere"}]
    /\ published \in [Notifications -> Nat]
    /\ pass \in [Workers -> PassType]

(* An audit event has succeeded only if its audit row is there, and a row  *)
(* that the outbox has written is there only if the event has succeeded: it*)
(* neither is lost with its payload nor comes from an event that is still  *)
(* retried or given up.  An audit loses its workflow run only when all its *)
(* attempts are used up.                                                   *)
AuditWithItsEvent ==
    \A e \in Audits :
        /\ row[e].status = "succeeded" => audit[e] # "absent"
        /\ audit[e] \in {"linked", "unlinked"} => row[e].status = "succeeded"
        /\ audit[e] = "unlinked" /\ e \in Correlated => row[e].attempts = MaxAttempts

(* A notification that has succeeded was published, and none is published  *)
(* more than once per attempt, whoever was late with it.                   *)
PublishedPerAttempt ==
    \A e \in Notifications :
        /\ row[e].status = "succeeded" => published[e] > 0
        /\ published[e] <= row[e].attempts

(* Every event of an outbox is delivered or dead-lettered in the end.      *)
EveryEventEnds ==
    \A e \in Events : row[e].status # "none" ~> Over(e)

=============================================================================
