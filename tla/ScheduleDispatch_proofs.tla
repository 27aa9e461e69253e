------------------------ MODULE ScheduleDispatch_proofs ------------------------

(* Machine-checked proofs of ScheduleDispatch's safety, for every set of   *)
(* schedulers and workers, every horizon, attempt limit and timeout.       *)
EXTENDS ScheduleDispatchInv, FiniteSetTheorems, TLAPS

(* A row the database accepts.                                             *)
Accepted(r) == r \in RowType /\ ValidStatus(r) /\ ValidReason(r)

(* What the history of an occurrence is told by.                           *)
View(r) == <<r.status, r.reason, r.run>>

LEMMA RowFields ==
  ASSUME NEW r \in RowType
  PROVE  /\ r.status \in Statuses /\ r.reason \in Reasons /\ r.owner \in Owners
         /\ r.attempts \in Nat /\ r.lease \in Int /\ r.deadline \in Int /\ r.retry \in Int
         /\ r.run \in Nat /\ r.tasked \in BOOLEAN /\ r.enqueued \in BOOLEAN
         /\ r.started \in BOOLEAN /\ r.completed \in BOOLEAN /\ r.reviewed \in BOOLEAN
  BY DEF RowType

LEMMA Times ==
  /\ NoTime \in Int /\ Lease \in Int /\ DeliveryTimeout \in Int /\ RetryDelay \in Int
  /\ ExecutionLimit \in Int /\ Lease # NoTime /\ DeliveryTimeout # NoTime
  /\ RetryDelay # NoTime /\ ExecutionLimit # NoTime
  BY TimeAssumption DEF NoTime

LEMMA NoRowAccepted == Accepted(NoRow) /\ View(NoRow) = <<"none", None, 0>>
  <1>1. NoRow \in RowType
    BY Times DEF NoRow, RowType, Statuses, Reasons, Owners
  <1>2. ValidStatus(NoRow) /\ ValidReason(NoRow)
    BY DEF ValidStatus, ValidReason, NoRow, Waiting, Terminal
  <1> QED
    BY <1>1, <1>2 DEF Accepted, View, NoRow

LEMMA NewClaimAccepted ==
  ASSUME NEW claim \in {NewClaim("pending", None, NoTime),
                        NewClaim("pending", "budget_evaluation_failed", RetryDelay),
                        NewClaim("canceled", Policy, NoTime)}
  PROVE  /\ Accepted(claim)
         /\ View(claim) \in {<<"pending", None, 0>>, <<"pending", "budget_evaluation_failed", 0>>,
                             <<"canceled", Policy, 0>>}
  <1>0. NoRow \in RowType
    BY NoRowAccepted DEF Accepted
  <1>1. ASSUME NEW p \in {None, "budget_evaluation_failed"}, NEW t \in {NoTime, RetryDelay},
               claim = NewClaim("pending", p, t)
        PROVE  Accepted(claim) /\ View(claim) = <<"pending", p, 0>>
    <2>1. claim = [NoRow EXCEPT !.status = "pending", !.reason = p, !.retry = t,
                                !.completed = FALSE]
      BY <1>1 DEF NewClaim
    <2>2. claim \in RowType
      BY <1>0, <2>1, Times DEF RowType, Statuses, Waiting, Reasons, PendingReasons
    <2>3. ValidStatus(claim) /\ ValidReason(claim)
      BY <2>1 DEF NoRow, ValidStatus, ValidReason, PendingReasons, None
    <2> QED
      BY <2>1, <2>2, <2>3 DEF Accepted, View, NoRow
  <1>2. ASSUME claim = NewClaim("canceled", Policy, NoTime)
        PROVE  Accepted(claim) /\ View(claim) = <<"canceled", Policy, 0>>
    <2>1. claim = [NoRow EXCEPT !.status = "canceled", !.reason = Policy, !.retry = NoTime,
                                !.completed = TRUE]
      BY <1>2 DEF NewClaim
    <2>2. claim \in RowType
      BY <1>0, <2>1, Times DEF RowType, Statuses, Terminal, Reasons
    <2>3. ValidStatus(claim) /\ ValidReason(claim)
      BY <2>1 DEF NoRow, ValidStatus, ValidReason, Terminal
    <2> QED
      BY <2>1, <2>2, <2>3 DEF Accepted, View, NoRow
  <1> QED
    BY <1>1, <1>2

(* A claim that is not yet admitted, and what becomes of it.               *)
LEMMA CanceledAccepted ==
  ASSUME NEW o, Accepted(row[o]), row[o].status \in Waiting
  PROVE  Accepted(Canceled(o)) /\ View(Canceled(o)) = <<"canceled", Policy, 0>>
  <1>1. Canceled(o) \in RowType
    BY Times DEF Accepted, Canceled, RowType, Statuses, Terminal, Reasons, Owners
  <1>2. ValidStatus(Canceled(o)) /\ ValidReason(Canceled(o))
    BY DEF Accepted, Canceled, RowType, ValidStatus, ValidReason, Waiting, Terminal, None, Policy,
           NoRow
  <1> QED
    BY <1>1, <1>2 DEF Accepted, View, Canceled, RowType

LEMMA PutBackAccepted ==
  ASSUME NEW o, Accepted(row[o]), row[o].status \in Waiting,
         NEW n \in Nat, NEW p \in PendingReasons, NEW d \in BeforeAdmission
  PROVE  /\ Accepted(PutBack(o, n, p, d))
         /\ View(PutBack(o, n, p, d)) \in {<<"dead_lettered", d, 0>>, <<"pending", p, 0>>}
  <1> DEFINE r == PutBack(o, n, p, d)
  <1>1. row[o].run = 0 /\ ~row[o].started /\ row[o].deadline = NoTime
    BY DEF Accepted, ValidStatus, Waiting, Terminal, NoRow
  <1>2. ~row[o].completed /\ ~row[o].reviewed
    BY DEF Accepted, ValidStatus, ValidReason, Waiting, Terminal, NoRow
  <1>3. /\ row[o] \in RowType /\ NoOwner \in Owners
        /\ "pending" \in Statuses /\ "dead_lettered" \in Statuses /\ p \in Reasons /\ d \in Reasons
    BY DEF Accepted, Owners, Statuses, Waiting, Terminal, Reasons
  <1>4. CASE n >= MaxAttempts
    <2>1. r = [row[o] EXCEPT !.status = "dead_lettered", !.reason = d, !.attempts = n,
                 !.owner = NoOwner, !.lease = NoTime, !.retry = NoTime, !.completed = TRUE]
      BY <1>4 DEF PutBack
    <2>2. r \in RowType
      BY <1>3, <2>1, Times, ZenonT(30) DEF RowType
    <2> QED
      BY <1>1, <1>2, <2>1, <2>2
         DEF Accepted, RowType, ValidStatus, ValidReason, View, Waiting, Terminal, BeforeAdmission,
             AfterAdmission
  <1>5. CASE ~(n >= MaxAttempts)
    <2>1. r = [row[o] EXCEPT !.status = "pending", !.reason = p, !.attempts = n,
                 !.owner = NoOwner, !.lease = NoTime, !.retry = RetryDelay, !.completed = FALSE]
      <3> DEFINE dead == n >= MaxAttempts
      <3>1. dead = FALSE
        BY <1>5, BoundAssumption
      <3>2. r = [row[o] EXCEPT
                   !.status = IF dead THEN "dead_lettered" ELSE "pending",
                   !.reason = IF dead THEN d ELSE p, !.attempts = n, !.owner = NoOwner,
                   !.lease = NoTime, !.retry = IF dead THEN NoTime ELSE RetryDelay,
                   !.completed = dead]
        BY DEF PutBack
      <3> HIDE DEF dead, r
      <3> QED
        BY <3>1, <3>2
    <2>2. r \in RowType
      BY <1>3, <2>1, Times, ZenonT(30) DEF RowType
    <2> QED
      BY <1>1, <1>2, <2>1, <2>2
         DEF Accepted, RowType, ValidStatus, ValidReason, View, Waiting, Terminal, PendingReasons
  <1> QED
    BY <1>4, <1>5

LEMMA NotEnqueuedAccepted ==
  ASSUME NEW o, Accepted(row[o]), row[o].status \in Waiting
  PROVE  /\ Accepted(NotEnqueued(o))
         /\ View(NotEnqueued(o)) \in {<<"dead_lettered", "enqueue_attempts_exhausted", 0>>,
                                      <<"pending", "broker_enqueue_failed", 0>>}
  BY PutBackAccepted, RowFields DEF Accepted, NotEnqueued, PendingReasons, BeforeAdmission

LEMMA NoBudgetAnswerAccepted ==
  ASSUME NEW o, Accepted(row[o]), row[o].status \in Waiting, NEW n \in Nat
  PROVE  /\ Accepted(NoBudgetAnswer(o, n))
         /\ View(NoBudgetAnswer(o, n)) \in {<<"dead_lettered", "budget_evaluation_failed", 0>>,
                                            <<"pending", "budget_evaluation_failed", 0>>}
  BY PutBackAccepted DEF NoBudgetAnswer, PendingReasons, BeforeAdmission

LEMMA DispatchedAccepted ==
  ASSUME NEW o, Accepted(row[o]), row[o].status = "pending",
         NEW s \in Schedulers, epoch[s] \in Nat
  PROVE  Accepted(Dispatched(o, s)) /\ View(Dispatched(o, s)) = <<"dispatching", None, 0>>
  <1>1. Instance(s) \in Owners /\ Instance(s) # NoOwner
    BY DEF Instance, Owners, NoOwner
  <1>2. row[o].attempts + 1 \in Nat
    BY RowFields DEF Accepted
  <1>3. Dispatched(o, s) \in RowType
    BY <1>1, <1>2, Times DEF Accepted, Dispatched, RowType, Statuses, Waiting, Reasons
  <1>4. ValidStatus(Dispatched(o, s)) /\ ValidReason(Dispatched(o, s))
    BY <1>1, Times DEF Accepted, Dispatched, RowType, ValidStatus, ValidReason, Waiting, Terminal, NoRow
  <1> QED
    BY <1>3, <1>4 DEF Accepted, View, Dispatched, RowType, ValidStatus, Terminal, NoRow

LEMMA EnqueuedAccepted ==
  ASSUME NEW o, Accepted(row[o]), row[o].status = "dispatching"
  PROVE  Accepted(Enqueued(o)) /\ View(Enqueued(o)) = <<"enqueued", None, 0>>
  <1>1. Enqueued(o) \in RowType
    BY Times DEF Accepted, Enqueued, RowType, Statuses, Waiting, Owners
  <1>2. ValidStatus(Enqueued(o)) /\ ValidReason(Enqueued(o))
    BY Times DEF Accepted, Enqueued, RowType, ValidStatus, ValidReason, Waiting, Terminal, NoRow
  <1> QED
    BY <1>1, <1>2 DEF Accepted, View, Enqueued, RowType, ValidStatus, ValidReason, Terminal, NoRow

LEMMA RunningAccepted ==
  ASSUME NEW o, Accepted(row[o]), row[o].status \in {"dispatching", "enqueued"},
         NEW w \in Workers, NEW n \in Nat, n # 0
  PROVE  Accepted(Running(o, w, n)) /\ View(Running(o, w, n)) = <<"running", None, n>>
  <1>1. Admission(w, n) \in Owners /\ Admission(w, n) # NoOwner
    BY DEF Admission, Owners, NoOwner
  <1>2. Running(o, w, n) \in RowType
    BY <1>1, Times DEF Accepted, Running, RowType, Statuses, Reasons
  <1>3. ValidStatus(Running(o, w, n)) /\ ValidReason(Running(o, w, n))
    BY <1>1, Times DEF Accepted, Running, RowType, ValidStatus, ValidReason, Waiting, Terminal, NoRow
  <1> QED
    BY <1>2, <1>3 DEF Accepted, View, Running, RowType

(* A running claim, and what becomes of it.                                *)
LEMMA QuarantinedAccepted ==
  ASSUME NEW o, Accepted(row[o]), row[o].status = "running"
  PROVE  /\ Accepted(Quarantined(o))
         /\ View(Quarantined(o)) = <<"dead_lettered", "execution_outcome_unknown", row[o].run>>
  <1>1. Quarantined(o) \in RowType
    BY Times DEF Accepted, Quarantined, RowType, Statuses, Terminal, Reasons, AfterAdmission, Owners
  <1>2. ValidStatus(Quarantined(o)) /\ ValidReason(Quarantined(o))
    BY DEF Accepted, Quarantined, RowType, ValidStatus, ValidReason, Waiting, Terminal,
           AfterAdmission, NoRow
  <1> QED
    BY <1>1, <1>2 DEF Accepted, View, Quarantined, RowType

LEMMA FinalizedAccepted ==
  ASSUME NEW o, Accepted(row[o]), row[o].status = "running",
         NEW result \in {None} \cup AfterAdmission
  PROVE  /\ Accepted(Finalized(o, result))
         /\ View(Finalized(o, result)) =
              <<IF result = None THEN "succeeded" ELSE "dead_lettered", result, row[o].run>>
  <1> DEFINE status == IF result = None THEN "succeeded" ELSE "dead_lettered"
  <1>1. Finalized(o, result) \in RowType
    <2>1. status \in Statuses /\ result \in Reasons /\ NoOwner \in Owners
      BY DEF Statuses, Terminal, Reasons, Owners
    <2>2. Finalized(o, result) = [row[o] EXCEPT !.status = status, !.reason = result,
                                    !.owner = NoOwner, !.deadline = NoTime, !.completed = TRUE]
      BY DEF Finalized
    <2> HIDE DEF status
    <2> QED
      BY <2>1, <2>2, Times DEF Accepted, RowType
  <1>2. ValidStatus(Finalized(o, result)) /\ ValidReason(Finalized(o, result))
    BY DEF Accepted, Finalized, RowType, ValidStatus, ValidReason, Waiting, Terminal,
           AfterAdmission, None, NoRow
  <1> QED
    BY <1>1, <1>2 DEF Accepted, View, Finalized, RowType

LEMMA ReviewedAccepted ==
  ASSUME NEW r, Accepted(r), r.status = "dead_lettered", r.reason = "execution_outcome_unknown"
  PROVE  /\ Accepted([r EXCEPT !.reviewed = TRUE])
         /\ View([r EXCEPT !.reviewed = TRUE]) = View(r)
  <1>1. [r EXCEPT !.reviewed = TRUE] \in RowType
    BY DEF Accepted, RowType
  <1>2. /\ ValidStatus([r EXCEPT !.reviewed = TRUE])
        /\ ValidReason([r EXCEPT !.reviewed = TRUE])
    BY DEF Accepted, RowType, ValidStatus, ValidReason, Waiting, Terminal, NoRow
  <1> QED
    BY <1>1, <1>2 DEF Accepted, View, RowType

LEMMA SoonerType ==
  ASSUME NEW t \in Int
  PROVE  Sooner(t) \in Int /\ (Sooner(t) = NoTime <=> t = NoTime)
  BY DEF Sooner, NoTime

(* Time changes a row, but not what it says.                               *)
Aged(r) == [r EXCEPT !.lease = Sooner(@), !.deadline = Sooner(@), !.retry = Sooner(@)]

LEMMA AgedAccepted ==
  ASSUME NEW r, Accepted(r)
  PROVE  Accepted(Aged(r)) /\ View(Aged(r)) = View(r)
  <1> DEFINE l == Sooner(r.lease)  d == Sooner(r.deadline)  y == Sooner(r.retry)
  <1>1. /\ l \in Int /\ (l = NoTime <=> r.lease = NoTime)
        /\ d \in Int /\ (d = NoTime <=> r.deadline = NoTime)
        /\ y \in Int /\ (y = NoTime <=> r.retry = NoTime)
    BY SoonerType, RowFields DEF Accepted
  <1>2. Aged(r) = [r EXCEPT !.lease = l, !.deadline = d, !.retry = y]
    BY DEF Aged
  <1>3. ASSUME r = NoRow
        PROVE  Aged(r) = NoRow
    <2>1. l = NoTime /\ d = NoTime /\ y = NoTime
      BY <1>1, <1>3 DEF NoRow
    <2> QED
      BY <1>2, <1>3, <2>1, ZenonT(30) DEF NoRow
  <1> HIDE DEF l, d, y
  <1>4. Aged(r) \in RowType
    BY <1>1, <1>2 DEF Accepted, RowType
  <1>5. ValidStatus(Aged(r))
    BY <1>1, <1>2, <1>3 DEF Accepted, RowType, ValidStatus
  <1>6. ValidReason(Aged(r))
    BY <1>1, <1>2 DEF Accepted, RowType, ValidReason
  <1> QED
    BY <1>2, <1>4, <1>5, <1>6 DEF Accepted, View, RowType

-----------------------------------------------------------------------------

(* What a step that starts and ends no run may make of a row: it says the  *)
(* same as before, an occurrence not yet admitted goes on waiting or is    *)
(* dropped, a run is quarantined, or a finished claim is cleaned up.       *)
Shunted(o) ==
    /\ row[o].status \in Waiting
    /\ row'[o].status \in Waiting \cup {"canceled", "dead_lettered"}
    /\ row'[o].reason \in {None, Policy} \cup PendingReasons \cup BeforeAdmission
    /\ row'[o].run = 0

Closed(o) ==
    /\ row[o].status = "running"
    /\ View(row'[o]) = <<"dead_lettered", "execution_outcome_unknown", row[o].run>>

Removed(o) == row[o].status \in Terminal /\ row'[o] = NoRow

QuietRow(o) ==
    /\ Accepted(row'[o])
    /\ \/ View(row'[o]) = View(row[o])
       \/ Shunted(o)
       \/ Closed(o)
       \/ Removed(o)

(* A step that changes no history, no plan, and the cursor only ahead.     *)
Quiet ==
    /\ now' \in Nat /\ now' >= now
    /\ cursor' \in {cursor, Invalid} \cup Later
    /\ UNCHANGED <<claims, runs, ended, work>>
    /\ \A o \in Occurrences : QuietRow(o)

LEMMA AcceptedRows ==
  ASSUME IInv, NEW o \in Occurrences
  PROVE  Accepted(row[o])
  BY DEF IInv, TypeOK, ValidClaims, Accepted

LEMMA UnchangedRow ==
  ASSUME IInv, NEW o \in Occurrences, row'[o] = row[o]
  PROVE  QuietRow(o)
  BY AcceptedRows DEF QuietRow

LEMMA QuietStep ==
  ASSUME IInv, Quiet
  PROVE  /\ ValidClaims'
         /\ \A o \in Occurrences : RunInv(o)' /\ CursorInv(o)' /\ VerdictInv(o)'
         /\ \A w \in Workers : PlanInv(w)'
  <1>1. ValidClaims'
    BY DEF Quiet, QuietRow, Accepted, ValidClaims
  <1>2. ASSUME NEW o \in Occurrences
        PROVE  RunInv(o)' /\ VerdictInv(o)' /\ (row'[o].status # "none" => row[o].status # "none")
    <2>1. /\ RunInv(o) /\ VerdictInv(o) /\ ValidStatus(row[o]) /\ ValidReason(row[o])
          /\ runs'[o] = runs[o] /\ ended'[o] = ended[o]
      BY <1>2 DEF IInv, ValidClaims, Quiet
    <2>2. CASE View(row'[o]) = View(row[o])
      BY <2>1, <2>2 DEF View, RunInv, VerdictInv, Admitted
    <2>3. CASE Shunted(o)
      <3>1. row[o].run = 0 /\ runs[o] = 0 /\ row[o].status # "none"
        BY <2>1, <2>3 DEF Shunted, ValidStatus, RunInv, Waiting, Terminal, NoRow
      <3> QED
        BY <2>1, <2>3, <3>1 DEF Shunted, RunInv, VerdictInv, Admitted, Waiting, None, Policy,
             PendingReasons, BeforeAdmission, AfterAdmission
    <2>4. CASE Closed(o)
      BY <2>1, <2>4 DEF Closed, View, RunInv, VerdictInv, Admitted, AfterAdmission
    <2>5. CASE Removed(o)
      BY <2>1, <2>5 DEF Removed, NoRow, RunInv, VerdictInv, None, Terminal
    <2> QED
      BY <1>2, <2>2, <2>3, <2>4, <2>5 DEF Quiet, QuietRow
  <1>3. ASSUME NEW o \in Occurrences
        PROVE  CursorInv(o)'
    <2>1. CursorInv(o) /\ o \in Nat /\ now \in Nat /\ cursor \in Int
      BY <1>3, BoundAssumption DEF IInv, TypeOK, Occurrences
    <2>2. /\ claims'[o] = claims[o] /\ runs'[o] = runs[o] /\ now' \in Nat /\ now' >= now
          /\ cursor' \in {cursor, Invalid} \cup Later
      BY DEF Quiet
    <2>3. claims[o] = 1 => o <= now' /\ (cursor' = Invalid \/ o < cursor')
      BY <2>1, <2>2, BoundAssumption DEF CursorInv, Later, Invalid
    <2> QED
      BY <1>2, <1>3, <2>1, <2>2, <2>3 DEF CursorInv
  <1>4. ASSUME NEW w \in Workers
        PROVE  PlanInv(w)'
    <2> SUFFICES ASSUME work[w].state # "idle"
                 PROVE  LET o == work[w].occurrence
                        IN  /\ row'[o].status \in {"none", "running", "dead_lettered"}
                            /\ row'[o].status = "dead_lettered"
                                 => row'[o].reason = "execution_outcome_unknown"
      BY <1>4 DEF IInv, PlanInv, Quiet
    <2> DEFINE o == work[w].occurrence
    <2>1. /\ o \in Occurrences /\ row[o].status \in {"none", "running", "dead_lettered"}
          /\ row[o].status = "dead_lettered" => row[o].reason = "execution_outcome_unknown"
      BY DEF IInv, PlanInv
    <2>2. QuietRow(o)
      BY <2>1 DEF Quiet
    <2> QED
      BY <2>1, <2>2 DEF QuietRow, Shunted, Closed, Removed, View, Waiting, NoRow
  <1> QED
    BY <1>1, <1>2, <1>3, <1>4

-----------------------------------------------------------------------------

(* The quiet actions.                                                      *)
LEMMA SameRows ==
  ASSUME IInv, row' = row
  PROVE  \A o \in Occurrences : QuietRow(o)
  BY UnchangedRow

LEMMA SameTime ==
  ASSUME IInv, now' = now
  PROVE  now' \in Nat /\ now' >= now
  BY BoundAssumption DEF IInv, TypeOK

LEMMA RecoverQuiet ==
  ASSUME IInv, NEW s \in Schedulers, NEW stuck \in SUBSET LeaseExpired,
         NEW lost \in SUBSET DeadlineExpired, RecoverCritical(s, stuck, lost)
  PROVE  Quiet
  <1>1. ASSUME NEW o \in Occurrences
        PROVE  QuietRow(o)
    <2>1. CASE o \in stuck
      <3>1. row'[o] = NotEnqueued(o) /\ row[o].status \in Waiting
        BY <2>1 DEF RecoverCritical, LeaseExpired, Waiting
      <3> QED
        BY <1>1, <3>1, AcceptedRows, NotEnqueuedAccepted
           DEF QuietRow, Shunted, View, Waiting, PendingReasons, BeforeAdmission
    <2>2. CASE o \notin stuck /\ o \in lost
      <3>1. row'[o] = Quarantined(o) /\ row[o].status = "running"
        BY <1>1, <2>2 DEF RecoverCritical, DeadlineExpired
      <3> QED
        BY <1>1, <3>1, AcceptedRows, QuarantinedAccepted DEF QuietRow, Closed
    <2>3. CASE o \notin stuck /\ o \notin lost
      BY <1>1, <2>3, UnchangedRow DEF RecoverCritical
    <2> QED
      BY <2>1, <2>2, <2>3
  <1> QED
    BY <1>1, SameTime DEF Quiet, RecoverCritical, historyVars

LEMMA PreparedQuiet ==
  ASSUME IInv, NEW s \in Schedulers, NEW o \in Candidates, NEW decision \in Decisions,
         row'[o] = Prepared(o, s, decision)
  PROVE  QuietRow(o)
  <1>1. /\ o \in Occurrences /\ row[o].status = "pending" /\ row[o].status \in Waiting
        /\ Accepted(row[o]) /\ epoch[s] \in Nat /\ row[o].attempts + 1 \in Nat
    BY AcceptedRows, RowFields DEF Candidates, Waiting, IInv, TypeOK, Accepted
  <1>2. CASE row'[o] = Canceled(o)
    BY <1>1, <1>2, CanceledAccepted DEF QuietRow, Shunted, View
  <1>3. CASE row'[o] = NotEnqueued(o)
    BY <1>1, <1>3, NotEnqueuedAccepted
       DEF QuietRow, Shunted, View, Waiting, PendingReasons, BeforeAdmission
  <1>4. CASE row'[o] = NoBudgetAnswer(o, row[o].attempts + 1)
    BY <1>1, <1>4, NoBudgetAnswerAccepted
       DEF QuietRow, Shunted, View, Waiting, PendingReasons, BeforeAdmission
  <1>5. CASE row'[o] = Dispatched(o, s)
    BY <1>1, <1>5, DispatchedAccepted DEF QuietRow, Shunted, View, Waiting
  <1> QED
    BY <1>2, <1>3, <1>4, <1>5 DEF Prepared, Decisions

LEMMA PrepareQuiet ==
  ASSUME IInv, NEW s \in Schedulers, NEW batch \in SUBSET Candidates, PrepareBatch(s, batch)
  PROVE  Quiet
  <1>1. PICK decision \in [batch -> Decisions] :
          row' = [o \in Occurrences |->
                    IF o \in batch THEN Prepared(o, s, decision[o]) ELSE row[o]]
    BY DEF PrepareBatch
  <1>2. ASSUME NEW o \in Occurrences
        PROVE  QuietRow(o)
    <2>1. CASE o \in batch
      BY <1>1, <1>2, <2>1, PreparedQuiet
    <2>2. CASE o \notin batch
      BY <1>1, <1>2, <2>2, UnchangedRow
    <2> QED
      BY <2>1, <2>2
  <1> QED
    BY <1>2, SameTime DEF Quiet, PrepareBatch, historyVars

LEMMA PublishResultQuiet ==
  ASSUME IInv, NEW s \in Schedulers, RecordPublishResult(s)
  PROVE  Quiet
  <1> DEFINE p == sending[s].occurrence
  <1>1. /\ row[p].status = "dispatching" /\ row[p].status \in Waiting /\ p \in Occurrences
        /\ row' = [row EXCEPT ![p] =
                     IF sending[s].accepted THEN Enqueued(p) ELSE NotEnqueued(p)]
    BY DEF RecordPublishResult, OwnsDispatch, IInv, TypeOK, Waiting
  <1>2. ASSUME NEW o \in Occurrences
        PROVE  QuietRow(o)
    <2>1. CASE o = p /\ row'[o] = Enqueued(o)
      BY <1>1, <2>1, AcceptedRows, EnqueuedAccepted DEF QuietRow, Shunted, View, Waiting
    <2>2. CASE o = p /\ row'[o] = NotEnqueued(o)
      BY <1>1, <2>2, AcceptedRows, NotEnqueuedAccepted
         DEF QuietRow, Shunted, View, Waiting, PendingReasons, BeforeAdmission
    <2>3. CASE o # p
      BY <1>1, <1>2, <2>3, UnchangedRow
    <2> QED
      BY <1>1, <1>2, <2>1, <2>2, <2>3 DEF IInv, TypeOK
  <1> QED
    BY <1>2, SameTime DEF Quiet, RecordPublishResult, historyVars

LEMMA MaintainQuiet ==
  ASSUME IInv, NEW s \in Schedulers, NEW old \in SUBSET Removable, Maintain(s, old)
  PROVE  Quiet
  <1>1. ASSUME NEW o \in Occurrences
        PROVE  QuietRow(o)
    <2>1. CASE o \in old
      BY <1>1, <2>1, NoRowAccepted DEF Maintain, Removable, QuietRow, Removed
    <2>2. CASE o \notin old
      BY <1>1, <2>2, UnchangedRow DEF Maintain
    <2> QED
      BY <2>1, <2>2
  <1> QED
    BY <1>1, SameTime DEF Quiet, Maintain, historyVars

LEMMA ShuntQuiet ==
  ASSUME IInv, NEW p \in Occurrences,
         AdmitCanceled(p) \/ AdmitDeferred(p) \/ Review(p)
  PROVE  Quiet
  <1>0. Accepted(row[p]) /\ row \in [Occurrences -> RowType] /\ row[p].attempts \in Nat
    BY AcceptedRows, RowFields DEF IInv, TypeOK, Accepted
  <1>1. /\ row' = [row EXCEPT ![p] = row'[p]]
        /\ UNCHANGED <<now, cursor, claims, runs, ended, work>>
    BY <1>0 DEF AdmitCanceled, AdmitDeferred, Review, historyVars
  <1>2. QuietRow(p)
    <2>1. CASE AdmitCanceled(p)
      BY <1>0, <2>1, CanceledAccepted
         DEF AdmitCanceled, Admissible, QuietRow, Shunted, View, Waiting
    <2>2. CASE AdmitDeferred(p)
      BY <1>0, <2>2, NoBudgetAnswerAccepted
         DEF AdmitDeferred, Admissible, QuietRow, Shunted, View, Waiting, PendingReasons,
             BeforeAdmission
    <2>3. CASE Review(p)
      BY <1>0, <2>3, ReviewedAccepted DEF Review, QuietRow
    <2> QED
      BY <2>1, <2>2, <2>3
  <1>3. ASSUME NEW o \in Occurrences
        PROVE  QuietRow(o)
    BY <1>0, <1>1, <1>2, UnchangedRow
  <1> QED
    BY <1>1, <1>3, SameTime DEF Quiet

LEMMA TickQuiet ==
  ASSUME IInv, Tick
  PROVE  Quiet
  <1>1. ASSUME NEW o \in Occurrences
        PROVE  QuietRow(o)
    <2>1. row'[o] = Aged(row[o])
      BY DEF Tick, Aged
    <2> QED
      BY <2>1, AcceptedRows, AgedAccepted DEF QuietRow
  <1>2. now \in Nat /\ now' \in {now, now + 1}
    <2>1. now \in 0 .. Horizon
      BY DEF IInv, TypeOK
    <2>2. now' = IF now < Horizon THEN now + 1 ELSE now
      BY DEF Tick
    <2> QED
      BY <2>1, <2>2, BoundAssumption
  <1>3. now' \in Nat /\ now' >= now
    BY <1>2
  <1> QED
    BY <1>1, <1>3 DEF Quiet, Tick, historyVars

LEMMA FrameQuiet ==
  ASSUME IInv, row' = row, now' = now, cursor' \in {cursor, Invalid} \cup Later,
         UNCHANGED <<claims, runs, ended, work>>
  PROVE  Quiet
  BY SameRows, SameTime DEF Quiet

LEMMA SchedulerQuiet ==
  ASSUME IInv, NEW s \in Schedulers, TickStep(s) \/ TickFails(s) \/ Restart(s), ~ClaimDue(s)
  PROVE  Quiet
  <1>1. CASE \E stuck \in SUBSET LeaseExpired, lost \in SUBSET DeadlineExpired :
                RecoverCritical(s, stuck, lost)
    BY <1>1, RecoverQuiet
  <1>2. CASE \E batch \in SUBSET Candidates : PrepareBatch(s, batch)
    BY <1>2, PrepareQuiet
  <1>3. CASE \E old \in SUBSET Removable : Maintain(s, old)
    BY <1>3, MaintainQuiet
  <1>4. CASE RecordPublishResult(s)
    BY <1>4, PublishResultQuiet
  <1>5. CASE Reconcile(s) \/ ClaimNothing(s) \/ MarkInvalid(s)
    BY <1>5, FrameQuiet DEF Reconcile, ClaimNothing, MarkInvalid, historyVars
  <1>6. CASE Publish(s) \/ PublishResultDropped(s) \/ PublishDone(s)
    BY <1>6, FrameQuiet DEF Publish, PublishResultDropped, PublishDone, historyVars
  <1>7. CASE TickFails(s) \/ Restart(s)
    BY <1>7, FrameQuiet DEF TickFails, Restart, historyVars
  <1> QED
    BY <1>1, <1>2, <1>3, <1>4, <1>5, <1>6, <1>7 DEF TickStep

(* The steps that make history.                                            *)
LEMMA ClaimDueStep ==
  ASSUME IInv, NEW s \in Schedulers, ClaimDue(s)
  PROVE  /\ ValidClaims'
         /\ \A o \in Occurrences : RunInv(o)' /\ CursorInv(o)' /\ VerdictInv(o)'
         /\ \A w \in Workers : PlanInv(w)'
  <1> DEFINE c == cursor
  <1>1. /\ c \in Occurrences /\ c <= now /\ row[c].status = "none"
        /\ row \in [Occurrences -> RowType] /\ claims \in [Occurrences -> Nat]
        /\ now \in Nat
    BY BoundAssumption DEF ClaimDue, Due, IInv, TypeOK, Occurrences
  <1>2. PICK claim \in {NewClaim("pending", None, NoTime),
                        NewClaim("pending", "budget_evaluation_failed", RetryDelay),
                        NewClaim("canceled", Policy, NoTime)} :
          row' = [row EXCEPT ![c] = claim]
    BY DEF ClaimDue
  <1>3. /\ claims' = [claims EXCEPT ![c] = claims[c] + 1] /\ cursor' \in Later
        /\ UNCHANGED <<now, runs, ended, work>>
    BY DEF ClaimDue, Advance
  <1>4. claims[c] = 0 /\ runs[c] = 0
    BY <1>1 DEF IInv, CursorInv, Invalid, Occurrences
  <1>5. /\ Accepted(row'[c]) /\ row'[c].run = 0
        /\ row'[c].status \in {"pending", "canceled"}
        /\ row'[c].reason \in {None, Policy, "budget_evaluation_failed"}
    BY <1>1, <1>2, NewClaimAccepted DEF View
  <1>6. ASSUME NEW o \in Occurrences, o # c
        PROVE  row'[o] = row[o] /\ claims'[o] = claims[o]
    BY <1>1, <1>2, <1>3, <1>6
  <1>7. ValidClaims'
    BY <1>5, <1>6, AcceptedRows DEF ValidClaims, Accepted
  <1>8. ASSUME NEW o \in Occurrences
        PROVE  RunInv(o)' /\ CursorInv(o)' /\ VerdictInv(o)'
    <2>1. CASE o = c
      <3>1. RunInv(o)' /\ VerdictInv(o)'
        BY <1>3, <1>4, <1>5, <2>1 DEF RunInv, VerdictInv, Admitted, None, Policy, AfterAdmission
      <3>2. c < cursor'
        BY <1>1, <1>3, BoundAssumption DEF Later, Occurrences
      <3>3. claims'[c] = 1
        BY <1>1, <1>3, <1>4
      <3> QED
        BY <1>1, <1>3, <2>1, <3>1, <3>2, <3>3 DEF CursorInv
    <2>2. CASE o # c
      <3>1. RunInv(o) /\ CursorInv(o) /\ VerdictInv(o) /\ row'[o] = row[o]
            /\ claims'[o] = claims[o] /\ runs'[o] = runs[o] /\ ended'[o] = ended[o] /\ now' = now
        BY <1>3, <1>6, <1>8, <2>2 DEF IInv
      <3>2. RunInv(o)' /\ VerdictInv(o)'
        BY <3>1 DEF RunInv, VerdictInv, Admitted
      <3>3. o <= now => o < cursor'
        BY <1>1, <1>3, <1>8, BoundAssumption DEF Later, Occurrences
      <3> QED
        BY <3>1, <3>2, <3>3 DEF CursorInv
    <2> QED
      BY <2>1, <2>2
  <1>9. ASSUME NEW w \in Workers
        PROVE  PlanInv(w)'
    <2>1. PlanInv(w)
      BY <1>9 DEF IInv
    <2>2. work[w].state # "idle" => work[w].occurrence # c /\ work[w].occurrence \in Occurrences
      BY <1>4, <2>1 DEF PlanInv
    <2> QED
      BY <1>3, <1>6, <2>1, <2>2 DEF PlanInv
  <1> QED
    BY <1>7, <1>8, <1>9

LEMMA AdmitRunningStep ==
  ASSUME IInv, NEW v \in Workers, NEW p \in Occurrences, AdmitRunning(v, p)
  PROVE  /\ ValidClaims'
         /\ \A o \in Occurrences : RunInv(o)' /\ CursorInv(o)' /\ VerdictInv(o)'
         /\ \A w \in Workers : PlanInv(w)'
  <1>1. /\ row[p].status \in {"dispatching", "enqueued"} /\ Accepted(row[p])
        /\ row \in [Occurrences -> RowType] /\ runs \in [Occurrences -> Nat]
        /\ ended \in [Occurrences -> {"no", None} \cup AfterAdmission]
    BY AcceptedRows DEF AdmitRunning, Admissible, IInv, TypeOK
  <1>2. runs[p] = 0
    BY <1>1 DEF Accepted, ValidStatus, IInv, RunInv, Terminal, NoRow
  <1>3. /\ row' = [row EXCEPT ![p] = Running(p, v, 1)] /\ runs' = [runs EXCEPT ![p] = 1]
        /\ ended' = [ended EXCEPT ![p] = "no"] /\ UNCHANGED <<now, cursor, claims>>
        /\ \/ UNCHANGED work
           \/ work' = [work EXCEPT ![v] = [state |-> "running", occurrence |-> p,
                                           run |-> 1, result |-> None]]
    BY <1>2 DEF AdmitRunning
  <1>4. Accepted(row'[p]) /\ View(row'[p]) = <<"running", None, 1>>
    BY <1>1, <1>3, RunningAccepted
  <1>5. ASSUME NEW o \in Occurrences, o # p
        PROVE  row'[o] = row[o] /\ runs'[o] = runs[o] /\ ended'[o] = ended[o]
    BY <1>1, <1>3, <1>5
  <1>6. ValidClaims'
    BY <1>4, <1>5, AcceptedRows DEF ValidClaims, Accepted
  <1>7. ASSUME NEW o \in Occurrences
        PROVE  RunInv(o)' /\ CursorInv(o)' /\ VerdictInv(o)'
    <2>1. RunInv(o) /\ CursorInv(o) /\ VerdictInv(o)
      BY <1>7 DEF IInv
    <2>2. CASE o = p
      <3>1. runs'[o] = 1
        BY <1>1, <1>3, <2>2
      <3>2. claims[o] = 1
        BY <1>1, <2>1, <2>2 DEF CursorInv
      <3> QED
        BY <1>3, <1>4, <2>1, <2>2, <3>1, <3>2
           DEF View, RunInv, CursorInv, VerdictInv, Admitted, None, AfterAdmission
    <2>3. CASE o # p
      BY <1>3, <1>5, <1>7, <2>1, <2>3 DEF RunInv, CursorInv, VerdictInv, Admitted
    <2> QED
      BY <2>2, <2>3
  <1>8. ASSUME NEW w \in Workers, work[w].state # "idle"
        PROVE  work[w].occurrence # p /\ work[w].occurrence \in Occurrences
    BY <1>2, <1>8 DEF IInv, PlanInv
  <1>9. ASSUME NEW w \in Workers
        PROVE  PlanInv(w)'
    <2>1. PlanInv(w) /\ work \in [Workers -> [state : {"idle", "running", "finalizing"},
                                occurrence : Occurrences \cup {NoOccurrence},
                                run : Nat, result : {None} \cup AfterAdmission]]
      BY <1>9 DEF IInv, TypeOK
    <2>2. CASE work' = work
      BY <1>5, <1>8, <2>1, <2>2 DEF PlanInv
    <2>3. CASE work' # work /\ w = v
      <3>1. work'[w] = [state |-> "running", occurrence |-> p, run |-> 1, result |-> None]
        BY <1>3, <2>1, <2>3
      <3>2. \A u \in Workers \ {w} : work'[u] = work[u]
        BY <1>3, <2>1, <2>3
      <3>3. runs'[p] = 1 /\ ended'[p] = "no" /\ row'[p].status = "running"
        BY <1>1, <1>3, <1>4 DEF View
      <3> QED
        BY <1>8, <3>1, <3>2, <3>3 DEF PlanInv
    <2>4. CASE work' # work /\ w # v
      <3>1. /\ work'[w] = work[w]
            /\ work'[v] = [state |-> "running", occurrence |-> p, run |-> 1, result |-> None]
            /\ \A u \in Workers \ {v} : work'[u] = work[u]
        BY <1>3, <2>1, <2>4
      <3> QED
        BY <1>5, <1>8, <2>1, <2>4, <3>1 DEF PlanInv
    <2> QED
      BY <2>2, <2>3, <2>4
  <1> QED
    BY <1>6, <1>7, <1>9

LEMMA EngineEndsStep ==
  ASSUME IInv, NEW v \in Workers, EngineEnds(v)
  PROVE  /\ ValidClaims'
         /\ \A o \in Occurrences : RunInv(o)' /\ CursorInv(o)' /\ VerdictInv(o)'
         /\ \A w \in Workers : PlanInv(w)'
  <1> DEFINE p == work[v].occurrence
  <1>1. PICK result \in {None} \cup AfterAdmission :
          /\ work' = [work EXCEPT ![v].state = "finalizing", ![v].result = result]
          /\ ended' = [ended EXCEPT ![p] = result]
    BY DEF EngineEnds
  <1>2. UNCHANGED <<now, cursor, row, claims, runs>> /\ work[v].state = "running"
    BY DEF EngineEnds
  <1>3. /\ ended \in [Occurrences -> {"no", None} \cup AfterAdmission]
        /\ work \in [Workers -> [state : {"idle", "running", "finalizing"},
                                 occurrence : Occurrences \cup {NoOccurrence},
                                 run : Nat, result : {None} \cup AfterAdmission]]
    BY DEF IInv, TypeOK
  <1>4. /\ p \in Occurrences /\ runs[p] = 1 /\ work[v].run = 1
        /\ row[p].status \in {"none", "running", "dead_lettered"}
        /\ row[p].status = "dead_lettered" => row[p].reason = "execution_outcome_unknown"
        /\ \A u \in Workers \ {v} : work[u].state # "idle" => work[u].occurrence # p
    BY <1>2 DEF IInv, PlanInv
  <1>5. ValidClaims'
    BY <1>2 DEF IInv, ValidClaims
  <1>6. ASSUME NEW o \in Occurrences
        PROVE  RunInv(o)' /\ CursorInv(o)' /\ VerdictInv(o)'
    <2>1. RunInv(o) /\ CursorInv(o) /\ VerdictInv(o) /\ ValidReason(row[o]) /\ ValidStatus(row[o])
      BY <1>6 DEF IInv, ValidClaims
    <2>2. RunInv(o)' /\ CursorInv(o)'
      BY <1>2, <2>1 DEF RunInv, CursorInv, Admitted
    <2>3. CASE o = p
      <3>1. row[o].status # "succeeded" /\ row[o].reason # "execution_failed_after_admission"
        BY <1>4, <2>1, <2>3, SMTT(30)
           DEF ValidReason, ValidStatus, None, NoRow, Terminal
      <3> QED
        BY <1>2, <2>2, <3>1 DEF VerdictInv
    <2>4. CASE o # p
      <3>1. ended'[o] = ended[o]
        BY <1>1, <1>3, <1>6, <2>4
      <3> QED
        BY <1>2, <2>1, <2>2, <3>1 DEF VerdictInv
    <2> QED
      BY <2>3, <2>4
  <1>7. ASSUME NEW w \in Workers
        PROVE  PlanInv(w)'
    <2>1. /\ work'[v].state = "finalizing" /\ work'[v].result = result
          /\ work'[v].occurrence = p /\ work'[v].run = work[v].run
          /\ \A u \in Workers \ {v} : work'[u] = work[u]
      BY <1>1, <1>3
    <2>2. CASE w = v
      <3>1. ended'[p] = result
        BY <1>1, <1>3, <1>4
      <3> QED
        BY <1>2, <1>4, <2>1, <2>2, <3>1 DEF PlanInv
    <2>3. CASE w # v
      <3>1. PlanInv(w)
        BY <1>7 DEF IInv
      <3>2. work[w].state # "idle" => ended'[work[w].occurrence] = ended[work[w].occurrence]
        BY <1>1, <1>3, <1>4, <1>7, <2>3, <3>1 DEF PlanInv
      <3> QED
        BY <1>2, <1>7, <2>1, <2>3, <3>1, <3>2 DEF PlanInv
    <2> QED
      BY <2>2, <2>3
  <1> QED
    BY <1>5, <1>6, <1>7

LEMMA FinalizeStep ==
  ASSUME IInv, NEW v \in Workers, Finalize(v)
  PROVE  /\ ValidClaims'
         /\ \A o \in Occurrences : RunInv(o)' /\ CursorInv(o)' /\ VerdictInv(o)'
         /\ \A w \in Workers : PlanInv(w)'
  <1> DEFINE p == work[v].occurrence
             result == work[v].result
  <1>1. /\ row \in [Occurrences -> RowType]
        /\ work \in [Workers -> [state : {"idle", "running", "finalizing"},
                                 occurrence : Occurrences \cup {NoOccurrence},
                                 run : Nat, result : {None} \cup AfterAdmission]]
    BY DEF IInv, TypeOK
  <1>2. /\ p \in Occurrences /\ row[p].status = "running" /\ runs[p] = 1 /\ ended[p] = result
        /\ result \in {None} \cup AfterAdmission /\ row[p].run = 1
        /\ \A u \in Workers \ {v} : work[u].state # "idle" => work[u].occurrence # p
    BY <1>1 DEF Finalize, HoldsRun, IInv, PlanInv
  <1>3. /\ row' = [row EXCEPT ![p] = Finalized(p, result)]
        /\ work' = [work EXCEPT ![v] = NoWork]
        /\ UNCHANGED <<now, cursor, claims, runs, ended>>
    BY DEF Finalize, historyVars
  <1>4. /\ Accepted(row'[p])
        /\ View(row'[p]) = <<IF result = None THEN "succeeded" ELSE "dead_lettered", result, 1>>
    BY <1>1, <1>2, <1>3, AcceptedRows, FinalizedAccepted
  <1>5. ASSUME NEW o \in Occurrences, o # p
        PROVE  row'[o] = row[o]
    BY <1>1, <1>3, <1>5
  <1>6. ValidClaims'
    BY <1>4, <1>5, AcceptedRows DEF ValidClaims, Accepted
  <1>7. ASSUME NEW o \in Occurrences
        PROVE  RunInv(o)' /\ CursorInv(o)' /\ VerdictInv(o)'
    <2>1. RunInv(o) /\ CursorInv(o) /\ VerdictInv(o)
      BY <1>7 DEF IInv
    <2>2. CASE o = p
      <3>1. CursorInv(o)'
        BY <1>2, <1>3, <2>1, <2>2 DEF CursorInv
      <3>2. RunInv(o)' /\ VerdictInv(o)'
        BY <1>2, <1>3, <1>4, <2>2 DEF View, RunInv, VerdictInv, Admitted, None, AfterAdmission
      <3> QED
        BY <3>1, <3>2
    <2>3. CASE o # p
      BY <1>3, <1>5, <1>7, <2>1, <2>3 DEF RunInv, CursorInv, VerdictInv, Admitted
    <2> QED
      BY <2>2, <2>3
  <1>8. ASSUME NEW w \in Workers
        PROVE  PlanInv(w)'
    <2>1. work'[v].state = "idle" /\ \A u \in Workers \ {v} : work'[u] = work[u]
      BY <1>1, <1>3 DEF NoWork
    <2>2. CASE w = v
      BY <2>1, <2>2 DEF PlanInv
    <2>3. CASE w # v
      <3>1. PlanInv(w) /\ (work[w].state # "idle" => work[w].occurrence # p)
        BY <1>2, <1>8, <2>3 DEF IInv
      <3> QED
        BY <1>3, <1>5, <1>8, <2>1, <2>3, <3>1 DEF PlanInv
    <2> QED
      BY <2>2, <2>3
  <1> QED
    BY <1>6, <1>7, <1>8

LEMMA AbandonStep ==
  ASSUME IInv, NEW v \in Workers, Abandon(v)
  PROVE  /\ ValidClaims'
         /\ \A o \in Occurrences : RunInv(o)' /\ CursorInv(o)' /\ VerdictInv(o)'
         /\ \A w \in Workers : PlanInv(w)'
  <1>1. /\ UNCHANGED <<now, cursor, row, claims, runs, ended>>
        /\ work'[v].state = "idle" /\ \A u \in Workers \ {v} : work'[u] = work[u]
    BY DEF Abandon, historyVars, IInv, TypeOK, NoWork
  <1>2. ValidClaims' /\ \A o \in Occurrences : RunInv(o)' /\ CursorInv(o)' /\ VerdictInv(o)'
    BY <1>1 DEF IInv, ValidClaims, RunInv, CursorInv, VerdictInv, Admitted
  <1>3. ASSUME NEW w \in Workers
        PROVE  PlanInv(w)'
    <2>1. PlanInv(w)
      BY <1>3 DEF IInv
    <2> QED
      BY <1>1, <1>3, <2>1 DEF PlanInv
  <1> QED
    BY <1>2, <1>3

(* Type correctness of a step.                                             *)
LEMMA InstantTypes ==
  ASSUME TypeOK
  PROVE  /\ now + 1 .. Horizon + 1 \subseteq -1 .. Horizon + 1
         /\ Invalid \in -1 .. Horizon + 1 /\ now \in Nat
  BY BoundAssumption DEF TypeOK, Invalid

LEMMA RowFunction ==
  ASSUME Quiet, row' = [o \in Occurrences |-> row'[o]]
  PROVE  row' \in [Occurrences -> RowType]
  BY DEF Quiet, QuietRow, Accepted

LEMMA GotoType ==
  ASSUME TypeOK, NEW s \in Schedulers,
         NEW p \in {"recover", "claim", "prepare", "publish", "maintain"}, Goto(s, p)
  PROVE  phase' \in [Schedulers -> {"recover", "claim", "prepare", "publish", "maintain"}]
  BY DEF TypeOK, Goto

LEMMA TickStepType ==
  ASSUME IInv, NEW s \in Schedulers, TickStep(s) \/ TickFails(s) \/ Restart(s)
  PROVE  TypeOK'
  <1>0. TypeOK
    BY DEF IInv
  <1>1. ASSUME NEW stuck \in SUBSET LeaseExpired, NEW lost \in SUBSET DeadlineExpired,
               RecoverCritical(s, stuck, lost)
        PROVE  TypeOK'
    <2>1. row' \in [Occurrences -> RowType]
      BY <1>1, RecoverQuiet, RowFunction DEF RecoverCritical
    <2>2. phase' \in [Schedulers -> {"recover", "claim", "prepare", "publish", "maintain"}]
      BY <1>0, <1>1, GotoType DEF RecoverCritical, Commit
    <2> QED
      BY <1>0, <1>1, <2>1, <2>2 DEF TypeOK, RecoverCritical, historyVars
  <1>2. ASSUME NEW batch \in SUBSET Candidates, PrepareBatch(s, batch)
        PROVE  TypeOK'
    <2>1. row' \in [Occurrences -> RowType]
      BY <1>2, PrepareQuiet, RowFunction DEF PrepareBatch
    <2>2. phase' \in [Schedulers -> {"recover", "claim", "prepare", "publish", "maintain"}]
      BY <1>0, <1>2, GotoType DEF PrepareBatch
    <2>3. todo' \in [Schedulers -> SUBSET Occurrences]
      BY <1>0, <1>2, SMTT(30) DEF TypeOK, PrepareBatch, Candidates
    <2> QED
      BY <1>0, <1>2, <2>1, <2>2, <2>3 DEF TypeOK, PrepareBatch, historyVars
  <1>3. ASSUME NEW old \in SUBSET Removable, Maintain(s, old)
        PROVE  TypeOK'
    <2>1. row' \in [Occurrences -> RowType]
      BY <1>3, MaintainQuiet, RowFunction DEF Maintain
    <2>2. phase' \in [Schedulers -> {"recover", "claim", "prepare", "publish", "maintain"}]
      BY <1>0, <1>3, GotoType DEF Maintain
    <2> QED
      BY <1>0, <1>3, <2>1, <2>2 DEF TypeOK, Maintain, historyVars
  <1>4. CASE Reconcile(s)
    BY <1>0, <1>4, InstantTypes DEF TypeOK, Reconcile, Later, historyVars, schedulerVars
  <1>5. CASE ClaimNothing(s) \/ TickFails(s) \/ PublishDone(s)
    <2>1. phase' \in [Schedulers -> {"recover", "claim", "prepare", "publish", "maintain"}]
      BY <1>0, <1>5, GotoType DEF ClaimNothing, TickFails, PublishDone
    <2> QED
      BY <1>0, <1>5, <2>1 DEF TypeOK, ClaimNothing, TickFails, PublishDone, historyVars
  <1>6. CASE ClaimDue(s)
    <2>1. row' \in [Occurrences -> RowType] /\ claims' \in [Occurrences -> Nat]
      <3>1. PICK claim : Accepted(claim) /\ row' = [row EXCEPT ![cursor] = claim]
        BY <1>6, NewClaimAccepted DEF ClaimDue
      <3>2. claims' = [claims EXCEPT ![cursor] = claims[cursor] + 1] /\ cursor \in Occurrences
        BY <1>0, <1>6, BoundAssumption DEF TypeOK, ClaimDue, Due, Occurrences
      <3> QED
        BY <1>0, <3>1, <3>2 DEF TypeOK, Accepted
    <2>2. phase' \in [Schedulers -> {"recover", "claim", "prepare", "publish", "maintain"}]
      BY <1>0, <1>6, GotoType DEF ClaimDue, Commit
    <2>3. cursor' \in -1 .. Horizon + 1
      BY <1>0, <1>6, InstantTypes DEF ClaimDue, Advance, Later
    <2> QED
      BY <1>0, <1>6, <2>1, <2>2, <2>3 DEF TypeOK, ClaimDue
  <1>7. CASE MarkInvalid(s)
    <2>1. phase' \in [Schedulers -> {"recover", "claim", "prepare", "publish", "maintain"}]
      BY <1>0, <1>7, GotoType DEF MarkInvalid, Commit
    <2> QED
      BY <1>0, <1>7, <2>1, InstantTypes DEF TypeOK, MarkInvalid, historyVars
  <1>8. CASE Publish(s)
    <2>1. PICK o \in todo[s], accepted \in BOOLEAN :
            /\ sending' = [sending EXCEPT ![s] = [occurrence |-> o, accepted |-> accepted]]
            /\ todo' = [todo EXCEPT ![s] = todo[s] \ {o}]
            /\ \/ published' = [published EXCEPT ![o] = published[o] + 1]
               \/ UNCHANGED published
      BY <1>8 DEF Publish
    <2>2. o \in Occurrences
      BY <1>0 DEF TypeOK
    <2>3. /\ sending' \in [Schedulers -> [occurrence : Occurrences \cup {NoOccurrence},
                                         accepted : BOOLEAN]]
          /\ todo' \in [Schedulers -> SUBSET Occurrences]
          /\ published' \in [Occurrences -> Nat]
      BY <1>0, <2>1, <2>2 DEF TypeOK
    <2> QED
      BY <1>0, <1>8, <2>3 DEF TypeOK, Publish
  <1>9. CASE RecordPublishResult(s)
    <2>1. row' \in [Occurrences -> RowType]
      <3>1. row' = [o \in Occurrences |-> row'[o]]
        BY <1>0, <1>9 DEF TypeOK, RecordPublishResult
      <3> QED
        BY <1>9, <3>1, PublishResultQuiet, RowFunction
    <2>2. sending' \in [Schedulers -> [occurrence : Occurrences \cup {NoOccurrence},
                                       accepted : BOOLEAN]]
      BY <1>0, <1>9 DEF TypeOK, RecordPublishResult, NoSending
    <2> QED
      BY <1>0, <1>9, <2>1, <2>2 DEF TypeOK, RecordPublishResult, historyVars
  <1>10. CASE PublishResultDropped(s)
    BY <1>0, <1>10 DEF TypeOK, PublishResultDropped, NoSending, historyVars
  <1>11. CASE Restart(s)
    <2>1. phase' \in [Schedulers -> {"recover", "claim", "prepare", "publish", "maintain"}]
      BY <1>0, <1>11, GotoType DEF Restart
    <2>2. /\ sending' \in [Schedulers -> [occurrence : Occurrences \cup {NoOccurrence},
                                         accepted : BOOLEAN]]
          /\ todo' \in [Schedulers -> SUBSET Occurrences]
          /\ epoch' \in [Schedulers -> Nat]
      BY <1>0, <1>11 DEF TypeOK, Restart, NoSending
    <2> QED
      BY <1>0, <1>11, <2>1, <2>2 DEF TypeOK, Restart, historyVars
  <1> QED
    BY <1>1, <1>2, <1>3, <1>4, <1>5, <1>6, <1>7, <1>8, <1>9, <1>10, <1>11 DEF TickStep

LEMMA WorkerStepType ==
  ASSUME IInv, WorkerStep
  PROVE  TypeOK'
  <1>0. TypeOK
    BY DEF IInv
  <1>1. ASSUME NEW p \in Occurrences, AdmitCanceled(p) \/ AdmitDeferred(p) \/ Review(p)
        PROVE  TypeOK'
    <2>1. row' = [o \in Occurrences |-> row'[o]]
      BY <1>0, <1>1 DEF TypeOK, AdmitCanceled, AdmitDeferred, Review
    <2>2. row' \in [Occurrences -> RowType]
      BY <1>1, <2>1, ShuntQuiet, RowFunction
    <2> QED
      BY <1>0, <1>1, <2>2
         DEF TypeOK, AdmitCanceled, AdmitDeferred, Review, historyVars, schedulerVars
  <1>2. ASSUME NEW v \in Workers, NEW p \in Occurrences, AdmitRunning(v, p)
        PROVE  TypeOK'
    <2>1. /\ runs[p] + 1 \in Nat /\ runs[p] + 1 # 0
          /\ row[p].status \in {"dispatching", "enqueued"}
      BY <1>0, <1>2 DEF TypeOK, AdmitRunning, Admissible
    <2>2. Running(p, v, runs[p] + 1) \in RowType
      BY <2>1, AcceptedRows, RunningAccepted DEF Accepted
    <2>3. /\ row' \in [Occurrences -> RowType] /\ runs' \in [Occurrences -> Nat]
          /\ ended' \in [Occurrences -> {"no", None} \cup AfterAdmission]
      BY <1>0, <1>2, <2>1, <2>2 DEF TypeOK, AdmitRunning
    <2>4. work' \in [Workers -> [state : {"idle", "running", "finalizing"},
                                 occurrence : Occurrences \cup {NoOccurrence},
                                 run : Nat, result : {None} \cup AfterAdmission]]
      BY <1>0, <1>2, <2>1 DEF TypeOK, AdmitRunning
    <2> QED
      BY <1>0, <1>2, <2>3, <2>4 DEF TypeOK, AdmitRunning, schedulerVars
  <1>3. ASSUME NEW v \in Workers, EngineEnds(v)
        PROVE  TypeOK'
    <2>1. PICK result \in {None} \cup AfterAdmission :
            /\ work' = [work EXCEPT ![v].state = "finalizing", ![v].result = result]
            /\ ended' = [ended EXCEPT ![work[v].occurrence] = result]
      BY <1>3 DEF EngineEnds
    <2>2. /\ ended' \in [Occurrences -> {"no", None} \cup AfterAdmission]
          /\ work' \in [Workers -> [state : {"idle", "running", "finalizing"},
                                 occurrence : Occurrences \cup {NoOccurrence},
                                 run : Nat, result : {None} \cup AfterAdmission]]
      BY <1>0, <2>1, ZenonT(30) DEF TypeOK
    <2> QED
      BY <1>0, <1>3, <2>2 DEF TypeOK, EngineEnds, schedulerVars
  <1>4. ASSUME NEW v \in Workers, Finalize(v)
        PROVE  TypeOK'
    <2> DEFINE p == work[v].occurrence
    <2>1. p \in Occurrences /\ row[p].status = "running"
          /\ work[v].result \in {None} \cup AfterAdmission
      BY <1>0, <1>4 DEF Finalize, HoldsRun, IInv, PlanInv, TypeOK
    <2>2. Finalized(p, work[v].result) \in RowType
      BY <2>1, AcceptedRows, FinalizedAccepted DEF Accepted
    <2>3. row' \in [Occurrences -> RowType]
      BY <1>0, <1>4, <2>2 DEF TypeOK, Finalize
    <2> QED
      BY <1>0, <1>4, <2>3 DEF TypeOK, Finalize, NoWork, historyVars, schedulerVars
  <1>5. ASSUME NEW v \in Workers, Abandon(v)
        PROVE  TypeOK'
    BY <1>0, <1>5 DEF TypeOK, Abandon, NoWork, historyVars, schedulerVars
  <1> QED
    BY <1>1, <1>2, <1>3, <1>4, <1>5 DEF WorkerStep

LEMMA TimeStepType ==
  ASSUME IInv, Tick \/ Reschedule
  PROVE  TypeOK'
  <1>0. TypeOK
    BY DEF IInv
  <1>1. CASE Tick
    <2>1. row' \in [Occurrences -> RowType]
      BY <1>1, TickQuiet, RowFunction DEF Tick
    <2>2. now' \in 0 .. Horizon
      <3>1. now \in 0 .. Horizon /\ now' = IF now < Horizon THEN now + 1 ELSE now
        BY <1>0, <1>1 DEF TypeOK, Tick
      <3> QED
        BY <3>1, BoundAssumption
    <2> QED
      BY <1>0, <1>1, <2>1, <2>2 DEF TypeOK, Tick, historyVars, schedulerVars
  <1>2. CASE Reschedule
    BY <1>0, <1>2, InstantTypes DEF TypeOK, Reschedule, Later, historyVars, schedulerVars
  <1> QED
    BY <1>1, <1>2

-----------------------------------------------------------------------------

LEMMA InitIInv == Init => IInv
  <1> SUFFICES ASSUME Init
               PROVE  IInv
    OBVIOUS
  <1>1. \A o \in Occurrences : row[o] = NoRow /\ claims[o] = 0 /\ runs[o] = 0
    BY DEF Init
  <1>2. TypeOK
    <2>1. now \in 0 .. Horizon /\ cursor \in -1 .. Horizon + 1
      BY BoundAssumption DEF Init, Later, Uninitialized
    <2>2. row \in [Occurrences -> RowType]
      BY NoRowAccepted DEF Init, Accepted
    <2> QED
      BY <2>1, <2>2 DEF Init, TypeOK, NoSending, NoWork, None
  <1>3. ValidClaims
    BY <1>1, NoRowAccepted DEF ValidClaims, Accepted
  <1>4. \A o \in Occurrences : RunInv(o) /\ CursorInv(o) /\ VerdictInv(o)
    BY <1>1 DEF RunInv, CursorInv, VerdictInv, NoRow, None
  <1>5. \A w \in Workers : PlanInv(w)
    BY DEF Init, PlanInv, NoWork
  <1> QED
    BY <1>2, <1>3, <1>4, <1>5 DEF IInv

LEMMA NextIInv == IInv /\ [Next]_vars => IInv'
  <1> SUFFICES ASSUME IInv, [Next]_vars
               PROVE  IInv'
    OBVIOUS
  <1>1. CASE UNCHANGED vars
    BY <1>1 DEF vars, IInv, TypeOK, ValidClaims, RunInv, CursorInv, VerdictInv, PlanInv, Admitted
  <1>2. ASSUME NEW s \in Schedulers, TickStep(s) \/ TickFails(s) \/ Restart(s)
        PROVE  IInv'
    <2>1. CASE ClaimDue(s)
      BY <1>2, <2>1, ClaimDueStep, TickStepType DEF IInv
    <2>2. CASE ~ClaimDue(s)
      BY <1>2, <2>2, SchedulerQuiet, QuietStep, TickStepType DEF IInv
    <2> QED
      BY <2>1, <2>2
  <1>3. CASE WorkerStep
    <2>1. TypeOK'
      BY <1>3, WorkerStepType
    <2> QED
      BY <1>3, <2>1, ShuntQuiet, QuietStep, AdmitRunningStep, EngineEndsStep, FinalizeStep, AbandonStep
         DEF WorkerStep, IInv
  <1>4. CASE Tick
    BY <1>4, TickQuiet, QuietStep, TimeStepType DEF IInv
  <1>5. CASE Reschedule
    <2>1. Quiet
      BY <1>5, FrameQuiet DEF Reschedule, historyVars
    <2> QED
      BY <1>5, <2>1, QuietStep, TimeStepType DEF IInv
  <1> QED
    BY <1>1, <1>2, <1>3, <1>4, <1>5 DEF Next

(* The strengthened invariant holds in every reachable state.              *)
THEOREM Invariance == Spec => []IInv
  BY InitIInv, NextIInv, PTL DEF Spec

(* Every variable stays in its type.                                       *)
THEOREM TypeCorrect == Spec => []TypeOK
  <1>1. IInv => TypeOK
    BY DEF IInv
  <1> QED
    BY <1>1, Invariance, PTL

(* The repositories never write a claim that the CHECK constraints reject. *)
THEOREM ClaimsStayValid == Spec => []ValidClaims
  <1>1. IInv => ValidClaims
    BY DEF IInv
  <1> QED
    BY <1>1, Invariance, PTL

(* An occurrence is admitted to run at most once, whatever the broker      *)
(* repeats or delays and however often the schedulers are replaced.        *)
THEOREM RunsOnce == Spec => []AtMostOneRun
  <1>1. IInv => AtMostOneRun
    BY DEF IInv, RunInv, AtMostOneRun
  <1> QED
    BY <1>1, Invariance, PTL

(* An occurrence is claimed at most once, also after its claim was cleaned *)
(* up, because the cursor has passed it by then.                           *)
THEOREM ClaimsOnce == Spec => []ClaimedOnce
  <1>1. IInv => ClaimedOnce
    BY DEF IInv, CursorInv, ClaimedOnce
  <1> QED
    BY <1>1, Invariance, PTL

(* The ledger never contradicts what happened to an occurrence.            *)
THEOREM LedgerIsHonest == Spec => []HonestLedger
  <1>1. ASSUME IInv, NEW o \in Occurrences
        PROVE  /\ row[o].status = "canceled" \/ row[o].reason \in BeforeAdmission => runs[o] = 0
               /\ row[o].status = "succeeded" => ended[o] = None
               /\ row[o].reason = "execution_failed_after_admission" => ended[o] = row[o].reason
    <2>1. ValidStatus(row[o]) /\ ValidReason(row[o]) /\ RunInv(o) /\ VerdictInv(o)
      BY <1>1 DEF IInv, ValidClaims
    <2>2. row[o].status = "canceled" \/ row[o].reason \in BeforeAdmission => runs[o] = 0
      BY <2>1 DEF ValidStatus, ValidReason, RunInv, Admitted, Terminal, BeforeAdmission,
                  AfterAdmission, PendingReasons, None, Policy, NoRow
    <2> QED
      BY <2>1, <2>2 DEF VerdictInv
  <1>2. IInv => HonestLedger
    BY <1>1 DEF HonestLedger
  <1> QED
    BY <1>2, Invariance, PTL

(* The domain's table of transitions, which no repository consults.        *)
Lawful(o) ==
    \/ row'[o].status = row[o].status /\ (row[o].reviewed => row'[o].reviewed)
    \/ <<row[o].status, row'[o].status>> \in Transitions
    \/ /\ row[o].status \in Terminal /\ row'[o] = NoRow
       /\ row[o].reason = "execution_outcome_unknown" => row[o].reviewed

LEMMA LawfulStatus ==
  ASSUME IInv, NEW o \in Occurrences, row[o].status # "dead_lettered",
         \/ row'[o].status = row[o].status
         \/ <<row[o].status, row'[o].status>> \in Transitions
  PROVE  Lawful(o)
  BY AcceptedRows DEF Accepted, ValidReason, Lawful

LEMMA PreparedLawful ==
  ASSUME IInv, NEW s \in Schedulers, NEW o \in Candidates, NEW decision \in Decisions,
         row'[o] = Prepared(o, s, decision)
  PROVE  Lawful(o)
  <1>1. /\ o \in Occurrences /\ row[o].status = "pending" /\ row[o].status \in Waiting
        /\ Accepted(row[o]) /\ epoch[s] \in Nat /\ row[o].attempts + 1 \in Nat
    BY AcceptedRows, RowFields DEF Candidates, Waiting, IInv, TypeOK, Accepted
  <1>2. CASE row'[o] = Canceled(o)
    BY <1>1, <1>2, CanceledAccepted, LawfulStatus DEF View, Transitions
  <1>3. CASE row'[o] = NotEnqueued(o) /\ Exhausted(o)
    <2>1. row'[o].status \in {"pending", "dead_lettered"}
      BY <1>1, <1>3, NotEnqueuedAccepted DEF View
    <2> QED
      BY <1>1, <2>1, LawfulStatus DEF Transitions
  <1>4. CASE row'[o] = NoBudgetAnswer(o, row[o].attempts + 1)
    BY <1>1, <1>4, NoBudgetAnswerAccepted, LawfulStatus DEF View, Transitions
  <1>5. CASE row'[o] = Dispatched(o, s)
    BY <1>1, <1>5, DispatchedAccepted, LawfulStatus DEF View, Transitions
  <1> QED
    BY <1>2, <1>3, <1>4, <1>5 DEF Prepared, Decisions

LEMMA SchedulerLawful ==
  ASSUME IInv, NEW s \in Schedulers, TickStep(s) \/ TickFails(s) \/ Restart(s),
         NEW o \in Occurrences
  PROVE  Lawful(o)
  <1>0. ASSUME row'[o] = row[o]
        PROVE  Lawful(o)
    BY <1>0 DEF Lawful
  <1>1. ASSUME NEW stuck \in SUBSET LeaseExpired, NEW lost \in SUBSET DeadlineExpired,
               RecoverCritical(s, stuck, lost)
        PROVE  Lawful(o)
    <2>1. CASE o \in stuck
      <3>1. row'[o] = NotEnqueued(o) /\ row[o].status \in {"dispatching", "enqueued"}
        BY <1>1, <2>1 DEF RecoverCritical, LeaseExpired
      <3> QED
        BY <3>1, AcceptedRows, NotEnqueuedAccepted, LawfulStatus DEF View, Waiting, Transitions
    <2>2. CASE o \notin stuck /\ o \in lost
      <3>1. row'[o] = Quarantined(o) /\ row[o].status = "running"
        BY <1>1, <2>2 DEF RecoverCritical, DeadlineExpired
      <3> QED
        BY <3>1, AcceptedRows, QuarantinedAccepted, LawfulStatus DEF View, Transitions
    <2>3. CASE o \notin stuck /\ o \notin lost
      BY <1>0, <1>1, <2>3 DEF RecoverCritical
    <2> QED
      BY <2>1, <2>2, <2>3
  <1>2. ASSUME NEW batch \in SUBSET Candidates, PrepareBatch(s, batch)
        PROVE  Lawful(o)
    <2>1. PICK decision \in [batch -> Decisions] :
            row' = [q \in Occurrences |->
                      IF q \in batch THEN Prepared(q, s, decision[q]) ELSE row[q]]
      BY <1>2 DEF PrepareBatch
    <2>2. CASE o \in batch
      BY <2>1, <2>2, PreparedLawful
    <2>3. CASE o \notin batch
      BY <1>0, <2>1, <2>3
    <2> QED
      BY <2>2, <2>3
  <1>3. ASSUME NEW old \in SUBSET Removable, Maintain(s, old)
        PROVE  Lawful(o)
    BY <1>0, <1>3 DEF Maintain, Removable, Lawful
  <1>4. CASE RecordPublishResult(s)
    <2> DEFINE p == sending[s].occurrence
    <2>1. /\ row[p].status = "dispatching" /\ p \in Occurrences
          /\ row' = [row EXCEPT ![p] =
                       IF sending[s].accepted THEN Enqueued(p) ELSE NotEnqueued(p)]
      BY <1>4 DEF RecordPublishResult, OwnsDispatch, IInv, TypeOK
    <2>2. CASE o = p /\ row'[o] = Enqueued(o)
      BY <2>1, <2>2, AcceptedRows, EnqueuedAccepted, LawfulStatus DEF View, Transitions
    <2>3. CASE o = p /\ row'[o] = NotEnqueued(o)
      BY <2>1, <2>3, AcceptedRows, NotEnqueuedAccepted, LawfulStatus DEF View, Waiting, Transitions
    <2> QED
      BY <1>0, <2>1, <2>2, <2>3 DEF IInv, TypeOK
  <1>5. CASE ClaimDue(s)
    <2>1. PICK claim \in {NewClaim("pending", None, NoTime),
                          NewClaim("pending", "budget_evaluation_failed", RetryDelay),
                          NewClaim("canceled", Policy, NoTime)} :
            row' = [row EXCEPT ![cursor] = claim]
      BY <1>5 DEF ClaimDue
    <2>2. CASE o = cursor
      <3>1. row[o].status = "none" /\ row'[o] = claim
        BY <1>5, <2>1, <2>2 DEF ClaimDue, IInv, TypeOK
      <3>2. row'[o].status \in {"pending", "canceled"}
        BY <3>1, NewClaimAccepted DEF View
      <3> QED
        BY <3>1, <3>2, LawfulStatus DEF Transitions
    <2>3. CASE o # cursor
      BY <1>0, <2>1, <2>3 DEF IInv, TypeOK
    <2> QED
      BY <2>2, <2>3
  <1>6. CASE Reconcile(s) \/ ClaimNothing(s) \/ MarkInvalid(s) \/ TickFails(s) \/ Restart(s)
    BY <1>0, <1>6 DEF Reconcile, ClaimNothing, MarkInvalid, TickFails, Restart
  <1>7. CASE Publish(s) \/ PublishResultDropped(s) \/ PublishDone(s)
    BY <1>0, <1>7 DEF Publish, PublishResultDropped, PublishDone
  <1> QED
    BY <1>1, <1>2, <1>3, <1>4, <1>5, <1>6, <1>7 DEF TickStep

LEMMA WorkerLawful ==
  ASSUME IInv, WorkerStep, NEW o \in Occurrences
  PROVE  Lawful(o)
  <1>0. ASSUME row'[o] = row[o]
        PROVE  Lawful(o)
    BY <1>0 DEF Lawful
  <1>1. Accepted(row[o]) /\ row \in [Occurrences -> RowType] /\ row[o].attempts \in Nat
    BY AcceptedRows, RowFields DEF Accepted, IInv, TypeOK
  <1>2. ASSUME NEW p \in Occurrences, AdmitCanceled(p)
        PROVE  Lawful(o)
    <2>1. CASE o = p
      <3>1. row'[o] = Canceled(o) /\ row[o].status \in {"dispatching", "enqueued"}
        BY <1>1, <1>2, <2>1 DEF AdmitCanceled, Admissible
      <3> QED
        BY <1>1, <3>1, CanceledAccepted, LawfulStatus DEF View, Waiting, Transitions
    <2> QED
      BY <1>0, <1>1, <1>2, <2>1 DEF AdmitCanceled
  <1>3. ASSUME NEW p \in Occurrences, AdmitDeferred(p)
        PROVE  Lawful(o)
    <2>1. CASE o = p
      <3>1. /\ row'[o] = NoBudgetAnswer(o, row[o].attempts)
            /\ row[o].status \in {"dispatching", "enqueued"}
        BY <1>1, <1>3, <2>1 DEF AdmitDeferred, Admissible
      <3> QED
        BY <1>1, <3>1, NoBudgetAnswerAccepted, LawfulStatus DEF View, Waiting, Transitions
    <2> QED
      BY <1>0, <1>1, <1>3, <2>1 DEF AdmitDeferred
  <1>4. ASSUME NEW p \in Occurrences, Review(p)
        PROVE  Lawful(o)
    <2>1. CASE o = p
      BY <1>1, <1>4, <2>1 DEF Review, Lawful, Accepted, RowType
    <2> QED
      BY <1>0, <1>1, <1>4, <2>1 DEF Review
  <1>5. ASSUME NEW v \in Workers, NEW p \in Occurrences, AdmitRunning(v, p)
        PROVE  Lawful(o)
    <2>1. CASE o = p
      <3>1. /\ row'[o] = Running(o, v, runs[o] + 1) /\ runs[o] + 1 \in Nat /\ runs[o] + 1 # 0
            /\ row[o].status \in {"dispatching", "enqueued"}
        BY <1>1, <1>5, <2>1 DEF AdmitRunning, Admissible, IInv, TypeOK
      <3> QED
        BY <1>1, <3>1, RunningAccepted, LawfulStatus DEF View, Transitions
    <2> QED
      BY <1>0, <1>1, <1>5, <2>1 DEF AdmitRunning
  <1>6. ASSUME NEW v \in Workers, Finalize(v)
        PROVE  Lawful(o)
    <2> DEFINE p == work[v].occurrence
    <2>1. /\ p \in Occurrences /\ row[p].status = "running"
          /\ work[v].result \in {None} \cup AfterAdmission
          /\ row' = [row EXCEPT ![p] = Finalized(p, work[v].result)]
      BY <1>6 DEF Finalize, HoldsRun, IInv, PlanInv, TypeOK
    <2>2. CASE o = p
      <3>1. row'[o].status \in {"succeeded", "dead_lettered"}
        BY <1>1, <2>1, <2>2, FinalizedAccepted DEF View
      <3> QED
        BY <2>1, <2>2, <3>1, LawfulStatus DEF Transitions
    <2> QED
      BY <1>0, <1>1, <2>1, <2>2
  <1>7. ASSUME NEW v \in Workers, EngineEnds(v) \/ Abandon(v)
        PROVE  Lawful(o)
    BY <1>0, <1>7 DEF EngineEnds, Abandon
  <1> QED
    BY <1>2, <1>3, <1>4, <1>5, <1>6, <1>7 DEF WorkerStep

(* A claim only ever moves as the domain's table allows; a terminal claim  *)
(* can only be cleaned up, an unknown outcome only after its review.       *)
THEOREM StepsAreLegal == Spec => LegalTransitions
  <1>1. ASSUME IInv, [Next]_vars, NEW o \in Occurrences
        PROVE  Lawful(o)
    <2>1. CASE UNCHANGED vars
      BY <2>1 DEF vars, Lawful
    <2>2. CASE Tick
      <3>1. row'[o] = Aged(row[o]) /\ Accepted(row[o])
        BY <1>1, <2>2, AcceptedRows DEF Tick, Aged
      <3> QED
        BY <3>1 DEF Lawful, Aged, Accepted, RowType
    <2>3. CASE Reschedule
      BY <2>3 DEF Reschedule, Lawful
    <2> QED
      BY <1>1, <2>1, <2>2, <2>3, SchedulerLawful, WorkerLawful DEF Next
  <1>2. IInv /\ [Next]_vars => [\A o \in Occurrences :
          LET old == row[o]  new == row'[o]
          IN  \/ new.status = old.status /\ (old.reviewed => new.reviewed)
              \/ <<old.status, new.status>> \in Transitions
              \/ /\ old.status \in Terminal /\ new = NoRow
                 /\ old.reason = "execution_outcome_unknown" => old.reviewed ]_vars
    BY <1>1 DEF Lawful
  <1> QED
    BY <1>2, Invariance, PTL DEF Spec, LegalTransitions

-----------------------------------------------------------------------------

(* Refinement: what a step means for the promise about an occurrence.      *)
Moved(o) ==
    \/ Standing(o)' = Standing(o) /\ runs'[o] = runs[o]
    \/ /\ <<Standing(o), Standing(o)'>> \in Promise!Moves /\ runs'[o] = runs[o]
       /\ Standing(o)' # "running"
    \/ Standing(o) = "open" /\ Standing(o)' = "running" /\ runs'[o] = runs[o] + 1

Standings == {"future", "open", "running", "forgotten"} \cup Promise!Ends

LEMMA StandingTypeNext ==
  ASSUME IInv', NEW o \in Occurrences
  PROVE  Standing(o)' \in Standings
  <1>1. ValidStatus(row'[o])
    BY DEF IInv, ValidClaims
  <1> QED
    BY <1>1
       DEF ValidStatus, Standing, Standings, Promise!Ends, Waiting, Terminal, NoRow

LEMMA StandingOf ==
  ASSUME IInv, NEW o \in Occurrences
  PROVE  /\ row[o].status = "none" /\ claims[o] = 0 => Standing(o) = "future"
         /\ row[o].status = "none" /\ claims[o] = 1 => Standing(o) = "forgotten"
         /\ row[o].status \in Waiting => Standing(o) = "open"
         /\ row[o].status = "running" => Standing(o) = "running"
         /\ row[o].status = "canceled" => Standing(o) = "dropped"
         /\ row[o].status = "succeeded" => Standing(o) = "succeeded"
         /\ row[o].status = "dead_lettered" /\ row[o].reason \in BeforeAdmission
              => Standing(o) = "dropped"
         /\ row[o].status = "dead_lettered" /\ row[o].reason = "execution_outcome_unknown"
              => Standing(o) = "unknown"
         /\ row[o].status = "dead_lettered" /\ row[o].reason = "execution_failed_after_admission"
              => Standing(o) = "failed"
         /\ row[o].status \in Terminal => Standing(o) \in Promise!Ends
  BY DEF Standing, Waiting, Terminal, BeforeAdmission, Promise!Ends

LEMMA StandingOfNext ==
  ASSUME IInv', NEW o \in Occurrences
  PROVE  /\ row'[o].status = "none" /\ claims'[o] = 0 => Standing(o)' = "future"
         /\ row'[o].status = "none" /\ claims'[o] = 1 => Standing(o)' = "forgotten"
         /\ row'[o].status \in Waiting => Standing(o)' = "open"
         /\ row'[o].status = "running" => Standing(o)' = "running"
         /\ row'[o].status = "canceled" => Standing(o)' = "dropped"
         /\ row'[o].status = "succeeded" => Standing(o)' = "succeeded"
         /\ row'[o].status = "dead_lettered" /\ row'[o].reason \in BeforeAdmission
              => Standing(o)' = "dropped"
         /\ row'[o].status = "dead_lettered" /\ row'[o].reason = "execution_outcome_unknown"
              => Standing(o)' = "unknown"
         /\ row'[o].status = "dead_lettered" /\ row'[o].reason = "execution_failed_after_admission"
              => Standing(o)' = "failed"
  BY DEF Standing, Waiting, Terminal, BeforeAdmission, Promise!Ends

LEMMA QuietMoves ==
  ASSUME IInv, IInv', Quiet, NEW o \in Occurrences
  PROVE  Moved(o)
  <1>0. QuietRow(o) /\ claims'[o] = claims[o] /\ runs'[o] = runs[o]
    BY DEF Quiet
  <1>1. CASE View(row'[o]) = View(row[o])
    BY <1>0, <1>1 DEF View, Standing, Moved
  <1>2. CASE Shunted(o)
    <2>1. row'[o].status = "dead_lettered" => row'[o].reason \in BeforeAdmission
      BY <1>0, <1>2 DEF QuietRow, Accepted, ValidReason, Shunted, AfterAdmission, BeforeAdmission,
           PendingReasons, None, Policy
    <2>2. Standing(o) = "open" /\ Standing(o)' \in {"open", "dropped"}
      BY <1>2, <2>1, StandingOf, StandingOfNext DEF Shunted
    <2> QED
      BY <1>0, <2>2 DEF Moved, Promise!Moves
  <1>3. CASE Closed(o)
    BY <1>0, <1>3, StandingOf, StandingOfNext DEF Closed, View, Moved, Promise!Moves
  <1>4. CASE Removed(o)
    <2>1. claims[o] = 1
      BY <1>4 DEF Removed, IInv, CursorInv, Terminal
    <2>2. Standing(o) \in Promise!Ends /\ Standing(o)' = "forgotten"
      BY <1>0, <1>4, <2>1, StandingOf, StandingOfNext DEF Removed, NoRow
    <2> QED
      BY <1>0, <2>2 DEF Moved, Promise!Moves
  <1> QED
    BY <1>0, <1>1, <1>2, <1>3, <1>4 DEF QuietRow

LEMMA UntouchedMoves ==
  ASSUME IInv, NEW o \in Occurrences, row'[o] = row[o], claims'[o] = claims[o], runs'[o] = runs[o]
  PROVE  Moved(o)
  BY DEF Standing, Moved

LEMMA StepMoves ==
  ASSUME IInv, IInv', Next, NEW o \in Occurrences
  PROVE  Moved(o)
  <1>0. /\ row \in [Occurrences -> RowType] /\ runs \in [Occurrences -> Nat]
        /\ claims \in [Occurrences -> Nat] /\ Accepted(row[o])
    BY AcceptedRows DEF IInv, TypeOK
  <1>1. ASSUME NEW s \in Schedulers, TickStep(s) \/ TickFails(s) \/ Restart(s)
        PROVE  Moved(o)
    <2>1. CASE ClaimDue(s)
      <3>1. PICK claim \in {NewClaim("pending", None, NoTime),
                            NewClaim("pending", "budget_evaluation_failed", RetryDelay),
                            NewClaim("canceled", Policy, NoTime)} :
              row' = [row EXCEPT ![cursor] = claim]
        BY <2>1 DEF ClaimDue
      <3>2. CASE o = cursor
        <4>1. row[o].status = "none" /\ claims'[o] = claims[o] + 1 /\ runs'[o] = runs[o]
          BY <1>0, <2>1, <3>2 DEF ClaimDue
        <4>2. claims[o] = 0
          BY <4>1, <1>0 DEF IInv, CursorInv
        <4>3. row'[o].status \in {"pending", "canceled"}
          BY <1>0, <3>1, <3>2, NewClaimAccepted DEF View
        <4> QED
          BY <4>1, <4>2, <4>3, StandingOf, StandingOfNext DEF Moved, Promise!Moves, Waiting
      <3>3. CASE o # cursor
        BY <1>0, <2>1, <3>1, <3>3, UntouchedMoves DEF ClaimDue
      <3> QED
        BY <3>2, <3>3
    <2>2. CASE ~ClaimDue(s)
      BY <1>1, <2>2, SchedulerQuiet, QuietMoves
    <2> QED
      BY <2>1, <2>2
  <1>2. ASSUME NEW p \in Occurrences, AdmitCanceled(p) \/ AdmitDeferred(p) \/ Review(p)
        PROVE  Moved(o)
    BY <1>2, ShuntQuiet, QuietMoves
  <1>3. ASSUME NEW v \in Workers, NEW p \in Occurrences, AdmitRunning(v, p)
        PROVE  Moved(o)
    <2>1. CASE o = p
      <3>1. /\ row'[o] = Running(o, v, runs[o] + 1) /\ runs[o] + 1 \in Nat /\ runs[o] + 1 # 0
            /\ row[o].status \in {"dispatching", "enqueued"} /\ runs'[o] = runs[o] + 1
        BY <1>0, <1>3, <2>1 DEF AdmitRunning, Admissible
      <3>2. row'[o].status = "running"
        BY <1>0, <3>1, RunningAccepted DEF View
      <3> QED
        BY <3>1, <3>2, StandingOf, StandingOfNext DEF Moved, Waiting
    <2> QED
      BY <1>0, <1>3, <2>1, UntouchedMoves DEF AdmitRunning
  <1>4. ASSUME NEW v \in Workers, Finalize(v)
        PROVE  Moved(o)
    <2> DEFINE p == work[v].occurrence
    <2>1. /\ p \in Occurrences /\ row[p].status = "running"
          /\ work[v].result \in {None} \cup AfterAdmission
          /\ row' = [row EXCEPT ![p] = Finalized(p, work[v].result)]
          /\ UNCHANGED <<claims, runs>>
      BY <1>4 DEF Finalize, HoldsRun, IInv, PlanInv, TypeOK, historyVars
    <2>2. CASE o = p
      <3>1. \/ row'[o].status = "succeeded"
            \/ row'[o].status = "dead_lettered" /\ row'[o].reason \in AfterAdmission
        BY <1>0, <2>1, <2>2, FinalizedAccepted DEF View, None, AfterAdmission
      <3> QED
        BY <2>1, <2>2, <3>1, StandingOf, StandingOfNext
           DEF Moved, Promise!Moves, AfterAdmission
    <2> QED
      BY <1>0, <2>1, <2>2, UntouchedMoves
  <1>5. ASSUME NEW v \in Workers, EngineEnds(v) \/ Abandon(v)
        PROVE  Moved(o)
    BY <1>5, UntouchedMoves DEF EngineEnds, Abandon, historyVars
  <1>6. CASE Tick
    BY <1>6, TickQuiet, QuietMoves
  <1>7. CASE Reschedule
    BY <1>7, UntouchedMoves DEF Reschedule, historyVars
  <1> QED
    BY <1>1, <1>2, <1>3, <1>4, <1>5, <1>6, <1>7 DEF Next, WorkerStep

(* The scheduler, the workers and their ledger implement what is promised  *)
(* of every occurrence: opened once, run at most once, ended once.         *)
THEOREM PromiseKept == Spec => KeepsPromise
  <1>1. Init => Promise!Init
    BY DEF Init, Promise!Init, Standing, NoRow
  <1>2. ASSUME IInv, IInv', [Next]_vars
        PROVE  [Promise!Next]_(Promise!vars)
    <2>1. CASE UNCHANGED vars
      BY <2>1 DEF vars, Promise!vars, Standing
    <2>2. CASE Next
      <3>1. \A o \in Occurrences : Moved(o)
        BY <1>2, <2>2, StepMoves
      <3>2. \A o \in Occurrences : Standing(o)' \in Standings
        BY <1>2, StandingTypeNext
      <3>3. Promise!Next
        BY <1>2, <3>1, <3>2 DEF Promise!Next, Promise!Starts, Promise!Moves, Promise!Ends, Moved, Standings, IInv, TypeOK
      <3> QED
        BY <3>3
    <2> QED
      BY <1>2, <2>1, <2>2
  <1> QED
    BY <1>1, <1>2, Invariance, PTL DEF Spec, KeepsPromise, Promise!Spec


-----------------------------------------------------------------------------
(* Publishing is paid for by attempts.                                     *)

LEMMA HoldersFinite ==
  ASSUME NEW o
  PROVE  IsFiniteSet(Holders(o)) /\ Cardinality(Holders(o)) \in Nat
  <1>1. Holders(o) \subseteq Schedulers
    BY DEF Holders
  <1> QED
    BY <1>1, BoundAssumption, FS_Subset, FS_CardinalityType

LEMMA HoldersFiniteNext ==
  ASSUME NEW o
  PROVE  IsFiniteSet(Holders(o)') /\ Cardinality(Holders(o)') \in Nat
  <1>1. Holders(o)' \subseteq Schedulers
    BY DEF Holders
  <1> QED
    BY <1>1, BoundAssumption, FS_Subset, FS_CardinalityType

(* A step that makes no attempt of o.                                      *)
Thrifty(o) ==
    \/ row'[o].status = "none" /\ row'[o].attempts = 0
    \/ /\ row[o].status # "none" /\ row'[o].status # "none"
       /\ row'[o].attempts = row[o].attempts
       /\ row'[o].status = "pending" => row[o].attempts < MaxAttempts

(* No replica gets hold of o, and a publish of it takes it away from one.  *)
NoMoreHeld(o) ==
    /\ claims'[o] = claims[o] /\ published'[o] \in Nat
    /\ published'[o] + Cardinality(Holders(o)') <= published[o] + Cardinality(Holders(o))

LEMMA Amounts ==
  ASSUME IInv, NEW o \in Occurrences
  PROVE  /\ row[o].attempts \in Nat /\ published[o] \in Nat /\ MaxAttempts \in Nat \ {0}
         /\ row[o].status = "none" => row[o] = NoRow /\ row[o].attempts = 0
  <1>1. row[o] \in RowType /\ ValidStatus(row[o]) /\ published[o] \in Nat
    BY DEF IInv, TypeOK, ValidClaims
  <1>2. row[o].status = "none" => row[o] = NoRow
    BY <1>1 DEF ValidStatus, Terminal
  <1> QED
    BY <1>1, <1>2, RowFields, BoundAssumption DEF NoRow

LEMMA ThriftyStep ==
  ASSUME IInv, NEW o \in Occurrences, BudgetInv(o), Thrifty(o), NoMoreHeld(o)
  PROVE  BudgetInv(o)'
  <1> DEFINE h == Cardinality(Holders(o))
             k == Cardinality(Holders(o)')
  <1>1. h \in Nat /\ k \in Nat
    BY HoldersFinite, HoldersFiniteNext
  <1>2. /\ row[o].attempts \in Nat /\ published[o] \in Nat /\ MaxAttempts \in Nat
    BY Amounts
  <1>3. /\ published[o] + h <= MaxAttempts
        /\ row[o].status # "none" => published[o] + h <= row[o].attempts
        /\ row[o].attempts <= MaxAttempts
        /\ claims[o] = 0 => published[o] = 0 /\ h = 0
    BY FS_EmptySet DEF BudgetInv
  <1>4. /\ claims'[o] = claims[o] /\ published'[o] \in Nat
        /\ published'[o] + k <= published[o] + h
    BY DEF NoMoreHeld
  <1>5. k = 0 => Holders(o)' = {}
    BY HoldersFiniteNext, FS_EmptySet
  <1> HIDE DEF h, k
  <1>6. published'[o] + k <= MaxAttempts
    BY <1>1, <1>2, <1>3, <1>4
  <1>7. row'[o].status # "none" => published'[o] + k <= row'[o].attempts
    BY <1>1, <1>2, <1>3, <1>4 DEF Thrifty
  <1>8. /\ row'[o].attempts <= MaxAttempts
        /\ row'[o].status = "pending" => row'[o].attempts < MaxAttempts
    BY <1>2, <1>3 DEF Thrifty
  <1>9. claims'[o] = 0 => published'[o] = 0 /\ Holders(o)' = {}
    BY <1>1, <1>2, <1>3, <1>4, <1>5
  <1> QED
    BY <1>6, <1>7, <1>8, <1>9 DEF BudgetInv, k

LEMMA PutBackFields ==
  ASSUME NEW o, row[o] \in RowType, NEW n \in Nat, NEW p, NEW d
  PROVE  /\ PutBack(o, n, p, d).attempts = n
         /\ PutBack(o, n, p, d).status = IF n >= MaxAttempts THEN "dead_lettered" ELSE "pending"
  <1> DEFINE s == IF n >= MaxAttempts THEN "dead_lettered" ELSE "pending"
             e == IF n >= MaxAttempts THEN d ELSE p
             y == IF n >= MaxAttempts THEN NoTime ELSE RetryDelay
             c == n >= MaxAttempts
  <1>1. PutBack(o, n, p, d) =
          [row[o] EXCEPT !.status = s, !.reason = e, !.attempts = n, !.owner = NoOwner,
                         !.lease = NoTime, !.retry = y, !.completed = c]
    BY DEF PutBack
  <1> HIDE DEF s, e, y, c
  <1>2. PutBack(o, n, p, d).attempts = n /\ PutBack(o, n, p, d).status = s
    BY <1>1 DEF RowType
  <1> QED
    BY <1>2 DEF s

(* What the repositories make of a row that is waiting or running.         *)
LEMMA ThriftyRows ==
  ASSUME IInv, NEW o \in Occurrences, BudgetInv(o), row[o].status # "none"
  PROVE  /\ row'[o] \in {NotEnqueued(o), NoBudgetAnswer(o, row[o].attempts)} => Thrifty(o)
         /\ row'[o] \in {row[o], Canceled(o), Enqueued(o), Quarantined(o), NoRow} => Thrifty(o)
         /\ \A w, n : row'[o] = Running(o, w, n) => Thrifty(o)
         /\ \A r : row'[o] = Finalized(o, r) => Thrifty(o)
         /\ row'[o] = [row[o] EXCEPT !.reviewed = TRUE] => Thrifty(o)
         /\ row'[o] = Aged(row[o]) => Thrifty(o)
  <1>1. /\ row[o] \in RowType /\ row[o].attempts \in Nat /\ MaxAttempts \in Nat
        /\ row[o].status = "pending" => row[o].attempts < MaxAttempts
    BY Amounts DEF IInv, TypeOK, BudgetInv
  <1>2. row'[o] \in {NotEnqueued(o), NoBudgetAnswer(o, row[o].attempts)} => Thrifty(o)
    <2>1. ASSUME NEW p, NEW d, row'[o] = PutBack(o, row[o].attempts, p, d)
          PROVE  Thrifty(o)
      BY <1>1, <2>1, PutBackFields DEF Thrifty
    <2> QED
      BY <2>1 DEF NotEnqueued, NoBudgetAnswer
  <1>3. row'[o] \in {row[o], Canceled(o), Enqueued(o), Quarantined(o), NoRow} => Thrifty(o)
    <2>1. CASE row'[o] = row[o]
      BY <1>1, <2>1 DEF Thrifty
    <2>2. CASE row'[o] = Canceled(o)
      BY <1>1, <2>2 DEF Thrifty, Canceled, RowType
    <2>3. CASE row'[o] = Enqueued(o)
      BY <1>1, <2>3 DEF Thrifty, Enqueued, RowType
    <2>4. CASE row'[o] = Quarantined(o)
      BY <1>1, <2>4 DEF Thrifty, Quarantined, RowType
    <2>5. CASE row'[o] = NoRow
      BY <2>5 DEF Thrifty, NoRow
    <2> QED
      BY <2>1, <2>2, <2>3, <2>4, <2>5
  <1>4. \A w, n : row'[o] = Running(o, w, n) => Thrifty(o)
    BY <1>1 DEF Thrifty, Running, RowType
  <1>5. \A r : row'[o] = Finalized(o, r) => Thrifty(o)
    BY <1>1 DEF Thrifty, Finalized, RowType
  <1>6. row'[o] = [row[o] EXCEPT !.reviewed = TRUE] => Thrifty(o)
    BY <1>1 DEF Thrifty, RowType
  <1>7. row'[o] = Aged(row[o]) => Thrifty(o)
    BY <1>1 DEF Thrifty, Aged, RowType
  <1> QED
    BY <1>2, <1>3, <1>4, <1>5, <1>6, <1>7

LEMMA SameRowThrifty ==
  ASSUME IInv, NEW o \in Occurrences, BudgetInv(o), row'[o] = row[o]
  PROVE  Thrifty(o)
  BY Amounts, ThriftyRows DEF Thrifty

LEMMA SameHeld ==
  ASSUME IInv, NEW o \in Occurrences, UNCHANGED <<claims, published, todo>>
  PROVE  NoMoreHeld(o)
  <1>1. Holders(o)' = Holders(o)
    BY DEF Holders
  <1>2. published[o] \in Nat /\ Cardinality(Holders(o)) \in Nat
    BY Amounts, HoldersFinite
  <1> QED
    BY <1>1, <1>2 DEF NoMoreHeld

(* A replica lets go of what it holds of o, by publishing or otherwise.    *)
LEMMA LetGo ==
  ASSUME IInv, NEW o \in Occurrences, claims' = claims, Holders(o)' \subseteq Holders(o),
         \/ published'[o] = published[o]
         \/ published'[o] = published[o] + 1 /\ Holders(o)' # Holders(o)
  PROVE  NoMoreHeld(o)
  <1> DEFINE h == Cardinality(Holders(o))
             k == Cardinality(Holders(o)')
  <1>1. h \in Nat /\ k \in Nat /\ IsFiniteSet(Holders(o)) /\ published[o] \in Nat
    BY HoldersFinite, HoldersFiniteNext, Amounts
  <1>2. k <= h /\ (k = h => Holders(o)' = Holders(o))
    BY <1>1, FS_Subset
  <1> HIDE DEF h, k
  <1>3. published'[o] \in Nat /\ published'[o] + k <= published[o] + h
    BY <1>1, <1>2
  <1> QED
    BY <1>3 DEF NoMoreHeld, h, k

(* The steps of a replica's tick that make no attempt.                     *)
LEMMA TickBudget ==
  ASSUME IInv, Budget, NEW s \in Schedulers, TickStep(s) \/ TickFails(s) \/ Restart(s),
         ~ClaimDue(s), ~ \E batch \in SUBSET Candidates : PrepareBatch(s, batch),
         NEW o \in Occurrences
  PROVE  BudgetInv(o)'
  <1>0. BudgetInv(o) /\ todo \in [Schedulers -> SUBSET Occurrences] /\ published \in [Occurrences -> Nat]
    BY DEF Budget, IInv, TypeOK
  <1>1. CASE \E stuck \in SUBSET LeaseExpired, lost \in SUBSET DeadlineExpired :
                RecoverCritical(s, stuck, lost)
    <2>1. PICK stuck \in SUBSET LeaseExpired, lost \in SUBSET DeadlineExpired :
                RecoverCritical(s, stuck, lost)
      BY <1>1
    <2>2. row'[o] = IF o \in stuck THEN NotEnqueued(o)
                    ELSE IF o \in lost THEN Quarantined(o) ELSE row[o]
      BY <2>1 DEF RecoverCritical
    <2>3. o \in stuck \cup lost => row[o].status # "none"
      BY DEF LeaseExpired, DeadlineExpired
    <2>4. Thrifty(o)
      <3>1. CASE o \notin stuck \cup lost
        BY <1>0, <2>2, <3>1, SameRowThrifty
      <3>2. CASE o \in stuck
        BY <1>0, <2>2, <2>3, <3>2, ThriftyRows
      <3>3. CASE o \in lost /\ o \notin stuck
        BY <1>0, <2>2, <2>3, <3>3, ThriftyRows
      <3> QED
        BY <3>1, <3>2, <3>3
    <2>5. NoMoreHeld(o)
      BY <2>1, SameHeld DEF RecoverCritical, historyVars
    <2> QED
      BY <1>0, <2>4, <2>5, ThriftyStep
  <1>2. CASE \E old \in SUBSET Removable : Maintain(s, old)
    <2>1. PICK old \in SUBSET Removable : Maintain(s, old)
      BY <1>2
    <2>2. row'[o] = IF o \in old THEN NoRow ELSE row[o]
      BY <2>1 DEF Maintain
    <2>3. o \in old => row[o].status # "none"
      BY DEF Removable, Terminal
    <2>4. Thrifty(o)
      <3>1. CASE o \in old
        BY <1>0, <2>2, <2>3, <3>1, ThriftyRows
      <3>2. CASE o \notin old
        BY <1>0, <2>2, <3>2, SameRowThrifty
      <3> QED
        BY <3>1, <3>2
    <2>5. NoMoreHeld(o)
      BY <2>1, SameHeld DEF Maintain, historyVars
    <2> QED
      BY <1>0, <2>4, <2>5, ThriftyStep
  <1>3. CASE RecordPublishResult(s)
    <2> DEFINE p == sending[s].occurrence
               new == IF sending[s].accepted THEN Enqueued(p) ELSE NotEnqueued(p)
    <2>1. row' = [row EXCEPT ![p] = new] /\ row[p].status = "dispatching"
      BY <1>3 DEF RecordPublishResult, OwnsDispatch
    <2>2. row \in [Occurrences -> RowType]
      BY DEF IInv, TypeOK
    <2>3. Thrifty(o)
      <3>1. CASE o = p
        BY <1>0, <2>1, <2>2, <3>1, ThriftyRows
      <3>2. CASE o # p
        BY <1>0, <2>1, <2>2, <3>2, SameRowThrifty
      <3> QED
        BY <3>1, <3>2
    <2>4. NoMoreHeld(o)
      BY <1>3, SameHeld DEF RecordPublishResult, historyVars
    <2> QED
      BY <1>0, <2>3, <2>4, ThriftyStep
  <1>4. CASE Publish(s)
    <2>1. PICK x \in todo[s] : /\ todo' = [todo EXCEPT ![s] = @ \ {x}]
                               /\ published' \in {published, [published EXCEPT ![x] = @ + 1]}
      BY <1>4 DEF Publish
    <2>2. row' = row /\ claims' = claims
      BY <1>4 DEF Publish
    <2>3. Thrifty(o)
      BY <1>0, <2>2, SameRowThrifty
    <2>4. Holders(o)' = IF o = x THEN Holders(o) \ {s} ELSE Holders(o)
      BY <1>0, <2>1 DEF Holders
    <2>5. o = x => s \in Holders(o)
      BY <2>1 DEF Holders
    <2>6. published'[o] = published[o] \/ (o = x /\ published'[o] = published[o] + 1)
      BY <1>0, <2>1
    <2>7. NoMoreHeld(o)
      BY <2>2, <2>4, <2>5, <2>6, LetGo
    <2> QED
      BY <1>0, <2>3, <2>7, ThriftyStep
  <1>5. CASE Restart(s)
    <2>1. row' = row /\ claims' = claims /\ published' = published /\ todo' = [todo EXCEPT ![s] = {}]
      BY <1>5 DEF Restart, historyVars
    <2>2. Holders(o)' \subseteq Holders(o)
      BY <1>0, <2>1 DEF Holders
    <2>3. Thrifty(o) /\ NoMoreHeld(o)
      BY <1>0, <2>1, <2>2, SameRowThrifty, LetGo
    <2> QED
      BY <1>0, <2>3, ThriftyStep
  <1>6. CASE \/ Reconcile(s) \/ ClaimNothing(s) \/ MarkInvalid(s)
             \/ PublishResultDropped(s) \/ PublishDone(s) \/ TickFails(s)
    <2>1. row' = row /\ UNCHANGED <<claims, published, todo>>
      BY <1>6 DEF Reconcile, ClaimNothing, MarkInvalid, PublishResultDropped, PublishDone, TickFails,
                  historyVars, schedulerVars
    <2> QED
      BY <1>0, <2>1, SameRowThrifty, SameHeld, ThriftyStep
  <1> QED
    BY <1>1, <1>2, <1>3, <1>4, <1>5, <1>6 DEF TickStep

(* A batch: every occurrence that a replica gets hold of costs an attempt. *)
LEMMA PrepareBudget ==
  ASSUME IInv, Budget, NEW s \in Schedulers, NEW batch \in SUBSET Candidates, PrepareBatch(s, batch),
         NEW o \in Occurrences
  PROVE  BudgetInv(o)'
  <1>0. BudgetInv(o) /\ todo \in [Schedulers -> SUBSET Occurrences]
    BY DEF Budget, IInv, TypeOK
  <1>1. PICK decision \in [batch -> Decisions] :
          /\ row' = [x \in Occurrences |->
                       IF x \in batch THEN Prepared(x, s, decision[x]) ELSE row[x]]
          /\ \/ todo' = [todo EXCEPT ![s] =
                           {x \in batch : decision[x] = "allowed" /\ ~Exhausted(x)}]
             \/ UNCHANGED todo
    BY DEF PrepareBatch
  <1>2. published' = published /\ claims' = claims
    BY DEF PrepareBatch, historyVars
  <1>3. Holders(o)' \subseteq Holders(o) \cup {s}
    BY <1>0, <1>1 DEF Holders
  <1>4. o \notin batch \/ (o \in batch /\ decision[o] # "allowed") => Holders(o)' \subseteq Holders(o)
    BY <1>0, <1>1 DEF Holders
  <1>5. CASE o \notin batch
    BY <1>0, <1>1, <1>2, <1>4, <1>5, SameRowThrifty, LetGo, ThriftyStep
  <1>6. CASE o \in batch
    <2> DEFINE h == Cardinality(Holders(o))
               k == Cardinality(Holders(o)')
               a == row[o].attempts
    <2>1. /\ row[o].status = "pending" /\ a < MaxAttempts /\ published[o] + h <= a
          /\ a \in Nat /\ MaxAttempts \in Nat /\ h \in Nat /\ k \in Nat /\ published[o] \in Nat
          /\ row[o] \in RowType /\ claims[o] # 0
      <3>1. row[o].status = "pending" /\ CursorInv(o) /\ row[o] \in RowType
        BY <1>6 DEF Candidates, IInv, TypeOK
      <3> QED
        BY <1>0, <3>1, Amounts, HoldersFinite, HoldersFiniteNext DEF BudgetInv, CursorInv
    <2>2. ~Exhausted(o)
      BY <2>1 DEF Exhausted
    <2>3. row'[o] = Prepared(o, s, decision[o]) /\ decision[o] \in Decisions
      BY <1>1, <1>6
    <2>4. CASE decision[o] = "rejected"
      <3>1. row'[o] = Canceled(o)
        BY <2>3, <2>4 DEF Prepared
      <3>2. Thrifty(o)
        BY <1>0, <2>1, <3>1, ThriftyRows
      <3> QED
        BY <1>0, <1>2, <1>4, <1>6, <2>4, <3>2, LetGo, ThriftyStep
    <2>5. CASE decision[o] # "rejected"
      <3>1. /\ row'[o].attempts = a + 1 /\ row'[o].status # "none"
            /\ row'[o].status = "pending" => a + 1 < MaxAttempts
        <4>1. CASE decision[o] = "unavailable"
          <5>1. row'[o] = PutBack(o, a + 1, "budget_evaluation_failed", "budget_evaluation_failed")
            BY <2>2, <2>3, <4>1 DEF Prepared, NoBudgetAnswer
          <5>2. a + 1 \in Nat
            BY <2>1
          <5> HIDE DEF a
          <5> QED
            BY <2>1, <5>1, <5>2, PutBackFields
        <4>2. CASE decision[o] = "allowed"
          <5>1. row'[o] = Dispatched(o, s)
            BY <2>2, <2>3, <4>2 DEF Prepared
          <5> QED
            BY <2>1, <5>1 DEF Dispatched, RowType
        <4> QED
          BY <2>3, <2>5, <4>1, <4>2 DEF Decisions
      <3>2. k <= h + 1
        <4>1. IsFiniteSet(Holders(o)) /\ IsFiniteSet(Holders(o) \cup {s})
          BY HoldersFinite, FS_AddElement
        <4>2. k <= Cardinality(Holders(o) \cup {s})
          BY <1>3, <4>1, FS_Subset
        <4>3. Cardinality(Holders(o) \cup {s}) \in {h, h + 1}
          BY <4>1, FS_AddElement
        <4> HIDE DEF h, k
        <4> QED
          BY <2>1, <4>2, <4>3
      <3>3. published'[o] + k <= a + 1
        <4> HIDE DEF h, k, a
        <4> QED
          BY <1>2, <2>1, <3>2
      <3>4. /\ published'[o] + k <= MaxAttempts /\ row'[o].attempts <= MaxAttempts
            /\ row'[o].status # "none" => published'[o] + k <= row'[o].attempts
            /\ row'[o].status = "pending" => row'[o].attempts < MaxAttempts
        <4> HIDE DEF h, k, a
        <4> QED
          BY <1>2, <2>1, <3>1, <3>3
      <3> QED
        BY <1>2, <2>1, <3>4 DEF BudgetInv
    <2> QED
      BY <2>4, <2>5
  <1> QED
    BY <1>5, <1>6

(* A claim is new: nobody holds or has published its occurrence.           *)
LEMMA ClaimBudget ==
  ASSUME IInv, Budget, NEW s \in Schedulers, ClaimDue(s), NEW o \in Occurrences
  PROVE  BudgetInv(o)'
  <1>0. BudgetInv(o) /\ row \in [Occurrences -> RowType] /\ claims \in [Occurrences -> Nat]
    BY DEF Budget, IInv, TypeOK
  <1>1. /\ cursor \in 1 .. now /\ UNCHANGED <<published, todo>>
        /\ claims' = [claims EXCEPT ![cursor] = @ + 1]
        /\ \E claim \in {NewClaim("pending", None, NoTime),
                         NewClaim("pending", "budget_evaluation_failed", RetryDelay),
                         NewClaim("canceled", Policy, NoTime)} :
              row' = [row EXCEPT ![cursor] = claim]
    BY DEF ClaimDue, Due
  <1>2. cursor \in Occurrences /\ CursorInv(cursor) /\ CursorInv(o)
    BY <1>1, BoundAssumption DEF IInv, TypeOK, Occurrences
  <1>3. CASE o # cursor
    <2>1. row'[o] = row[o] /\ claims'[o] = claims[o]
      BY <1>0, <1>1, <1>3
    <2>2. Thrifty(o)
      BY <1>0, <2>1, SameRowThrifty
    <2>3. NoMoreHeld(o)
      <3>1. Holders(o)' = Holders(o)
        BY <1>1 DEF Holders
      <3> QED
        BY <1>1, <2>1, <3>1, Amounts, HoldersFinite DEF NoMoreHeld
    <2> QED
      BY <1>0, <2>2, <2>3, ThriftyStep
  <1>4. CASE o = cursor
    <2>1. claims[o] = 0
      <3>1. ~(cursor < cursor) /\ cursor # Invalid
        BY <1>1, BoundAssumption DEF IInv, TypeOK, Invalid
      <3> QED
        BY <1>2, <1>4, <3>1 DEF CursorInv
    <2>2. published'[o] = 0 /\ Holders(o)' = {}
      BY <1>0, <1>1, <2>1 DEF BudgetInv, Holders
    <2>3. row'[o].attempts = 0
      <3>1. ASSUME NEW x, NEW y, NEW z PROVE NewClaim(x, y, z).attempts = 0
        <4> DEFINE c == x = "canceled"
        <4>1. NewClaim(x, y, z) = [NoRow EXCEPT !.status = x, !.reason = y, !.retry = z, !.completed = c]
          BY DEF NewClaim
        <4> HIDE DEF c
        <4> QED
          BY <4>1 DEF NoRow
      <3> QED
        BY <1>0, <1>1, <1>2, <1>4, <3>1
    <2>4. claims'[o] = 1
      BY <1>0, <1>1, <1>2, <1>4, <2>1
    <2>5. MaxAttempts \in Nat \ {0} /\ Cardinality({}) = 0
      BY BoundAssumption, FS_EmptySet
    <2> QED
      BY <2>2, <2>3, <2>4, <2>5 DEF BudgetInv
  <1> QED
    BY <1>3, <1>4

(* Deliveries, workers, operators and the clock make no attempt.           *)
LEMMA WorkerBudget ==
  ASSUME IInv, Budget, WorkerStep \/ Reschedule \/ Tick, NEW o \in Occurrences
  PROVE  BudgetInv(o)'
  <1>0. BudgetInv(o) /\ row \in [Occurrences -> RowType]
    BY DEF Budget, IInv, TypeOK
  <1>1. NoMoreHeld(o)
    <2>1. UNCHANGED <<claims, published, todo>>
      BY DEF WorkerStep, Reschedule, Tick, AdmitCanceled, AdmitDeferred, Review, AdmitRunning,
             EngineEnds, Finalize, Abandon, historyVars, schedulerVars
    <2> QED
      BY <2>1, SameHeld
  <1>2. ASSUME row'[o] = row[o] PROVE BudgetInv(o)'
    BY <1>0, <1>1, <1>2, SameRowThrifty, ThriftyStep
  <1>3. ASSUME Thrifty(o) PROVE BudgetInv(o)'
    BY <1>0, <1>1, <1>3, ThriftyStep
  <1>4. ASSUME NEW p \in Occurrences, AdmitCanceled(p) \/ AdmitDeferred(p) \/ Review(p)
        PROVE  BudgetInv(o)'
    <2>1. /\ row[p].status # "none"
          /\ \/ row' = [row EXCEPT ![p] = Canceled(p)]
             \/ row' = [row EXCEPT ![p] = NoBudgetAnswer(p, row[p].attempts)]
             \/ row' = [row EXCEPT ![p] = [row[p] EXCEPT !.reviewed = TRUE]]
      BY <1>0, <1>4 DEF AdmitCanceled, AdmitDeferred, Review, Admissible
    <2>2. CASE o # p
      BY <1>0, <1>2, <2>1, <2>2
    <2>3. CASE o = p
      <3>1. Thrifty(o)
        BY <1>0, <2>1, <2>3, ThriftyRows
      <3> QED
        BY <1>3, <3>1
    <2> QED
      BY <2>2, <2>3
  <1>5. ASSUME NEW v \in Workers, NEW p \in Occurrences, AdmitRunning(v, p)
        PROVE  BudgetInv(o)'
    <2>1. /\ row[p].status # "none"
          /\ row' = [row EXCEPT ![p] = Running(p, v, runs[p] + 1)]
      BY <1>5 DEF AdmitRunning, Admissible
    <2>2. CASE o # p
      BY <1>0, <1>2, <2>1, <2>2
    <2>3. CASE o = p
      <3>1. Thrifty(o)
        BY <1>0, <2>1, <2>3, ThriftyRows
      <3> QED
        BY <1>3, <3>1
    <2> QED
      BY <2>2, <2>3
  <1>6. ASSUME NEW v \in Workers, Finalize(v)
        PROVE  BudgetInv(o)'
    <2> DEFINE p == work[v].occurrence
    <2>1. /\ row[p].status # "none"
          /\ row' = [row EXCEPT ![p] = Finalized(p, work[v].result)]
      BY <1>6 DEF Finalize, HoldsRun
    <2>2. CASE o # p
      BY <1>0, <1>2, <2>1, <2>2
    <2>3. CASE o = p
      <3>1. Thrifty(o)
        BY <1>0, <2>1, <2>3, ThriftyRows
      <3> QED
        BY <1>3, <3>1
    <2> QED
      BY <2>2, <2>3
  <1>7. ASSUME NEW v \in Workers, EngineEnds(v) \/ Abandon(v)
        PROVE  BudgetInv(o)'
    BY <1>2, <1>7 DEF EngineEnds, Abandon
  <1>8. CASE Reschedule
    BY <1>2, <1>8 DEF Reschedule
  <1>9. CASE Tick
    <2>1. row'[o] = Aged(row[o])
      BY <1>9 DEF Tick, Aged
    <2>2. CASE row[o].status = "none"
      <3>1. Aged(row[o]).status = "none" /\ Aged(row[o]).attempts = 0
        BY <1>0, <2>2, Amounts DEF Aged, RowType
      <3> QED
        BY <1>3, <2>1, <3>1 DEF Thrifty
    <2>3. CASE row[o].status # "none"
      BY <1>0, <1>3, <2>1, <2>3, ThriftyRows
    <2> QED
      BY <2>2, <2>3
  <1> QED
    BY <1>4, <1>5, <1>6, <1>7, <1>8, <1>9 DEF WorkerStep

LEMMA BudgetStep == IInv /\ Budget /\ [Next]_vars => Budget'
  <1> SUFFICES ASSUME IInv, Budget, [Next]_vars, NEW o \in Occurrences
               PROVE  BudgetInv(o)'
    BY DEF Budget
  <1>1. CASE UNCHANGED vars
    BY <1>1 DEF vars, Budget, BudgetInv, Holders
  <1>2. ASSUME NEW s \in Schedulers, TickStep(s) \/ TickFails(s) \/ Restart(s)
        PROVE  BudgetInv(o)'
    <2>1. CASE ClaimDue(s)
      BY <2>1, ClaimBudget
    <2>2. CASE \E batch \in SUBSET Candidates : PrepareBatch(s, batch)
      BY <2>2, PrepareBudget
    <2> QED
      BY <1>2, <2>1, <2>2, TickBudget
  <1>3. CASE WorkerStep \/ Reschedule \/ Tick
    BY <1>3, WorkerBudget
  <1> QED
    BY <1>1, <1>2, <1>3 DEF Next

(* The broker is handed the task of an occurrence at most once per attempt *)
(* and MaxAttempts times at most, also by replicas that hold on to a batch *)
(* while others recover, retry, finish and clean up its claims.            *)
THEOREM PublishingBounded == Spec => []BoundedPublishing
  <1>1. Init => Budget
    <2> SUFFICES ASSUME Init, NEW o \in Occurrences PROVE BudgetInv(o)
      BY DEF Budget
    <2>1. Holders(o) = {} /\ published[o] = 0 /\ row[o].status = "none" /\ row[o].attempts = 0
      BY DEF Init, Holders, NoRow
    <2> QED
      BY <2>1, FS_EmptySet, BoundAssumption DEF BudgetInv
  <1>2. Spec => []Budget
    BY <1>1, BudgetStep, Invariance, PTL DEF Spec
  <1>3. ASSUME IInv, Budget, NEW o \in Occurrences
        PROVE  /\ published[o] <= MaxAttempts
               /\ row[o].status # "none" => published[o] <= row[o].attempts
               /\ row[o].attempts <= MaxAttempts
               /\ row[o].status = "pending" => ~Exhausted(o)
    <2> DEFINE h == Cardinality(Holders(o))
    <2>1. h \in Nat /\ published[o] \in Nat /\ row[o].attempts \in Nat /\ MaxAttempts \in Nat
      BY <1>3, HoldersFinite, Amounts
    <2>2. /\ published[o] + h <= MaxAttempts
          /\ row[o].status # "none" => published[o] + h <= row[o].attempts
          /\ row[o].attempts <= MaxAttempts
          /\ row[o].status = "pending" => row[o].attempts < MaxAttempts
      BY <1>3 DEF Budget, BudgetInv
    <2> HIDE DEF h
    <2> QED
      BY <2>1, <2>2 DEF Exhausted
  <1>4. IInv /\ Budget => BoundedPublishing
    BY <1>3 DEF BoundedPublishing
  <1> QED
    BY <1>2, <1>4, Invariance, PTL
=============================================================================
