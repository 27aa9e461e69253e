--------------------------- MODULE SecurityAlerts ---------------------------
(***************************************************************************)
(* Detection of security alerts from the audit log, for one actor of one   *)
(* organization and the action that two rules watch.  The realtime task    *)
(* evaluates one audit, the reconciliation a batch of those it has no      *)
(* up-to-date receipt for; both run the same code in transactions of READ  *)
(* COMMITTED isolation, against each other and against the managers who    *)
(* resolve alerts.                                                         *)
(*                                                                         *)
(* A transaction sees what is committed and what it wrote itself.  It holds*)
(* the row lock of every alert it has looked up with FOR UPDATE, and the   *)
(* place in the partial unique index of every alert it has inserted, until *)
(* it ends.  The audits are the eligible ones: the others leave a receipt  *)
(* and nothing else.  The notification that goes with what is written, one *)
(* row per audit, is read by nothing here: it is an event that LeasedOutbox*)
(* enqueues.                                                               *)
(***************************************************************************)
EXTENDS Integers, FiniteSets, SequencesExt

CONSTANTS
    Audits,
    At,            \* occurred_at
    Target,        \* target_type and target_id
    Threshold, Window,
    Cooldown,
    Tasks,         \* workers of the realtime task
    Reconciler,    \* one: the row of the watermark is locked
    BatchSize,
    MaxAlerts,     \* bound: alerts of one rule
    NoAlert

Rule      == {"repeated", "probe"}
Processes == Tasks \cup {Reconciler}
MaxWindow == Max({Window[r] : r \in Rule})

ASSUME AlertsAssumption ==
    /\ At \in [Audits -> Nat \ {0}]
    /\ \A a, b \in Audits : At[a] = At[b] => a = b
    /\ Threshold \in [Rule -> Nat \ {0}] /\ Window \in [Rule -> Nat]
    /\ Reconciler \notin Tasks
    /\ BatchSize \in Nat \ {0}

(* An alert, and one that a transaction has looked up or inserted.         *)
Alert ==
    [status : {"active", "resolved"}, count : Nat, last : Nat, episodes : Nat,
     resolvedAt : Nat, evidence : SUBSET Audits]
Held == [at : Nat, row : Alert]

ASSUME NoAlertAssumption == NoAlert \notin Held

VARIABLES
    log,         \* the audits that are committed, in whatever order
    alerts,      \* per detection key, the alerts so far
    receipt,     \* generations of discovery and evaluation; 0: no receipt
    generation,  \* reconciliation_generation of the watermark
    tx           \* the open transactions

vars == <<log, alerts, receipt, generation, tx>>

Idle == [step |-> "idle", rule |-> "repeated", todo |-> {}, batch |-> {}, seen |-> {},
         fresh |-> {}, mine |-> [r \in Rule |-> NoAlert]]

Init ==
    /\ log = {}
    /\ alerts = [r \in Rule |-> <<>>]
    /\ receipt = [a \in Audits |-> [found |-> 0, evaluated |-> 0]]
    /\ generation = 0
    /\ tx = [p \in Processes |-> Idle]

-----------------------------------------------------------------------------
(* Rules and rows.                                                         *)

(* distinct_targets counts targets, the other rule counts audits.          *)
Reached(r, S) ==
    Cardinality(IF r = "probe" THEN {Target[a] : a \in S} ELSE S) >= Threshold[r]

InWindow(S, a, width) == {b \in S : At[a] - width <= At[b] /\ At[b] <= At[a]}

(* What a rule finds for an audit: all its window where the threshold is   *)
(* reached, and otherwise the audit, as a candidate for the cooldown.      *)
Matched(r, S, a) ==
    IF Reached(r, InWindow(S, a, Window[r])) THEN InWindow(S, a, Window[r]) ELSE {a}

(* Mutant: the lookup does not ask for the status.                         *)
MutantActive(r) == alerts[r] # <<>>

Active(r) == alerts[r] # <<>> /\ Last(alerts[r]).status = "active"

(* resolved_at of the last alert that was resolved.                        *)
ResolvedAt(r) == Max({0} \cup {alerts[r][i].resolvedAt : i \in DOMAIN alerts[r]})

(* The insert of the evidence does nothing for what is linked already.     *)
Link(alert, S) ==
    [alert EXCEPT !.row.count = @ + Cardinality(S \ alert.row.evidence),
                  !.row.last = Max({@} \cup {At[a] : a \in S \ alert.row.evidence}),
                  !.row.evidence = @ \cup S]

(* The alert a lookup of the transaction returns, and where it is.         *)
Found(p, r) ==
    IF tx[p].mine[r] # NoAlert THEN tx[p].mine[r]
    ELSE IF Active(r) THEN [at |-> Len(alerts[r]), row |-> Last(alerts[r])]
    ELSE NoAlert

(* Mutant: the lookup does not lock.                                       *)
MutantFree(p, r) == TRUE

(* No other transaction holds the row of the active alert.                 *)
Free(p, r) ==
    Active(r) => \A q \in Processes \ {p} :
                     tx[q].mine[r] # NoAlert => tx[q].mine[r].at # Len(alerts[r])

(* No other transaction has inserted an alert of the same key.             *)
Unclaimed(p, r) ==
    \A q \in Processes \ {p} : tx[q].mine[r] # NoAlert => tx[q].mine[r].at <= Len(alerts[r])

-----------------------------------------------------------------------------
(* The audit log and the managers.                                         *)

(* An audit is committed by whoever persists it, early or late.            *)
Arrive(a) ==
    /\ a \notin log
    /\ log' = log \cup {a}
    /\ UNCHANGED <<alerts, receipt, generation, tx>>

(* A compare-and-set on the row; it waits for who holds it.  The clock has *)
(* passed what is in the log; an instant between two audits differs from   *)
(* that of the earlier one in nothing.                                     *)
Resolve(r, t) ==
    /\ Active(r)
    /\ \A q \in Processes : tx[q].mine[r] # NoAlert => tx[q].mine[r].at # Len(alerts[r])
    /\ Len(alerts[r]) < MaxAlerts
    /\ \A a \in log : At[a] <= t
    /\ ResolvedAt(r) <= t
    /\ alerts' = [alerts EXCEPT ![r][Len(alerts[r])].status = "resolved",
                                ![r][Len(alerts[r])].resolvedAt = t]
    /\ UNCHANGED <<log, receipt, generation, tx>>

-----------------------------------------------------------------------------
(* Evaluation of the audits of a transaction, rule by rule.                *)

(* The audits are taken in the order in which they occurred.               *)
Current(t) == CHOOSE a \in t.todo : \A b \in t.todo : At[a] <= At[b]

Load(t) == [t EXCEPT !.step = "find", !.rule = "repeated",
                     !.seen = InWindow(log, Current(t), MaxWindow)]

(* The rule is done: the next rule, the next audit or the commit.          *)
Advance(t) ==
    IF t.rule = "repeated" THEN [t EXCEPT !.step = "find", !.rule = "probe"]
    ELSE IF t.todo # {Current(t)} THEN Load([t EXCEPT !.todo = @ \ {Current(t)}])
    ELSE [t EXCEPT !.step = "commit", !.seen = {}]

Keep(p, alert) ==
    tx' = [tx EXCEPT ![p] =
              Advance([tx[p] EXCEPT !.mine[tx[p].rule] = alert, !.fresh = {}])]

(* _find_active_alert and what is done with the alert it returns.          *)
FindActive(p) ==
    LET t == tx[p]
        a == Current(t)
        S == Matched(t.rule, t.seen, a)
        alert == Found(p, t.rule)
    IN  /\ t.step = "find"
        /\ Free(p, t.rule)
        /\ alert # NoAlert
        /\ \/ /\ At[a] < alert.row.last + Cooldown
              /\ Keep(p, Link(alert, S))
           \/ /\ At[a] >= alert.row.last + Cooldown
              /\ Reached(t.rule, S) /\ ~(S \subseteq alert.row.evidence)
              /\ Keep(p, [Link(alert, S) EXCEPT !.row.episodes = @ + 1])
           \/ /\ At[a] >= alert.row.last + Cooldown
              /\ ~Reached(t.rule, S) \/ S \subseteq alert.row.evidence
              /\ Keep(p, alert)
        /\ UNCHANGED <<log, alerts, receipt, generation>>

(* No alert is active: the audits after the last resolution count.         *)
FindNone(p) ==
    LET t == tx[p]
        fresh == {b \in Matched(t.rule, t.seen, Current(t)) : At[b] > ResolvedAt(t.rule)}
    IN  /\ t.step = "find"
        /\ Found(p, t.rule) = NoAlert
        /\ tx' = [tx EXCEPT ![p] =
                     IF Reached(t.rule, fresh)
                     THEN [@ EXCEPT !.step = "create", !.fresh = fresh]
                     ELSE Advance(@)]
        /\ UNCHANGED <<log, alerts, receipt, generation>>

(* The insert waits for the transaction that has inserted the same key.    *)
Create(p) ==
    LET t == tx[p]
        new == [at  |-> Len(alerts[t.rule]) + 1,
                row |-> [status |-> "active", count |-> 0, last |-> At[Current(t)],
                         episodes |-> 1, resolvedAt |-> 0, evidence |-> {}]]
    IN  /\ t.step = "create"
        /\ ~Active(t.rule)
        /\ Unclaimed(p, t.rule)
        /\ Len(alerts[t.rule]) < MaxAlerts
        /\ Keep(p, Link(new, t.fresh))
        /\ UNCHANGED <<log, alerts, receipt, generation>>

(* Another one has committed: the savepoint is rolled back, the audits are *)
(* linked to its alert.                                                    *)
CreateConflicts(p) ==
    LET t == tx[p]
    IN  /\ t.step = "create"
        /\ Active(t.rule)
        /\ Free(p, t.rule)
        /\ Keep(p, Link(Found(p, t.rule), Matched(t.rule, t.seen, Current(t))))
        /\ UNCHANGED <<log, alerts, receipt, generation>>

WriteAlerts(p) ==
    alerts' = [r \in Rule |->
        LET m == tx[p].mine[r]
        IN  IF m = NoAlert THEN alerts[r]
            ELSE IF m.at > Len(alerts[r]) THEN Append(alerts[r], m.row)
            ELSE [alerts[r] EXCEPT ![m.at] = [m.row EXCEPT !.evidence = @ \cup alerts[r][m.at].evidence]]]

(* The transaction fails, is a victim of a deadlock, or its worker is lost.*)
Abort(p) ==
    /\ tx[p].step # "idle"
    /\ tx' = [tx EXCEPT ![p] = Idle]
    /\ UNCHANGED <<log, alerts, receipt, generation>>

-----------------------------------------------------------------------------
(* The realtime task: sent once an audit is committed, and lost, repeated  *)
(* or retried.                                                             *)

Detect(p, a) ==
    /\ tx[p].step = "idle"
    /\ a \in log
    /\ tx' = [tx EXCEPT ![p] = Load([Idle EXCEPT !.todo = {a}])]
    /\ UNCHANGED <<log, alerts, receipt, generation>>

DetectCommits(p) ==
    /\ tx[p].step = "commit"
    /\ WriteAlerts(p)
    /\ tx' = [tx EXCEPT ![p] = Idle]
    /\ UNCHANGED <<log, receipt, generation>>

-----------------------------------------------------------------------------
(* Reconciliation.                                                         *)

Predecessor(b, a) == At[b] <= At[a] /\ At[a] <= At[b] + MaxWindow

(* Mutant: only what no batch has looked at yet is left.                   *)
MutantDue(a) ==
    \/ receipt[a].found = 0
    \/ \E b \in log : Predecessor(b, a) /\ receipt[b].found = 0

(* Without a receipt, or evaluated before a predecessor was discovered.    *)
Due(a) ==
    \/ receipt[a].found = 0
    \/ \E b \in log : /\ Predecessor(b, a)
                      /\ receipt[b].found = 0 \/ receipt[b].found > receipt[a].evaluated

Backlog == {a \in log : Due(a)}

(* A batch is the oldest of the backlog.                                   *)
Scan ==
    /\ tx[Reconciler].step = "idle"
    /\ Backlog # {}
    /\ \E batch \in SUBSET Backlog :
          /\ Cardinality(batch) = Min({BatchSize, Cardinality(Backlog)})
          /\ \A a \in batch, b \in Backlog \ batch : At[a] < At[b]
          /\ tx' = [tx EXCEPT ![Reconciler] =
                        Load([Idle EXCEPT !.todo = batch, !.batch = batch])]
    /\ UNCHANGED <<log, alerts, receipt, generation>>

BatchCommits ==
    /\ tx[Reconciler].step = "commit"
    /\ WriteAlerts(Reconciler)
    /\ generation' = generation + 1
    /\ receipt' = [a \in Audits |->
                      IF a \notin tx[Reconciler].batch THEN receipt[a]
                      ELSE [found     |-> IF receipt[a].found = 0 THEN generation + 1
                                          ELSE receipt[a].found,
                            evaluated |-> generation + 1]]
    /\ tx' = [tx EXCEPT ![Reconciler] = Idle]
    /\ UNCHANGED log

Next ==
    \/ \E a \in Audits : Arrive(a)
    \/ \E r \in Rule, t \in Range(At) : Resolve(r, t)
    \/ \E p \in Tasks : (\E a \in Audits : Detect(p, a)) \/ DetectCommits(p)
    \/ Scan
    \/ BatchCommits
    \/ \E p \in Processes :
          FindActive(p) \/ FindNone(p) \/ Create(p) \/ CreateConflicts(p) \/ Abort(p)

Spec == Init /\ [][Next]_vars

-----------------------------------------------------------------------------
(* Properties.                                                             *)

(* Reconciliation recovers what realtime detection missed: once nothing is *)
(* left to reconcile, every window of the log that reaches a threshold with*)
(* audits after the last resolution is evidence of an active alert, in     *)
(* whatever order the audits were committed, batches were cut, and         *)
(* transactions failed or met.                                             *)
Recovered ==
    Backlog = {} =>
        \A r \in Rule : \A a \in log :
            LET S == {b \in InWindow(log, a, Window[r]) : At[b] > ResolvedAt(r)}
            IN  Reached(r, S) => Active(r) /\ S \subseteq Last(alerts[r]).evidence

(* No occurrence is lost or counted twice in an alert, and it was detected *)
(* last at the time of its latest evidence.                                *)
CountsAgree ==
    \A r \in Rule : \A i \in DOMAIN alerts[r] :
        LET alert == alerts[r][i]
        IN  /\ alert.count = Cardinality(alert.evidence)
            /\ alert.last = Max({At[a] : a \in alert.evidence})

(* An alert is active only after all others of its key were resolved, and  *)
(* what is resolved stays as it is.                                        *)
ResolvedIsFinal ==
    [][\A r \in Rule : \A i \in DOMAIN alerts[r] :
          /\ i < Len(alerts'[r]) => alerts'[r][i].status = "resolved"
          /\ alerts[r][i].status = "resolved" => alerts'[r][i] = alerts[r][i]]_vars

=============================================================================
