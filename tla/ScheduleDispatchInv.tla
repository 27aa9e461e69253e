-------------------------- MODULE ScheduleDispatchInv --------------------------
(***************************************************************************)
(* The inductive strengthening behind the safety properties of             *)
(* ScheduleDispatch: how a claim's status, the history of its occurrence,  *)
(* the schedule's cursor and the plans of the workers hang together.       *)
(***************************************************************************)
EXTENDS ScheduleDispatch

(* Before its admission an occurrence has no run; from then on it has one. *)
Admitted(r) == r.status \in {"running", "succeeded"} \/ r.reason \in AfterAdmission

RunInv(o) ==
    /\ runs[o] \in {0, 1}
    /\ row[o].status # "none" => runs[o] = row[o].run
    /\ row[o].status # "none" => (runs[o] = 1 <=> Admitted(row[o]))

(* A claimed occurrence lies behind the cursor, whether or not its row is  *)
(* still there; a row exists only for a claimed occurrence.                *)
CursorInv(o) ==
    /\ claims[o] \in {0, 1}
    /\ row[o].status # "none" => claims[o] = 1
    /\ claims[o] = 0 => runs[o] = 0
    /\ claims[o] = 1 => o <= now /\ (cursor = Invalid \/ o < cursor)

(* A worker's plan is that of the one run of its occurrence, which no      *)
(* other worker has, and the claim is not finalized behind its back.       *)
PlanInv(w) ==
    work[w].state # "idle" =>
        LET o == work[w].occurrence
        IN  /\ o \in Occurrences
            /\ runs[o] = 1 /\ work[w].run = 1
            /\ ended[o] = IF work[w].state = "running" THEN "no" ELSE work[w].result
            /\ row[o].status \in {"none", "running", "dead_lettered"}
            /\ row[o].status = "dead_lettered" => row[o].reason = "execution_outcome_unknown"
            /\ \A v \in Workers \ {w} :
                  work[v].state # "idle" => work[v].occurrence # o

(* What was recorded of a run is how it ended.                             *)
VerdictInv(o) ==
    /\ row[o].status = "succeeded" => ended[o] = None
    /\ row[o].reason = "execution_failed_after_admission" => ended[o] = row[o].reason

(* The conjunction of the parts, inductive for every choice of constants.  *)
IInv ==
    /\ TypeOK
    /\ ValidClaims
    /\ \A o \in Occurrences : RunInv(o) /\ CursorInv(o) /\ VerdictInv(o)
    /\ \A w \in Workers : PlanInv(w)

(* Every attempt pays for one publish, whichever replica makes it and      *)
(* however late: what was published and what replicas still hold of an     *)
(* occurrence are covered by the attempts of its row, and by MaxAttempts   *)
(* once the row is gone.                                                   *)
Holders(o) == {s \in Schedulers : o \in todo[s]}

BudgetInv(o) ==
    /\ published[o] + Cardinality(Holders(o)) <= MaxAttempts
    /\ row[o].status # "none" => published[o] + Cardinality(Holders(o)) <= row[o].attempts
    /\ row[o].attempts <= MaxAttempts
    /\ row[o].status = "pending" => row[o].attempts < MaxAttempts
    /\ claims[o] = 0 => published[o] = 0 /\ Holders(o) = {}

Budget == \A o \in Occurrences : BudgetInv(o)
=============================================================================
