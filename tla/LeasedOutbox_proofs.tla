------------------------- MODULE LeasedOutbox_proofs -------------------------

(***************************************************************************)
(* For any number of events, workers and attempts: the invariants of the   *)
(* leased outboxes.                                                        *)
(***************************************************************************)
EXTENDS LeasedOutboxInv, FiniteSetTheorems, TLAPS

-----------------------------------------------------------------------------

(* The rows an action writes.                                              *)

LEMMA RowParts ==
    ASSUME TypeOK, NEW e \in Events
    PROVE  /\ row[e] \in RowType
           /\ row[e].status \in Status
           /\ row[e].attempts \in 0 .. MaxAttempts
BY DEF TypeOK, RowType

LEMMA PassParts ==
    ASSUME TypeOK, NEW w \in Workers
    PROVE  /\ pass[w] \in PassType
           /\ pass[w].todo \subseteq Events
           /\ pass[w].event \in Events \cup {NoEvent}
           /\ pass[w].step \in Step
BY DEF TypeOK, PassType

LEMMA IdleType == Idle \in PassType /\ Idle.step = "idle" /\ Idle.todo = {}
BY DEF Idle, PassType, Step

(* Giving a lease back leaves the attempts alone.                          *)
LEMMA UnleasedRow ==
    ASSUME NEW r \in RowType, NEW status \in Status
    PROVE  /\ Unleased(r, status) \in RowType
           /\ Unleased(r, status).status = status
           /\ Unleased(r, status).attempts = r.attempts
BY DEF Unleased, RowType

LEMMA FailedRow ==
    ASSUME NEW r \in RowType
    PROVE  /\ Failed(r) \in RowType
           /\ Failed(r).attempts = r.attempts
           /\ Failed(r).status \in {"retry_scheduled", "dead_lettered"}
           /\ Failed(r).status = "retry_scheduled" => r.attempts < MaxAttempts
<1>1. {"retry_scheduled", "dead_lettered"} \subseteq Status
  BY DEF Status
<1>2. CASE r.attempts < MaxAttempts
  BY <1>1, <1>2, UnleasedRow DEF Failed
<1>3. CASE ~(r.attempts < MaxAttempts)
  BY <1>1, <1>3, UnleasedRow DEF Failed
<1> QED BY <1>2, <1>3

LEMMA LeasedRow ==
    ASSUME NEW r \in RowType, r.attempts < MaxAttempts, NEW w \in Workers
    PROVE  /\ Leased(r, w) \in RowType
           /\ Leased(r, w).attempts = r.attempts + 1
           /\ Leased(r, w).status = "leased"
BY OutboxAssumption DEF Leased, RowType, Status

(* What is due has attempts left.                                          *)
LEMMA DueHasAttempts ==
    ASSUME TypeOK, RowInv, NEW e \in Events, Due(e)
    PROVE  row[e].attempts < MaxAttempts
BY OutboxAssumption DEF RowInv, Due

LEMMA ContinueType ==
    ASSUME TypeOK, NEW w \in Workers, Continue(w)
    PROVE  /\ pass' \in [Workers -> PassType]
           /\ \A v \in Workers \ {w} : pass'[v] = pass[v]
           /\ pass'[w].todo = pass[w].todo
           /\ pass'[w].step = IF pass[w].todo = {} THEN "idle" ELSE "next"
<1>1. [Idle EXCEPT !.step = "next", !.todo = pass[w].todo] \in PassType
  BY PassParts DEF Idle, PassType, Step
<1>2. [Idle EXCEPT !.step = "next", !.todo = pass[w].todo].todo = pass[w].todo
  BY DEF Idle
<1>3. [Idle EXCEPT !.step = "next", !.todo = pass[w].todo].step = "next"
  BY DEF Idle
<1>4. pass \in [Workers -> PassType]
  BY DEF TypeOK
<1> QED BY <1>1, <1>2, <1>3, <1>4, IdleType DEF Continue

LEMMA GotoType ==
    ASSUME TypeOK, NEW w \in Workers, NEW step \in Step, Goto(w, step)
    PROVE  /\ pass' \in [Workers -> PassType]
           /\ \A v \in Workers \ {w} : pass'[v] = pass[v]
           /\ pass'[w].todo = pass[w].todo
           /\ pass'[w].event = pass[w].event
           /\ pass'[w].step = step
           /\ pass'[w].link = pass[w].link
<1>1. pass \in [Workers -> PassType]
  BY DEF TypeOK
<1> QED BY <1>1 DEF Goto, PassType

(* Every step of the pass of one worker leaves the others alone.           *)
PassOf(w) == \A v \in Workers \ {w} : pass'[v] = pass[v]

LEMMA StartSets ==
    ASSUME TypeOK, RowInv, NEW w \in Workers, NEW outbox \in {Audits, Notifications},
           Start(w, outbox)
    PROVE  /\ row' \in [Events -> RowType]
           /\ pass' \in [Workers -> PassType]
           /\ PassOf(w)
           /\ pass'[w].step = IF pass'[w].todo = {} THEN "idle" ELSE "next"
           /\ pass'[w].todo \subseteq {e \in outbox : Due(e)}
           /\ \A e \in Events :
                 \/ row'[e] = row[e] /\ e \notin pass'[w].todo
                 \/ row[e].status = "leased" /\ row'[e] = Failed(row[e]) /\ e \notin pass'[w].todo
                 \/ Due(e) /\ row'[e] = Leased(row[e], w)
<1> DEFINE stale == {e \in outbox : row[e].status = "leased" /\ row[e].expired}
           due   == {e \in outbox : Due(e)}
<1>1. PICK batch \in SUBSET due :
         /\ row' = [e \in Events |-> IF e \in stale THEN Failed(row[e])
                                     ELSE IF e \in batch THEN Leased(row[e], w)
                                     ELSE row[e]]
         /\ pass' = [pass EXCEPT ![w] =
                        IF batch = {} THEN Idle
                        ELSE [Idle EXCEPT !.step = "next", !.todo = batch]]
  BY DEF Start
<1>2. due \subseteq Events /\ batch \subseteq Events
  BY DEF Events
<1>3. [Idle EXCEPT !.step = "next", !.todo = batch] \in PassType
  BY <1>2 DEF Idle, PassType, Step
<1>4. pass \in [Workers -> PassType] /\ row \in [Events -> RowType]
  BY DEF TypeOK
<1>5. pass' \in [Workers -> PassType] /\ PassOf(w)
  BY <1>1, <1>3, <1>4, IdleType DEF PassOf
<1>6. pass'[w].todo = batch
  <2>1. CASE batch = {}
    BY <1>1, <1>4, <2>1, IdleType
  <2>2. CASE batch # {}
    BY <1>1, <1>4, <2>2 DEF Idle
  <2> QED BY <2>1, <2>2
<1>7. pass'[w].step = IF batch = {} THEN "idle" ELSE "next"
  <2>1. CASE batch = {}
    BY <1>1, <1>4, <2>1, IdleType
  <2>2. CASE batch # {}
    BY <1>1, <1>4, <2>2 DEF Idle
  <2> QED BY <2>1, <2>2
<1>8. \A e \in batch : Due(e) /\ e \notin stale
  BY DEF Due
<1>9. ASSUME NEW e \in Events
      PROVE  /\ row'[e] \in RowType
             /\ \/ row'[e] = row[e] /\ e \notin batch
                \/ row[e].status = "leased" /\ row'[e] = Failed(row[e]) /\ e \notin batch
                \/ Due(e) /\ row'[e] = Leased(row[e], w)
  <2>1. CASE e \in stale
    BY <1>1, <1>4, <1>8, <2>1, FailedRow
  <2>2. CASE e \in batch
    BY <1>1, <1>4, <1>8, <2>2, LeasedRow, DueHasAttempts
  <2>3. CASE e \notin stale /\ e \notin batch
    BY <1>1, <1>4, <2>3
  <2> QED BY <2>1, <2>2, <2>3
<1>10. row' \in [Events -> RowType]
  BY <1>1, <1>9
<1> QED BY <1>5, <1>6, <1>7, <1>9, <1>10

(* What Take, Read, Insert, Publish and the ends of an event do to a pass. *)
LEMMA TakeSets ==
    ASSUME TypeOK, NEW w \in Workers, Take(w)
    PROVE  /\ pass' \in [Workers -> PassType]
           /\ PassOf(w)
           /\ pass'[w].event \in pass[w].todo
           /\ pass'[w].todo = pass[w].todo \ {pass'[w].event}
           /\ pass'[w].step = IF pass'[w].event \in Audits THEN "read" ELSE "publish"
<1>1. PICK e \in pass[w].todo :
         pass' = [pass EXCEPT ![w].step  = IF e \in Audits THEN "read" ELSE "publish",
                              ![w].event = e,
                              ![w].todo  = @ \ {e}]
  BY DEF Take
<1>2. pass \in [Workers -> PassType]
  BY DEF TypeOK
<1> QED BY <1>1, <1>2 DEF PassOf, PassType, Step

LEMMA InsertSets ==
    ASSUME TypeOK, NEW w \in Workers, Insert(w)
    PROVE  /\ pass' \in [Workers -> PassType]
           /\ PassOf(w)
           /\ pass'[w].todo = pass[w].todo
           /\ pass'[w].event = pass[w].event
           /\ pass'[w].step = IF audit[pass[w].event] = "absent" THEN "inserted" ELSE "winner"
           /\ pass'[w].link = IF pass[w].event \in runs THEN "linked" ELSE "unlinked"
<1>1. pass \in [Workers -> PassType]
  BY DEF TypeOK
<1> QED BY <1>1, ZenonT(30) DEF Insert, PassOf, PassType, Step

-----------------------------------------------------------------------------

(* Types.                                                                  *)

LEMMA TypeStep ==
    ASSUME TypeOK, RowInv, PassInv, [Next]_vars
    PROVE  TypeOK'
<1>0. /\ row \in [Events -> RowType] /\ runs \subseteq Correlated
      /\ audit \in [Audits -> {"absent", "linked", "unlinked", "elsewhere"}]
      /\ published \in [Notifications -> Nat] /\ pass \in [Workers -> PassType]
  BY DEF TypeOK
<1>1. ASSUME NEW e \in Events, Enqueue(e) PROVE TypeOK'
  BY <1>0, <1>1 DEF Enqueue, TypeOK, RowType, Status
<1>2. ASSUME NEW e \in Events, Expire(e) PROVE TypeOK'
  BY <1>0, <1>2 DEF Expire, TypeOK, RowType
<1>3. ASSUME NEW e \in Correlated, RunRecorded(e) PROVE TypeOK'
  BY <1>0, <1>3 DEF RunRecorded, TypeOK
<1>4. ASSUME NEW e \in Audits, RecordedElsewhere(e) PROVE TypeOK'
  BY <1>0, <1>4 DEF RecordedElsewhere, TypeOK
<1>5. ASSUME NEW w \in Workers, NEW outbox \in {Audits, Notifications}, Start(w, outbox)
      PROVE  TypeOK'
  BY <1>0, <1>5, StartSets, ZenonT(30) DEF Start, TypeOK
<1>6. ASSUME NEW w \in Workers, Take(w) PROVE TypeOK'
  BY <1>0, <1>6, TakeSets DEF Take, TypeOK
<1>7. ASSUME NEW w \in Workers, Read(w) PROVE TypeOK'
  <2>1. PICK step \in Step : Goto(w, step)
    BY <1>7 DEF Read, Step
  <2> QED BY <1>0, <1>7, <2>1, GotoType DEF Read, TypeOK
<1>8. ASSUME NEW w \in Workers, Insert(w) PROVE TypeOK'
  BY <1>0, <1>8, InsertSets DEF Insert, TypeOK
<1>9. ASSUME NEW w \in Workers, Publish(w) PROVE TypeOK'
  <2>1. PICK step \in Step : Goto(w, step)
    BY <1>9 DEF Publish, Step
  <2>2. pass[w].event \in Notifications
    BY <1>9 DEF Publish, PassInv, NotificationSteps
  <2>3. published' \in [Notifications -> Nat]
    BY <1>0, <1>9, <2>2 DEF Publish
  <2> QED BY <1>0, <1>9, <2>1, <2>3, GotoType DEF Publish, TypeOK
<1>10. ASSUME NEW w \in Workers, MarkSucceeded(w) PROVE TypeOK'
  <2> DEFINE e == pass[w].event
  <2>1. e \in Events
    BY <1>10 DEF MarkSucceeded, PassInv
  <2>2. Unleased(row[e], "succeeded") \in RowType
    BY <1>0, <2>1, UnleasedRow DEF Status
  <2>3. row' \in [Events -> RowType]
    BY <1>0, <1>10, <2>1, <2>2 DEF MarkSucceeded
  <2>4. pass[w].link \in {"linked", "unlinked"}
    BY <1>0 DEF PassType
  <2>5. audit' \in [Audits -> {"absent", "linked", "unlinked", "elsewhere"}]
    BY <1>0, <1>10, <2>4 DEF MarkSucceeded
  <2> QED BY <1>0, <1>10, <2>3, <2>5, ContinueType DEF MarkSucceeded, TypeOK
<1>11. ASSUME NEW w \in Workers, MarkFailed(w) PROVE TypeOK'
  <2>1. pass[w].event \in Events
    BY <1>11 DEF MarkFailed, PassInv
  <2>2. row' \in [Events -> RowType]
    BY <1>0, <1>11, <2>1, FailedRow DEF MarkFailed
  <2> QED BY <1>0, <1>11, <2>2, ContinueType DEF MarkFailed, TypeOK
<1>12. ASSUME NEW w \in Workers, Raise(w) PROVE TypeOK'
  <2>1. "failed" \in Step
    BY DEF Step
  <2> QED BY <1>0, <1>12, <2>1, GotoType DEF Raise, TypeOK
<1>13. ASSUME NEW w \in Workers, Crash(w) PROVE TypeOK'
  BY <1>0, <1>13, IdleType DEF Crash, TypeOK
<1>14. CASE UNCHANGED vars
  BY <1>0, <1>14 DEF vars, TypeOK
<1> QED
  BY <1>1, <1>2, <1>3, <1>4, <1>5, <1>6, <1>7, <1>8, <1>9, <1>10, <1>11, <1>12, <1>13, <1>14
     DEF Next, Progress

-----------------------------------------------------------------------------

(* Rows and passes.                                                        *)

(* The row of an event, and what a step may have done to it.               *)
RowStep(e) ==
    \/ row'[e] = row[e]
    \/ row[e].status = "none" /\ row'[e] = [row[e] EXCEPT !.status = "pending"]
    \/ row[e].status = "leased" /\ row'[e] = [row[e] EXCEPT !.expired = TRUE]
    \/ row[e].status = "leased" /\ row'[e] = Failed(row[e])
    \/ Due(e) /\ \E w \in Workers : row'[e] = Leased(row[e], w)
    \/ row[e].status = "leased" /\ row'[e] = Unleased(row[e], "succeeded")

LEMMA RowSteps ==
    ASSUME TypeOK, RowInv, PassInv, [Next]_vars, NEW e \in Events
    PROVE  RowStep(e)
<1>0. row \in [Events -> RowType]
  BY DEF TypeOK
<1>1. ASSUME NEW f \in Events, Enqueue(f) PROVE RowStep(e)
  BY <1>0, <1>1 DEF Enqueue, RowStep
<1>2. ASSUME NEW f \in Events, Expire(f) PROVE RowStep(e)
  BY <1>0, <1>2 DEF Expire, RowStep
<1>3. ASSUME NEW w \in Workers, NEW outbox \in {Audits, Notifications}, Start(w, outbox)
      PROVE  RowStep(e)
  BY <1>3, StartSets DEF RowStep
<1>4. ASSUME NEW w \in Workers, MarkSucceeded(w) PROVE RowStep(e)
  BY <1>0, <1>4 DEF MarkSucceeded, Owns, RowStep
<1>5. ASSUME NEW w \in Workers, MarkFailed(w) PROVE RowStep(e)
  BY <1>0, <1>5 DEF MarkFailed, Owns, RowStep
<1>6. ASSUME row' = row PROVE RowStep(e)
  BY <1>6 DEF RowStep
<1>7. CASE \E f \in Correlated : RunRecorded(f)
  BY <1>6, <1>7 DEF RunRecorded
<1>8. CASE \E f \in Audits : RecordedElsewhere(f)
  BY <1>6, <1>8 DEF RecordedElsewhere
<1>9. CASE \E w \in Workers : Take(w) \/ Read(w) \/ Insert(w) \/ Publish(w) \/ Raise(w) \/ Crash(w)
  BY <1>6, <1>9 DEF Take, Read, Insert, Publish, Raise, Crash
<1>10. CASE UNCHANGED vars
  BY <1>6, <1>10 DEF vars
<1> QED
  BY <1>1, <1>2, <1>3, <1>4, <1>5, <1>7, <1>8, <1>9, <1>10 DEF Next, Progress

(* Attempts only grow, and what has succeeded stays so.                    *)
LEMMA RowsGrow ==
    ASSUME TypeOK, RowInv, PassInv, [Next]_vars, NEW e \in Events
    PROVE  /\ row[e].attempts <= row'[e].attempts
           /\ row[e].status = "succeeded" => row'[e] = row[e]
<1>0. row[e] \in RowType
  BY RowParts
<1>1. RowStep(e)
  BY RowSteps
<1>2. CASE row'[e] = [row[e] EXCEPT !.status = "pending"] /\ row[e].status = "none"
  BY <1>0, <1>2 DEF RowType
<1>3. CASE row'[e] = [row[e] EXCEPT !.expired = TRUE] /\ row[e].status = "leased"
  BY <1>0, <1>3 DEF RowType
<1>4. CASE row'[e] = Failed(row[e]) /\ row[e].status = "leased"
  BY <1>0, <1>4, FailedRow DEF RowType
<1>5. CASE Due(e) /\ \E w \in Workers : row'[e] = Leased(row[e], w)
  BY <1>0, <1>5, LeasedRow, DueHasAttempts DEF RowType, Due
<1>6. CASE row'[e] = Unleased(row[e], "succeeded") /\ row[e].status = "leased"
  BY <1>0, <1>6, UnleasedRow DEF RowType, Status
<1>7. CASE row'[e] = row[e]
  BY <1>0, <1>7 DEF RowType
<1> QED BY <1>1, <1>2, <1>3, <1>4, <1>5, <1>6, <1>7 DEF RowStep

LEMMA RowInvStep ==
    ASSUME TypeOK, RowInv, PassInv, [Next]_vars
    PROVE  RowInv'
<1> SUFFICES ASSUME NEW e \in Events
             PROVE  /\ row'[e].status \in {"none", "pending"} => row'[e].attempts = 0
                    /\ row'[e].status = "retry_scheduled" => row'[e].attempts < MaxAttempts
  BY DEF RowInv
<1>0. row[e] \in RowType
  BY RowParts
<1>1. RowStep(e)
  BY RowSteps
<1>2. CASE row'[e] = [row[e] EXCEPT !.status = "pending"] /\ row[e].status = "none"
  BY <1>0, <1>2 DEF RowType, RowInv
<1>3. CASE row'[e] = [row[e] EXCEPT !.expired = TRUE] /\ row[e].status = "leased"
  BY <1>0, <1>3 DEF RowType
<1>4. CASE row'[e] = Failed(row[e])
  BY <1>0, <1>4, FailedRow
<1>5. CASE Due(e) /\ \E w \in Workers : row'[e] = Leased(row[e], w)
  BY <1>0, <1>5, LeasedRow, DueHasAttempts
<1>6. CASE row'[e] = Unleased(row[e], "succeeded")
  BY <1>0, <1>6, UnleasedRow DEF Status
<1>7. CASE row'[e] = row[e]
  BY <1>7 DEF RowInv
<1> QED BY <1>1, <1>2, <1>3, <1>4, <1>5, <1>6, <1>7 DEF RowStep

(* PassInv of one worker.                                                  *)
Fits(p) ==
    /\ p.step = "idle" => p.todo = {}
    /\ p.step \notin {"idle", "next"} => p.event \in Events \ p.todo
    /\ p.step \in AuditSteps => p.event \in Audits
    /\ p.step \in NotificationSteps => p.event \in Notifications

LEMMA PassInvStep ==
    ASSUME TypeOK, RowInv, PassInv, [Next]_vars
    PROVE  PassInv'
<1> USE DEF AuditSteps, NotificationSteps
<1>0. \A v \in Workers : Fits(pass[v])
  BY DEF PassInv, Fits
<1>1. SUFFICES \A v \in Workers : Fits(pass'[v])
  BY DEF PassInv, Fits
<1>2. ASSUME UNCHANGED pass PROVE \A v \in Workers : Fits(pass'[v])
  BY <1>0, <1>2
<1>3. ASSUME NEW w \in Workers, PassOf(w), Fits(pass'[w])
      PROVE  \A v \in Workers : Fits(pass'[v])
  BY <1>0, <1>3 DEF PassOf
<1>4. CASE \/ \E e \in Events : Enqueue(e) \/ Expire(e)
           \/ \E e \in Correlated : RunRecorded(e)
           \/ \E e \in Audits : RecordedElsewhere(e)
           \/ UNCHANGED vars
  BY <1>2, <1>4 DEF Enqueue, Expire, RunRecorded, RecordedElsewhere, vars
<1>5. ASSUME NEW w \in Workers, NEW outbox \in {Audits, Notifications}, Start(w, outbox)
      PROVE  \A v \in Workers : Fits(pass'[v])
  <2>1. Fits(pass'[w]) /\ PassOf(w)
    BY <1>5, StartSets DEF Fits
  <2> QED BY <1>3, <2>1
<1>6. ASSUME NEW w \in Workers, Take(w) PROVE \A v \in Workers : Fits(pass'[v])
  <2>1. pass[w].todo \subseteq Events
    BY PassParts
  <2>2. Fits(pass'[w]) /\ PassOf(w)
    BY <1>6, <2>1, TakeSets DEF Fits, Events
  <2> QED BY <1>3, <2>2
<1>7. ASSUME NEW w \in Workers, NEW step \in Step, Goto(w, step),
             pass[w].step \notin {"idle", "next"}, step \notin {"idle", "next"},
             step \in AuditSteps => pass[w].event \in Audits,
             step \in NotificationSteps => pass[w].event \in Notifications
      PROVE  \A v \in Workers : Fits(pass'[v])
  <2>1. Fits(pass'[w]) /\ PassOf(w)
    BY <1>0, <1>7, GotoType DEF Fits, PassOf
  <2> QED BY <1>3, <2>1
<1>8. ASSUME NEW w \in Workers, Read(w) PROVE \A v \in Workers : Fits(pass'[v])
  <2>1. PICK step \in {"failed", "insert", "found"} : Goto(w, step)
    BY <1>8 DEF Read
  <2>2. pass[w].event \in Audits /\ step \in Step
    BY <1>0, <1>8 DEF Read, Fits, Step
  <2> QED BY <1>7, <1>8, <2>1, <2>2 DEF Read
<1>9. ASSUME NEW w \in Workers, Insert(w) PROVE \A v \in Workers : Fits(pass'[v])
  <2>1. pass[w].event \in Events \ pass[w].todo /\ pass[w].event \in Audits
    BY <1>0, <1>9 DEF Fits, Insert
  <2>2. /\ pass'[w].todo = pass[w].todo /\ pass'[w].event = pass[w].event
        /\ pass'[w].step \in {"inserted", "winner"} /\ PassOf(w)
    BY <1>9, InsertSets
  <2>3. Fits(pass'[w])
    BY <2>1, <2>2 DEF Fits
  <2> QED BY <1>3, <2>2, <2>3
<1>10. ASSUME NEW w \in Workers, Publish(w) PROVE \A v \in Workers : Fits(pass'[v])
  <2>1. PICK step \in {"published", "failed"} : Goto(w, step)
    BY <1>10 DEF Publish
  <2>2. pass[w].event \in Notifications /\ step \in Step
    BY <1>0, <1>10 DEF Publish, Fits, Step
  <2> QED BY <1>7, <1>10, <2>1, <2>2 DEF Publish
<1>11. ASSUME NEW w \in Workers, MarkSucceeded(w) \/ MarkFailed(w)
       PROVE  \A v \in Workers : Fits(pass'[v])
  <2>1. Continue(w)
    BY <1>11 DEF MarkSucceeded, MarkFailed
  <2>2. Fits(pass'[w]) /\ PassOf(w)
    BY <2>1, ContinueType DEF Fits, PassOf
  <2> QED BY <1>3, <2>2
<1>12. ASSUME NEW w \in Workers, Raise(w) PROVE \A v \in Workers : Fits(pass'[v])
  <2>1. "failed" \in Step
    BY DEF Step
  <2> QED BY <1>7, <1>12, <2>1 DEF Raise
<1>13. ASSUME NEW w \in Workers, Crash(w) PROVE \A v \in Workers : Fits(pass'[v])
  <2>1. pass \in [Workers -> PassType]
    BY DEF TypeOK
  <2>2. Fits(pass'[w]) /\ PassOf(w)
    BY <1>13, <2>1, IdleType DEF Crash, Fits, PassOf
  <2> QED BY <1>3, <2>2
<1> QED
  BY <1>4, <1>5, <1>6, <1>8, <1>9, <1>10, <1>11, <1>12, <1>13 DEF Next, Progress

-----------------------------------------------------------------------------

(* Audits and their events.                                                *)

(* What a pass relies on never turns back.                                 *)
LEMMA SeenStays ==
    ASSUME TypeOK, RowInv, PassInv, [Next]_vars
    PROVE  /\ runs \subseteq runs'
           /\ \A e \in Audits : audit[e] # "absent" => audit'[e] # "absent"
           /\ \A e \in Notifications : published[e] <= published'[e]
<1>0. /\ audit \in [Audits -> {"absent", "linked", "unlinked", "elsewhere"}]
      /\ published \in [Notifications -> Nat] /\ pass \in [Workers -> PassType]
  BY DEF TypeOK
<1> DEFINE P == /\ runs \subseteq runs'
                /\ \A e \in Audits : audit[e] # "absent" => audit'[e] # "absent"
                /\ \A e \in Notifications : published[e] <= published'[e]
<1>1. CASE UNCHANGED <<runs, audit, published>>
  BY <1>0, <1>1
<1>2. CASE \E e \in Events : Enqueue(e) \/ Expire(e)
  BY <1>1, <1>2 DEF Enqueue, Expire
<1>3. CASE \E e \in Correlated : RunRecorded(e)
  BY <1>0, <1>3 DEF RunRecorded
<1>4. CASE \E e \in Audits : RecordedElsewhere(e)
  BY <1>0, <1>4 DEF RecordedElsewhere
<1>5. CASE \E w \in Workers : \/ \E outbox \in {Audits, Notifications} : Start(w, outbox)
                              \/ Take(w) \/ Read(w) \/ Insert(w) \/ MarkFailed(w)
                              \/ Raise(w) \/ Crash(w)
  BY <1>1, <1>5 DEF Start, Take, Read, Insert, MarkFailed, Raise, Crash
<1>6. ASSUME NEW w \in Workers, Publish(w) PROVE P
  <2>1. pass[w].event \in Notifications
    BY <1>6 DEF Publish, PassInv, NotificationSteps
  <2> QED BY <1>0, <1>6, <2>1 DEF Publish
<1>7. ASSUME NEW w \in Workers, MarkSucceeded(w) PROVE P
  <2>1. pass[w].link # "absent"
    BY <1>0 DEF PassType
  <2> QED BY <1>0, <1>7, <2>1 DEF MarkSucceeded
<1>8. CASE UNCHANGED vars
  BY <1>1, <1>8 DEF vars
<1> QED BY <1>2, <1>3, <1>4, <1>5, <1>6, <1>7, <1>8 DEF Next, Progress

(* SeenInv of one worker, for the state and for the next one.              *)
Seen(w) ==
    LET e == pass[w].event
    IN  /\ pass[w].step \in {"found", "winner"} => audit[e] # "absent"
        /\ pass[w].step = "insert" /\ e \in Correlated \ runs => row[e].attempts = MaxAttempts
        /\ pass[w].step = "inserted" /\ pass[w].link = "unlinked" /\ e \in Correlated =>
              row[e].attempts = MaxAttempts
        /\ pass[w].step = "published" => published[e] > 0

LEMMA SeenOfOthers ==
    ASSUME TypeOK, TypeOK', RowInv, PassInv, SeenInv, [Next]_vars,
           NEW w \in Workers, pass'[w] = pass[w]
    PROVE  Seen(w)'
<1> DEFINE e == pass[w].event
<1>0. Seen(w)
  BY DEF SeenInv, Seen
<1>1. ASSUME NEW f \in Events, row[f].attempts = MaxAttempts PROVE row'[f].attempts = MaxAttempts
  <2>1. row[f].attempts \in 0 .. MaxAttempts /\ row'[f].attempts \in 0 .. MaxAttempts
    BY DEF TypeOK, RowType
  <2>2. row[f].attempts <= row'[f].attempts
    BY RowsGrow
  <2> QED BY <1>1, <2>1, <2>2, OutboxAssumption
<1>2. pass[w].step \in {"found", "winner"} => audit'[e] # "absent"
  BY <1>0, SeenStays DEF Seen, PassInv, AuditSteps
<1>3. pass[w].step = "insert" /\ e \in Correlated \ runs' => row'[e].attempts = MaxAttempts
  <2>1. pass[w].step = "insert" => e \in Events
    BY DEF PassInv
  <2> QED BY <1>0, <1>1, <2>1, SeenStays DEF Seen
<1>4. pass[w].step = "inserted" /\ pass[w].link = "unlinked" /\ e \in Correlated =>
        row'[e].attempts = MaxAttempts
  <2>1. pass[w].step = "inserted" => e \in Events
    BY DEF PassInv
  <2> QED BY <1>0, <1>1, <2>1 DEF Seen
<1>5. pass[w].step = "published" => published'[e] > 0
  <2> SUFFICES ASSUME pass[w].step = "published" PROVE published'[e] > 0
    OBVIOUS
  <2>1. e \in Notifications
    BY DEF PassInv, NotificationSteps
  <2>2. published[e] \in Nat /\ published'[e] \in Nat /\ published[e] > 0
    BY <1>0, <2>1 DEF TypeOK, Seen
  <2> QED BY <2>1, <2>2, SeenStays
<1> QED BY <1>2, <1>3, <1>4, <1>5 DEF Seen

(* A pass at one of these steps has yet to look, or is done with it.       *)
Blank == {"idle", "next", "read", "publish", "failed"}

LEMMA SeenStep ==
    ASSUME TypeOK, TypeOK', RowInv, PassInv, SeenInv, [Next]_vars
    PROVE  SeenInv'
<1>0. SUFFICES ASSUME NEW v \in Workers PROVE Seen(v)'
  BY DEF SeenInv, Seen
<1> USE DEF Blank
<1>1. CASE pass'[v] = pass[v]
  BY <1>1, SeenOfOthers
<1>2. CASE pass'[v].step \in Blank
  BY <1>2 DEF Seen
<1>3. CASE \/ \E e \in Events : Enqueue(e) \/ Expire(e)
           \/ \E e \in Correlated : RunRecorded(e)
           \/ \E e \in Audits : RecordedElsewhere(e)
           \/ UNCHANGED vars
  BY <1>1, <1>3 DEF Enqueue, Expire, RunRecorded, RecordedElsewhere, vars
<1>4. ASSUME NEW w \in Workers, PassOf(w), w # v PROVE Seen(v)'
  BY <1>1, <1>4 DEF PassOf
<1>5. ASSUME NEW w \in Workers, NEW outbox \in {Audits, Notifications}, Start(w, outbox)
      PROVE  Seen(v)'
  <2>1. PassOf(w) /\ pass'[w].step \in Blank
    BY <1>5, StartSets
  <2> QED BY <1>2, <1>4, <2>1
<1>6. ASSUME NEW w \in Workers, Take(w) PROVE Seen(v)'
  <2>1. PassOf(w) /\ pass'[w].step \in Blank
    BY <1>6, TakeSets
  <2> QED BY <1>2, <1>4, <2>1
<1>7. ASSUME NEW w \in Workers, Read(w) PROVE Seen(v)'
  <2> DEFINE e == pass[w].event
  <2>1. PICK step \in {"failed", "insert", "found"} : Goto(w, step)
    BY <1>7 DEF Read
  <2>2. step \in Step
    BY DEF Step
  <2>3. PassOf(w) /\ pass'[w].step = step /\ pass'[w].event = e
    BY <2>1, <2>2, GotoType DEF PassOf
  <2>4. e \in Audits
    BY <1>7 DEF Read, PassInv, AuditSteps
  <2>5. row[e].attempts \in 0 .. MaxAttempts
    BY <2>4, RowParts DEF Events
  <2>6. pass \in [Workers -> PassType] /\ UNCHANGED <<row, runs, audit, published>>
    BY <1>7 DEF TypeOK, Read
  <2>7. CASE step = "failed"
    BY <1>2, <1>4, <2>3, <2>7
  <2>8. CASE step = "insert"
    <3>1. ~AwaitsRun(e) /\ audit[e] = "absent"
      BY <1>7, <2>1, <2>3, <2>6, <2>8 DEF Read, Goto
    <3>2. e \in Correlated \ runs => row[e].attempts = MaxAttempts
      BY <2>5, <3>1, OutboxAssumption DEF AwaitsRun
    <3>3. Seen(w)'
      BY <2>3, <2>6, <2>8, <3>2 DEF Seen
    <3> QED BY <1>4, <2>3, <3>3
  <2>9. CASE step = "found"
    <3>1. audit[e] # "absent"
      BY <1>7, <2>1, <2>3, <2>6, <2>9 DEF Read, Goto
    <3>2. Seen(w)'
      BY <2>3, <2>6, <2>9, <3>1 DEF Seen
    <3> QED BY <1>4, <2>3, <3>2
  <2> QED BY <2>7, <2>8, <2>9
<1>8. ASSUME NEW w \in Workers, Insert(w) PROVE Seen(v)'
  <2> DEFINE e == pass[w].event
  <2>1. /\ PassOf(w) /\ pass'[w].event = e
        /\ pass'[w].step = IF audit[e] = "absent" THEN "inserted" ELSE "winner"
        /\ pass'[w].link = IF e \in runs THEN "linked" ELSE "unlinked"
    BY <1>8, InsertSets
  <2>2. UNCHANGED <<row, runs, audit, published>> /\ pass[w].step = "insert"
    BY <1>8 DEF Insert
  <2>3. e \in Correlated \ runs => row[e].attempts = MaxAttempts
    BY <2>2 DEF SeenInv
  <2>4. Seen(w)'
    <3>1. CASE audit[e] = "absent"
      BY <2>1, <2>2, <2>3, <3>1 DEF Seen
    <3>2. CASE audit[e] # "absent"
      BY <2>1, <2>2, <3>2 DEF Seen
    <3> QED BY <3>1, <3>2
  <2> QED BY <1>4, <2>1, <2>4
<1>9. ASSUME NEW w \in Workers, Publish(w) PROVE Seen(v)'
  <2> DEFINE e == pass[w].event
  <2>1. PICK step \in {"published", "failed"} : Goto(w, step)
    BY <1>9 DEF Publish
  <2>2. PassOf(w) /\ pass'[w].step = step /\ pass'[w].event = e
    BY <2>1, GotoType DEF PassOf, Step
  <2>3. e \in Notifications
    BY <1>9 DEF Publish, PassInv, NotificationSteps
  <2>4. published'[e] > 0
    BY <1>9, <2>3 DEF Publish, TypeOK
  <2>5. Seen(w)'
    BY <2>2, <2>4 DEF Seen
  <2> QED BY <1>4, <2>2, <2>5
<1>10. ASSUME NEW w \in Workers, MarkSucceeded(w) \/ MarkFailed(w) PROVE Seen(v)'
  <2>1. Continue(w)
    BY <1>10 DEF MarkSucceeded, MarkFailed
  <2>2. PassOf(w) /\ pass'[w].step \in Blank
    BY <2>1, ContinueType DEF PassOf
  <2> QED BY <1>2, <1>4, <2>2
<1>11. ASSUME NEW w \in Workers, Raise(w) PROVE Seen(v)'
  <2>1. PassOf(w) /\ pass'[w].step = "failed"
    BY <1>11, GotoType DEF Raise, PassOf, Step
  <2> QED BY <1>2, <1>4, <2>1
<1>12. ASSUME NEW w \in Workers, Crash(w) PROVE Seen(v)'
  <2>1. pass \in [Workers -> PassType]
    BY DEF TypeOK
  <2>2. PassOf(w) /\ pass'[w].step = "idle"
    BY <1>12, <2>1, IdleType DEF Crash, PassOf
  <2> QED BY <1>2, <1>4, <2>2
<1> QED
  BY <1>3, <1>5, <1>6, <1>7, <1>8, <1>9, <1>10, <1>11, <1>12 DEF Next, Progress

(* AuditWithItsEvent for one audit.                                        *)
Kept(e) ==
    /\ row[e].status = "succeeded" => audit[e] # "absent"
    /\ audit[e] \in {"linked", "unlinked"} => row[e].status = "succeeded"
    /\ audit[e] = "unlinked" /\ e \in Correlated => row[e].attempts = MaxAttempts

(* A step that neither ends an event well nor writes its audit row keeps   *)
(* the two together.                                                       *)
LEMMA KeptApart ==
    ASSUME TypeOK, RowInv, PassInv, AuditWithItsEvent, [Next]_vars, NEW e \in Audits,
           row'[e].status = "succeeded" => row[e].status = "succeeded",
           audit'[e] \in {"linked", "unlinked"} => audit'[e] = audit[e]
    PROVE  Kept(e)'
<1>1. e \in Events
  BY DEF Events
<1>2. row[e].status = "succeeded" => row'[e] = row[e] /\ audit'[e] # "absent"
  BY <1>1, RowsGrow, SeenStays DEF AuditWithItsEvent
<1> QED BY <1>2 DEF Kept, AuditWithItsEvent

LEMMA AuditStep ==
    ASSUME TypeOK, TypeOK', RowInv, PassInv, SeenInv, AuditWithItsEvent, [Next]_vars
    PROVE  AuditWithItsEvent'
<1> SUFFICES ASSUME NEW e \in Audits PROVE Kept(e)'
  BY DEF AuditWithItsEvent, Kept
<1>0. /\ row \in [Events -> RowType] /\ e \in Events
      /\ audit \in [Audits -> {"absent", "linked", "unlinked", "elsewhere"}]
  BY DEF TypeOK, Events
<1>1. CASE audit' = audit /\ (row'[e].status = "succeeded" => row[e].status = "succeeded")
  BY <1>1, KeptApart
<1>2. CASE UNCHANGED <<row, audit>>
  BY <1>1, <1>2
<1>3. CASE \/ \E f \in Correlated : RunRecorded(f)
           \/ \E w \in Workers : Take(w) \/ Read(w) \/ Insert(w) \/ Publish(w)
                                  \/ Raise(w) \/ Crash(w)
           \/ UNCHANGED vars
  BY <1>2, <1>3 DEF RunRecorded, Take, Read, Insert, Publish, Raise, Crash, vars
<1>4. ASSUME NEW f \in Events, Enqueue(f) \/ Expire(f) PROVE Kept(e)'
  BY <1>0, <1>1, <1>4 DEF Enqueue, Expire, RowType
<1>5. ASSUME NEW f \in Audits, RecordedElsewhere(f) PROVE Kept(e)'
  BY <1>0, <1>5, KeptApart DEF RecordedElsewhere
<1>6. ASSUME NEW w \in Workers, NEW outbox \in {Audits, Notifications}, Start(w, outbox)
      PROVE  Kept(e)'
  <2>1. row'[e].status = "succeeded" => row[e].status = "succeeded"
    BY <1>0, <1>6, StartSets, FailedRow, LeasedRow, DueHasAttempts, RowParts
  <2> QED BY <1>1, <1>6, <2>1 DEF Start
<1>7. ASSUME NEW w \in Workers, MarkFailed(w) PROVE Kept(e)'
  <2>1. row'[e].status = "succeeded" => row[e].status = "succeeded"
    BY <1>0, <1>7, FailedRow, RowParts DEF MarkFailed
  <2> QED BY <1>1, <1>7, <2>1 DEF MarkFailed
<1>8. ASSUME NEW w \in Workers, MarkSucceeded(w) PROVE Kept(e)'
  <2> DEFINE f == pass[w].event
             done == Unleased(row[f], "succeeded")
  <2>1. CASE ~Owns(w, f)
    BY <1>2, <1>8, <2>1 DEF MarkSucceeded
  <2>2. CASE Owns(w, f) /\ e # f
    <3>1. row'[e] = row[e] /\ audit'[e] = audit[e]
      BY <1>0, <1>8, <2>2 DEF MarkSucceeded
    <3> QED BY <3>1 DEF Kept, AuditWithItsEvent
  <2>3. CASE Owns(w, f) /\ e = f
    <3>1. done.status = "succeeded" /\ done.attempts = row[e].attempts
      BY <1>0, <2>3, UnleasedRow, RowParts DEF Status
    <3>2. row'[e] = done
      BY <1>0, <1>8, <2>3 DEF MarkSucceeded
    <3>3. CASE pass[w].step = "inserted"
      <4>1. audit'[e] = pass[w].link
        BY <1>0, <1>8, <2>3, <3>3 DEF MarkSucceeded
      <4>2. pass[w].link \in {"linked", "unlinked"}
        BY DEF TypeOK, PassType
      <4>3. pass[w].link = "unlinked" /\ e \in Correlated => row[e].attempts = MaxAttempts
        BY <2>3, <3>3 DEF SeenInv
      <4> QED BY <3>1, <3>2, <4>1, <4>2, <4>3 DEF Kept
    <3>4. CASE pass[w].step \in {"found", "winner"}
      <4>1. audit'[e] = audit[e] /\ audit[e] # "absent"
        BY <1>8, <2>3, <3>4 DEF MarkSucceeded, SeenInv
      <4>2. audit[e] = "unlinked" /\ e \in Correlated => row[e].attempts = MaxAttempts
        BY DEF AuditWithItsEvent
      <4> QED BY <3>1, <3>2, <4>1, <4>2 DEF Kept
    <3>5. pass[w].step # "published"
      BY <2>3, OutboxAssumption DEF PassInv, NotificationSteps
    <3> QED BY <1>8, <3>3, <3>4, <3>5 DEF MarkSucceeded
  <2> QED BY <2>1, <2>2, <2>3
<1> QED BY <1>3, <1>4, <1>5, <1>6, <1>7, <1>8 DEF Next, Progress

-----------------------------------------------------------------------------

(* Publications.                                                           *)

LEMMA PublishersFinite ==
    ASSUME NEW e
    PROVE  /\ IsFiniteSet(Publishers(e))
           /\ Cardinality(Publishers(e)) \in Nat
           /\ IsFiniteSet(Publishers(e)')
           /\ Cardinality(Publishers(e)') \in Nat
<1>1. Publishers(e) \subseteq Workers /\ Publishers(e)' \subseteq Workers
  BY DEF Publishers
<1> QED BY <1>1, FS_Subset, FS_CardinalityType, OutboxAssumption

(* The sum for one notification.                                           *)
Counted(e) == published[e] + Cardinality(Publishers(e)) <= row[e].attempts

(* Nobody new may publish, and nothing is published.                       *)
LEMMA CountedStays ==
    ASSUME TypeOK, TypeOK', RowInv, PassInv, PublishInv, [Next]_vars, NEW e \in Notifications,
           published'[e] = published[e], Publishers(e)' \subseteq Publishers(e)
    PROVE  Counted(e)'
<1>1. Cardinality(Publishers(e)') <= Cardinality(Publishers(e))
  BY PublishersFinite, FS_Subset
<1>2. e \in Events
  BY DEF Events
<1>3. /\ published[e] \in Nat
      /\ row[e].attempts \in Nat /\ row'[e].attempts \in Nat
      /\ row[e].attempts <= row'[e].attempts
  BY <1>2, RowsGrow, OutboxAssumption DEF TypeOK, RowType
<1>4. Counted(e)
  BY DEF PublishInv, Counted
<1> QED BY <1>1, <1>3, <1>4, PublishersFinite DEF Counted

LEMMA PublishStep ==
    ASSUME TypeOK, TypeOK', RowInv, PassInv, PublishInv, [Next]_vars
    PROVE  PublishInv'
<1> SUFFICES ASSUME NEW e \in Notifications PROVE Counted(e)'
  BY DEF PublishInv, Counted
<1>0. e \in Events /\ e \notin Audits
  BY OutboxAssumption DEF Events
<1>1. ASSUME UNCHANGED <<published, pass>> PROVE Counted(e)'
  BY <1>1, CountedStays DEF Publishers
<1>2. CASE \/ \E f \in Events : Enqueue(f) \/ Expire(f)
           \/ \E f \in Correlated : RunRecorded(f)
           \/ \E f \in Audits : RecordedElsewhere(f)
           \/ UNCHANGED vars
  BY <1>1, <1>2 DEF Enqueue, Expire, RunRecorded, RecordedElsewhere, vars
<1>3. ASSUME NEW w \in Workers, PassOf(w), published' = published,
             pass'[w].todo \subseteq pass[w].todo,
             pass'[w].step = "publish" => pass'[w].event \in pass[w].todo
      PROVE  Counted(e)'
  BY <1>3, CountedStays DEF Publishers, PassOf
<1>4. ASSUME NEW w \in Workers, NEW outbox \in {Audits, Notifications}, Start(w, outbox)
      PROVE  Counted(e)'
  <2>1. PassOf(w) /\ pass'[w].step \in {"idle", "next"} /\ published' = published
    BY <1>4, StartSets DEF Start
  <2>2. w \notin Publishers(e)
    BY <1>4 DEF Start, PassInv, Publishers
  <2>3. CASE e \notin pass'[w].todo
    <3>1. Publishers(e)' \subseteq Publishers(e)
      BY <2>1, <2>3 DEF Publishers, PassOf
    <3> QED BY <2>1, <3>1, CountedStays
  <2>4. CASE e \in pass'[w].todo
    <3>1. Due(e) /\ row'[e] = Leased(row[e], w)
      BY <1>0, <1>4, <2>4, StartSets
    <3>2. row'[e].attempts = row[e].attempts + 1
      BY <1>0, <3>1, LeasedRow, DueHasAttempts, RowParts
    <3>3. Publishers(e)' = Publishers(e) \cup {w}
      BY <2>1, <2>4 DEF Publishers, PassOf
    <3>4. Cardinality(Publishers(e)') = Cardinality(Publishers(e)) + 1
      BY <2>2, <3>3, PublishersFinite, FS_AddElement
    <3>5. published[e] \in Nat /\ row[e].attempts \in Nat
      BY <1>0, OutboxAssumption DEF TypeOK, RowType
    <3>6. Counted(e)
      BY DEF PublishInv, Counted
    <3> QED BY <2>1, <3>2, <3>4, <3>5, <3>6, PublishersFinite DEF Counted
  <2> QED BY <2>3, <2>4
<1>5. ASSUME NEW w \in Workers, Take(w) PROVE Counted(e)'
  BY <1>3, <1>5, TakeSets DEF Take
<1>6. ASSUME NEW w \in Workers, NEW step \in Step \ {"publish"}, Goto(w, step),
             published' = published
      PROVE  Counted(e)'
  BY <1>3, <1>6, GotoType DEF PassOf
<1>7. ASSUME NEW w \in Workers, Read(w) \/ Raise(w) PROVE Counted(e)'
  <2>1. PICK step \in {"failed", "insert", "found"} : Goto(w, step)
    BY <1>7 DEF Read, Raise
  <2>2. step \in Step \ {"publish"} /\ published' = published
    BY <1>7 DEF Step, Read, Raise
  <2> QED BY <1>6, <2>1, <2>2
<1>8. ASSUME NEW w \in Workers, Insert(w) PROVE Counted(e)'
  <2>1. PassOf(w) /\ pass'[w].todo = pass[w].todo /\ pass'[w].step # "publish"
    BY <1>8, InsertSets
  <2> QED BY <1>3, <1>8, <2>1 DEF Insert
<1>9. ASSUME NEW w \in Workers, Publish(w) PROVE Counted(e)'
  <2> DEFINE f == pass[w].event
  <2>1. PICK step \in {"published", "failed"} : Goto(w, step)
    BY <1>9 DEF Publish
  <2>2. PassOf(w) /\ pass'[w].step # "publish" /\ pass'[w].todo = pass[w].todo
    BY <2>1, GotoType DEF PassOf, Step
  <2>3. f \in Notifications /\ f \notin pass[w].todo /\ pass[w].step = "publish"
    BY <1>9 DEF Publish, PassInv, NotificationSteps
  <2>4. published' = [published EXCEPT ![f] = @ + 1] /\ row' = row
    BY <1>9 DEF Publish
  <2>5. published \in [Notifications -> Nat]
    BY DEF TypeOK
  <2>6. CASE e # f
    <3>1. published'[e] = published[e]
      BY <2>4, <2>5, <2>6
    <3>2. Publishers(e)' \subseteq Publishers(e)
      BY <2>2 DEF Publishers, PassOf
    <3> QED BY <3>1, <3>2, CountedStays
  <2>7. CASE e = f
    <3>1. published'[e] = published[e] + 1
      BY <2>4, <2>5, <2>7
    <3>2. Publishers(e)' = Publishers(e) \ {w} /\ w \in Publishers(e)
      BY <2>2, <2>3, <2>7 DEF Publishers, PassOf
    <3>3. Cardinality(Publishers(e)') = Cardinality(Publishers(e)) - 1
      BY <3>2, PublishersFinite, FS_RemoveElement
    <3>4. published[e] \in Nat /\ row[e].attempts \in Nat
      BY <1>0, OutboxAssumption DEF TypeOK, RowType
    <3>5. Counted(e)
      BY DEF PublishInv, Counted
    <3> QED BY <2>4, <3>1, <3>3, <3>4, <3>5, PublishersFinite DEF Counted
  <2> QED BY <2>6, <2>7
<1>10. ASSUME NEW w \in Workers, MarkSucceeded(w) \/ MarkFailed(w) PROVE Counted(e)'
  <2>1. Continue(w) /\ published' = published
    BY <1>10 DEF MarkSucceeded, MarkFailed
  <2>2. PassOf(w) /\ pass'[w].todo = pass[w].todo /\ pass'[w].step # "publish"
    BY <2>1, ContinueType DEF PassOf
  <2> QED BY <1>3, <2>1, <2>2
<1>11. ASSUME NEW w \in Workers, Crash(w) PROVE Counted(e)'
  <2>1. pass \in [Workers -> PassType]
    BY DEF TypeOK
  <2>2. PassOf(w) /\ pass'[w].todo = {} /\ pass'[w].step = "idle" /\ published' = published
    BY <1>11, <2>1, IdleType DEF Crash, PassOf
  <2> QED BY <1>3, <2>2
<1> QED
  BY <1>2, <1>4, <1>5, <1>7, <1>8, <1>9, <1>10, <1>11 DEF Next, Progress

LEMMA PublishedStep ==
    ASSUME TypeOK, TypeOK', RowInv, PassInv, SeenInv, PublishedPerAttempt, PublishInv', [Next]_vars
    PROVE  PublishedPerAttempt'
<1> SUFFICES ASSUME NEW e \in Notifications
             PROVE  /\ row'[e].status = "succeeded" => published'[e] > 0
                    /\ published'[e] <= row'[e].attempts
  BY DEF PublishedPerAttempt
<1>0. /\ e \in Events /\ e \notin Audits
      /\ row \in [Events -> RowType] /\ published \in [Notifications -> Nat]
      /\ published'[e] \in Nat /\ row'[e].attempts \in Nat
  BY OutboxAssumption DEF Events, TypeOK, RowType
<1>1. published'[e] <= row'[e].attempts
  BY <1>0, PublishersFinite DEF PublishInv
<1>2. ASSUME row'[e].status = "succeeded" => row[e].status = "succeeded"
      PROVE  row'[e].status = "succeeded" => published'[e] > 0
  BY <1>0, <1>2, SeenStays DEF PublishedPerAttempt
<1>3. ASSUME NEW w \in Workers, MarkSucceeded(w), Owns(w, e), pass[w].event = e
      PROVE  published'[e] > 0
  <2>1. pass[w].step = "published"
    BY <1>0, <1>3 DEF MarkSucceeded, PassInv, AuditSteps
  <2> QED BY <1>3, <2>1 DEF MarkSucceeded, SeenInv
<1>4. RowStep(e)
  BY <1>0, RowSteps
<1>5. CASE row'[e] = row[e]
  BY <1>1, <1>2, <1>5
<1>6. CASE row'[e] = [row[e] EXCEPT !.status = "pending"] \/ row'[e] = [row[e] EXCEPT !.expired = TRUE]
  BY <1>0, <1>1, <1>2, <1>6 DEF RowType
<1>7. CASE row'[e] = Failed(row[e])
  BY <1>0, <1>1, <1>2, <1>7, FailedRow
<1>8. CASE Due(e) /\ \E w \in Workers : row'[e] = Leased(row[e], w)
  BY <1>0, <1>1, <1>2, <1>8, LeasedRow, DueHasAttempts
<1>9. CASE row[e].status = "leased" /\ row'[e] = Unleased(row[e], "succeeded")
  <2>0. row'[e].status = "succeeded"
    BY <1>0, <1>9, UnleasedRow DEF Status
  <2>1. ASSUME NEW w \in Workers, MarkSucceeded(w) PROVE published'[e] > 0
    <3>1. Owns(w, e) /\ pass[w].event = e
      BY <1>0, <1>9, <2>0, <2>1 DEF MarkSucceeded
    <3> QED BY <1>3, <2>1, <3>1
  <2>2. ASSUME NEW f \in Events, Enqueue(f) \/ Expire(f) PROVE FALSE
    BY <1>0, <1>9, <2>0, <2>2 DEF Enqueue, Expire, RowType
  <2>3. ASSUME NEW w \in Workers, NEW outbox \in {Audits, Notifications}, Start(w, outbox)
        PROVE  FALSE
    BY <1>0, <1>9, <2>0, <2>3, StartSets, FailedRow, LeasedRow, DueHasAttempts
  <2>4. ASSUME NEW w \in Workers, MarkFailed(w) PROVE FALSE
    BY <1>0, <1>9, <2>0, <2>4, FailedRow DEF MarkFailed
  <2>5. row' # row
    BY <1>9, <2>0
  <2>6. CASE \/ \E f \in Correlated : RunRecorded(f)
             \/ \E f \in Audits : RecordedElsewhere(f)
             \/ \E w \in Workers : Take(w) \/ Read(w) \/ Insert(w) \/ Publish(w)
                                    \/ Raise(w) \/ Crash(w)
             \/ UNCHANGED vars
    BY <2>5, <2>6
       DEF RunRecorded, RecordedElsewhere, Take, Read, Insert, Publish, Raise, Crash, vars
  <2> QED BY <1>1, <2>1, <2>2, <2>3, <2>4, <2>6 DEF Next, Progress
<1> QED BY <1>1, <1>4, <1>5, <1>6, <1>7, <1>8, <1>9 DEF RowStep

-----------------------------------------------------------------------------

(* The theorems.                                                           *)

LEMMA InitInv == Init => IInv
<1> SUFFICES ASSUME Init PROVE IInv
  OBVIOUS
<1>1. TypeOK
  BY OutboxAssumption, IdleType DEF Init, TypeOK, RowType, Status
<1>2. RowInv /\ AuditWithItsEvent
  BY DEF Init, RowInv, AuditWithItsEvent, Events
<1>3. PassInv /\ SeenInv
  BY IdleType DEF Init, PassInv, SeenInv, AuditSteps, NotificationSteps
<1>4. ASSUME NEW e \in Notifications
      PROVE  /\ published[e] = 0 /\ row[e].attempts = 0 /\ row[e].status = "none"
             /\ Cardinality(Publishers(e)) = 0
  <2>1. Publishers(e) = {}
    BY IdleType DEF Init, Publishers
  <2> QED BY <1>4, <2>1, FS_EmptySet DEF Init, Events
<1>5. PublishedPerAttempt /\ PublishInv
  BY <1>4 DEF PublishedPerAttempt, PublishInv
<1> QED BY <1>1, <1>2, <1>3, <1>5 DEF IInv

LEMMA InvStep == IInv /\ [Next]_vars => IInv'
<1> SUFFICES ASSUME IInv, [Next]_vars PROVE IInv'
  OBVIOUS
<1>1. /\ TypeOK /\ RowInv /\ PassInv /\ SeenInv
      /\ AuditWithItsEvent /\ PublishedPerAttempt /\ PublishInv
  BY DEF IInv
<1>2. TypeOK'
  BY <1>1, TypeStep
<1>3. RowInv' /\ PassInv'
  BY <1>1, RowInvStep, PassInvStep
<1>4. SeenInv' /\ AuditWithItsEvent' /\ PublishInv'
  BY <1>1, <1>2, SeenStep, AuditStep, PublishStep
<1>5. PublishedPerAttempt'
  BY <1>1, <1>2, <1>4, PublishedStep
<1> QED BY <1>2, <1>3, <1>4, <1>5 DEF IInv

(* The strengthened invariant holds in every reachable state.              *)
THEOREM Invariance == Spec => []IInv
BY InitInv, InvStep, PTL DEF Spec

(* Types, and attempts that stay within max_attempts.                      *)
THEOREM TypeCorrect == Spec => []TypeOK
<1>1. IInv => TypeOK
  BY DEF IInv
<1> QED BY <1>1, Invariance, PTL

(* The audit row and the end of its event stay together, whoever processes *)
(* the event late or once more, and its run is given up last.              *)
THEOREM AuditsStayWithEvents == Spec => []AuditWithItsEvent
<1>1. IInv => AuditWithItsEvent
  BY DEF IInv
<1> QED BY <1>1, Invariance, PTL

(* A notification goes out at most once per attempt and at least once      *)
(* before it counts as delivered.                                          *)
THEOREM PublishedOncePerAttempt == Spec => []PublishedPerAttempt
<1>1. IInv => PublishedPerAttempt
  BY DEF IInv
<1> QED BY <1>1, Invariance, PTL
=============================================================================
