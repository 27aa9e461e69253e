----------------------- MODULE DocumentIngestion_proofs -----------------------

(***************************************************************************)
(* For any number of documents, workers, status requests and attempts: the *)
(* invariants of the ingestion jobs and what no step does to them.         *)
(***************************************************************************)
EXTENDS DocumentIngestionInv, TLAPS

-----------------------------------------------------------------------------

(* The rows an action writes.                                              *)

ValidRow(r) ==
    /\ r.status = "running" <=> r.token # NoToken
    /\ r.status = "running" <=> r.lease # NoTime
    /\ r.dispatch # NoTime => r.status \in {"pending", "retry_scheduled"}
    /\ r.token \in {NoToken, r.attempts}
    /\ r.status = "none" => r.attempts = 0
    /\ r.status \in Terminal => r.retry = NoTime

GoodRow(r) == r \in RowType /\ ValidRow(r)

LEMMA StatusParts ==
    /\ Active = {"pending", "running", "retry_scheduled"}
    /\ Terminal = {"succeeded", "dead_lettered", "cancelled"}
    /\ Active \subseteq Statuses /\ Terminal \subseteq Statuses
    /\ "none" \in Statuses /\ "deleted" \in Statuses
    /\ Active \cap Terminal = {}
    /\ "none" \notin Active \cup Terminal /\ "deleted" \notin Active \cup Terminal
BY DEF Active, Terminal, Statuses

LEMMA RowParts ==
    ASSUME TypeOK, RowInv, NEW j \in JobIds
    PROVE  /\ GoodRow(job[j])
           /\ job[j].status \in Statuses
           /\ job[j].attempts \in 0 .. MaxAttempts
           /\ job[j].token \in 0 .. MaxAttempts
           /\ job[j].settings \in Settings \cup {NoSettings}
           /\ job[j].result \in JobIds \cup {NoVersion}
<1>1. job[j] \in RowType
  BY DEF TypeOK
<1>2. ValidRow(job[j])
  BY DEF TypeOK, ValidJobs, RowInv, ValidRow
<1> QED BY <1>1, <1>2 DEF GoodRow, RowType

LEMMA GoodRows ==
    ASSUME job' \in [JobIds -> RowType], \A j \in JobIds : ValidRow(job'[j])
    PROVE  ValidJobs' /\ RowInv'
BY DEF ValidJobs, RowInv, ValidRow

LEMMA NoRowGood == GoodRow(NoRow)
BY BoundAssumption, TimeAssumption, StatusParts
   DEF GoodRow, ValidRow, NoRow, RowType, NoToken, NoTime, NoVersion

LEMMA PendingGood ==
    ASSUME NEW s \in Settings
    PROVE  /\ GoodRow(Pending(s))
           /\ Pending(s).status = "pending" /\ Pending(s).attempts = 0
           /\ Pending(s).settings = s
<1>1. NoRow \in RowType
  BY NoRowGood DEF GoodRow
<1>2. Pending(s) \in RowType
  <2>1. DispatchLease \in NoTime .. DispatchLease /\ 0 \in NoTime .. RetryDelay
    BY TimeAssumption DEF NoTime
  <2> QED BY <1>1, <2>1, StatusParts DEF Pending, RowType
<1>3. /\ Pending(s).status = "pending" /\ Pending(s).attempts = 0
      /\ Pending(s).settings = s /\ Pending(s).token = NoToken
      /\ Pending(s).lease = NoTime /\ Pending(s).retry = 0
  BY DEF Pending, NoRow
<1> QED BY <1>2, <1>3, StatusParts DEF GoodRow, ValidRow

LEMMA RunningGood ==
    ASSUME TypeOK, RowInv, NEW j \in JobIds, job[j].attempts < MaxAttempts
    PROVE  /\ GoodRow(Running(j))
           /\ Running(j).status = "running"
           /\ Running(j).attempts = job[j].attempts + 1
           /\ Running(j).token = job[j].attempts + 1
           /\ Running(j).settings = job[j].settings
<1>1. job[j] \in RowType
  BY DEF TypeOK
<1> DEFINE r == Running(j)
<1>2. /\ r.status = "running" /\ r.attempts = job[j].attempts + 1
      /\ r.token = job[j].attempts + 1 /\ r.lease = Lease
      /\ r.dispatch = NoTime /\ r.retry = NoTime /\ r.settings = job[j].settings
  BY <1>1 DEF Running, RowType
<1>3. job[j].attempts + 1 \in 1 .. MaxAttempts
  BY <1>1, BoundAssumption DEF RowType
<1>4. /\ job[j].attempts + 1 \in 0 .. MaxAttempts /\ Lease \in NoTime .. Lease
      /\ NoTime \in NoTime .. DispatchLease /\ NoTime \in NoTime .. RetryDelay
  BY <1>3, TimeAssumption DEF NoTime
<1>5. r \in RowType
  BY <1>1, <1>4, StatusParts DEF Running, RowType
<1>6. ValidRow(r)
  BY <1>2, <1>3, TimeAssumption, StatusParts DEF ValidRow, NoToken, NoTime
<1> QED BY <1>2, <1>5, <1>6 DEF GoodRow

LEMMA RetryGood ==
    ASSUME TypeOK, RowInv, NEW j \in JobIds,
           NEW retry \in {0, RetryDelay}, NEW dispatch \in {NoTime, DispatchLease}
    PROVE  LET r == RetryScheduled(j, retry, dispatch)
           IN  /\ GoodRow(r)
               /\ r.status = "retry_scheduled" /\ r.token = NoToken
               /\ r.attempts = job[j].attempts /\ r.settings = job[j].settings
<1>1. job[j] \in RowType
  BY DEF TypeOK
<1> DEFINE r == RetryScheduled(j, retry, dispatch)
<1>2. /\ r.status = "retry_scheduled" /\ r.token = NoToken /\ r.lease = NoTime
      /\ r.attempts = job[j].attempts /\ r.settings = job[j].settings
  BY <1>1 DEF RetryScheduled, RowType
<1>3. retry \in NoTime .. RetryDelay /\ dispatch \in NoTime .. DispatchLease
  BY TimeAssumption DEF NoTime
<1>4. NoTime \in NoTime .. Lease /\ NoToken \in 0 .. MaxAttempts
  BY BoundAssumption, TimeAssumption DEF NoTime, NoToken
<1>5. r \in RowType
  BY <1>1, <1>3, <1>4, StatusParts DEF RetryScheduled, RowType
<1>6. ValidRow(r)
  BY <1>2, StatusParts DEF ValidRow
<1> QED BY <1>2, <1>5, <1>6 DEF GoodRow

LEMMA EndedGood ==
    ASSUME TypeOK, RowInv, NEW j \in JobIds, NEW status \in Terminal,
           NEW retryable \in BOOLEAN, NEW result \in JobIds \cup {NoVersion}
    PROVE  LET r == Ended(j, status, retryable, result)
           IN  /\ GoodRow(r)
               /\ r.status = status /\ r.token = NoToken
               /\ r.attempts = job[j].attempts /\ r.settings = job[j].settings
<1>1. job[j] \in RowType
  BY DEF TypeOK
<1> DEFINE r == Ended(j, status, retryable, result)
<1>2. /\ r.status = status /\ r.token = NoToken /\ r.lease = NoTime
      /\ r.dispatch = NoTime /\ r.retry = NoTime
      /\ r.attempts = job[j].attempts /\ r.settings = job[j].settings
  BY <1>1 DEF Ended, RowType
<1>3. /\ NoTime \in NoTime .. Lease /\ NoTime \in NoTime .. DispatchLease
      /\ NoTime \in NoTime .. RetryDelay /\ NoToken \in 0 .. MaxAttempts
  BY BoundAssumption, TimeAssumption DEF NoTime, NoToken
<1>4. r \in RowType
  BY <1>1, <1>3, StatusParts DEF Ended, RowType
<1>5. ValidRow(r)
  BY <1>2, StatusParts DEF ValidRow
<1> QED BY <1>2, <1>4, <1>5 DEF GoodRow

(* What is written of a job that has failed for good.                      *)
LEMMA FailedGood ==
    ASSUME TypeOK, RowInv, NEW j \in JobIds, NEW status \in {"dead_lettered", "cancelled"},
           NEW retryable \in BOOLEAN
    PROVE  LET r == Ended(j, status, retryable, NoVersion)
           IN  /\ GoodRow(r) /\ r.status = status
               /\ r.attempts = job[j].attempts /\ r.settings = job[j].settings
<1>1. status \in Terminal /\ NoVersion \in JobIds \cup {NoVersion}
  BY StatusParts
<1> QED BY <1>1, EndedGood

LEMMA SucceededGood ==
    ASSUME TypeOK, RowInv, NEW j \in JobIds, NEW result \in JobIds
    PROVE  LET r == Succeeded(j, result)
           IN  /\ GoodRow(r) /\ r.status = "succeeded"
               /\ r.attempts = job[j].attempts /\ r.settings = job[j].settings
<1>1. "succeeded" \in Terminal /\ result \in JobIds \cup {NoVersion} /\ FALSE \in BOOLEAN
  BY StatusParts
<1>2. LET r == Ended(j, "succeeded", FALSE, result)
      IN  /\ GoodRow(r) /\ r.status = "succeeded" /\ r.token = NoToken
          /\ r.attempts = job[j].attempts /\ r.settings = job[j].settings
  BY <1>1, EndedGood, ZenonT(30)
<1> QED BY <1>2 DEF Succeeded

LEMMA LeaseGood ==
    ASSUME TypeOK, RowInv, NEW j \in JobIds, job[j].status = "running"
    PROVE  LET r == [job[j] EXCEPT !.lease = Lease]
           IN  /\ GoodRow(r)
               /\ r.status = job[j].status /\ r.token = job[j].token
               /\ r.attempts = job[j].attempts /\ r.settings = job[j].settings
<1>1. job[j] \in RowType /\ ValidRow(job[j])
  BY RowParts DEF GoodRow
<1> QED BY <1>1, TimeAssumption, StatusParts DEF GoodRow, ValidRow, RowType, NoToken, NoTime

LEMMA SoonerType ==
    ASSUME NEW n \in Nat, NEW t \in NoTime .. n
    PROVE  Sooner(t) \in NoTime .. n /\ (Sooner(t) = NoTime <=> t = NoTime)
BY DEF Sooner, NoTime

LEMMA SoonerGood ==
    ASSUME TypeOK, RowInv, NEW j \in JobIds
    PROVE  LET r == [job[j] EXCEPT !.lease = Sooner(@), !.dispatch = Sooner(@),
                                   !.retry = Sooner(@)]
           IN  /\ GoodRow(r)
               /\ r.status = job[j].status /\ r.token = job[j].token
               /\ r.attempts = job[j].attempts /\ r.settings = job[j].settings
               /\ job[j].status \in Terminal => r = job[j]
<1>1. job[j] \in RowType /\ ValidRow(job[j])
  BY RowParts DEF GoodRow
<1>2. Lease \in Nat /\ DispatchLease \in Nat /\ RetryDelay \in Nat
  BY TimeAssumption
<1>3. /\ job[j].lease \in NoTime .. Lease /\ job[j].dispatch \in NoTime .. DispatchLease
      /\ job[j].retry \in NoTime .. RetryDelay
  BY <1>1 DEF RowType
<1>4. /\ Sooner(job[j].lease) \in NoTime .. Lease
      /\ Sooner(job[j].dispatch) \in NoTime .. DispatchLease
      /\ Sooner(job[j].retry) \in NoTime .. RetryDelay
      /\ Sooner(job[j].lease) = NoTime <=> job[j].lease = NoTime
      /\ Sooner(job[j].dispatch) = NoTime <=> job[j].dispatch = NoTime
      /\ Sooner(job[j].retry) = NoTime <=> job[j].retry = NoTime
  BY <1>2, <1>3, SoonerType
<1> DEFINE r == [job[j] EXCEPT !.lease = Sooner(@), !.dispatch = Sooner(@),
                               !.retry = Sooner(@)]
<1>5. /\ r.status = job[j].status /\ r.token = job[j].token
      /\ r.attempts = job[j].attempts /\ r.settings = job[j].settings
      /\ r.lease = Sooner(job[j].lease) /\ r.dispatch = Sooner(job[j].dispatch)
      /\ r.retry = Sooner(job[j].retry)
  BY <1>1 DEF RowType
<1>6. r \in RowType
  BY <1>1, <1>4 DEF RowType
<1>7. ValidRow(r)
  BY <1>1, <1>4, <1>5 DEF ValidRow
<1>8. job[j].status \in Terminal => r = job[j]
  <2>1. HAVE job[j].status \in Terminal
  <2>2. job[j].lease = NoTime /\ job[j].dispatch = NoTime /\ job[j].retry = NoTime
    BY <1>1, <2>1 DEF ValidRow, Terminal
  <2> QED BY <1>1, <1>4, <2>2 DEF RowType
<1> QED BY <1>5, <1>6, <1>7, <1>8 DEF GoodRow
-----------------------------------------------------------------------------

(* Jobs, and what a step may write.                                        *)

LEMMA JobParts ==
    ASSUME NEW j \in JobIds
    PROVE  DocOf(j) \in Docs /\ j[2] \in 1 .. MaxJobs /\ j = <<DocOf(j), j[2]>>
BY DEF JobIds, DocOf

LEMMA JobOf ==
    ASSUME NEW d \in Docs, NEW n \in 1 .. MaxJobs
    PROVE  <<d, n>> \in JobIds /\ DocOf(<<d, n>>) = d
BY DEF JobIds, DocOf

LEMMA RowWritten ==
    ASSUME TypeOK, RowInv, NEW j \in JobIds, NEW r, GoodRow(r), job' = [job EXCEPT ![j] = r]
    PROVE  /\ job' \in [JobIds -> RowType] /\ ValidJobs' /\ RowInv'
           /\ job'[j] = r /\ \A k \in JobIds \ {j} : job'[k] = job[k]
<1>1. job \in [JobIds -> RowType]
  BY DEF TypeOK
<1>2. job' \in [JobIds -> RowType] /\ job'[j] = r /\ \A k \in JobIds \ {j} : job'[k] = job[k]
  BY <1>1 DEF GoodRow
<1>3. \A k \in JobIds : ValidRow(job'[k])
  BY <1>2, RowParts DEF GoodRow
<1> QED BY <1>2, <1>3, GoodRows

LEMMA RowsSame ==
    ASSUME TypeOK, RowInv, job' = job
    PROVE  job' \in [JobIds -> RowType] /\ ValidJobs' /\ RowInv'
BY DEF TypeOK, RowInv, ValidJobs

LEMMA WorkParts ==
    ASSUME TypeOK, NEW w \in Workers
    PROVE  /\ work[w] \in WorkType
           /\ work[w].job \in JobIds \cup {<<>>}
           /\ work[w].token \in 0 .. MaxAttempts
BY DEF TypeOK, WorkType

LEMMA NoWorkType ==
    NoWork \in WorkType /\ NoWork.at = "idle"
BY BoundAssumption DEF NoWork, WorkType, NoToken

OthersWork(w) == \A v \in Workers \ {w} : work'[v] = work[v]

LEMMA WorkWritten ==
    ASSUME TypeOK, NEW w \in Workers, NEW x \in WorkType, work' = [work EXCEPT ![w] = x]
    PROVE  work' \in [Workers -> WorkType] /\ work'[w] = x /\ OthersWork(w)
BY DEF TypeOK, OthersWork

(* A transaction's end takes its locks, and nobody else's.                 *)
LEMMA Released ==
    ASSUME TypeOK, LockInv, NEW w \in Workers, OthersWork(w), work'[w].at # "locked", Release(w)
    PROVE  LockInv' /\ lock' \in Workers \cup {Free}
<1>1. lock \in Workers \cup {Free}
  BY DEF TypeOK
<1>2. lock' \in Workers \cup {Free}
  BY <1>1 DEF Release
<1>3. ASSUME NEW v \in Workers PROVE work'[v].at = "locked" <=> lock' = v
  <2>1. CASE v = w
    BY <1>1, <2>1, FreeAssumption DEF Release
  <2>2. CASE v # w
    BY <1>1, <2>2, FreeAssumption DEF Release, OthersWork, LockInv
  <2> QED BY <2>1, <2>2
<1> QED BY <1>2, <1>3 DEF LockInv

LEMMA LockKept ==
    ASSUME LockInv, NEW w \in Workers, OthersWork(w), lock' = lock,
           work'[w].at = "locked" <=> work[w].at = "locked"
    PROVE  LockInv'
BY DEF LockInv, OthersWork

LEMMA Returned ==
    ASSUME TypeOK, LockInv, NEW w \in Workers, Return(w)
    PROVE  /\ work' \in [Workers -> WorkType] /\ work'[w] = NoWork /\ OthersWork(w)
           /\ LockInv' /\ lock' \in Workers \cup {Free}
<1>1. work' \in [Workers -> WorkType] /\ work'[w] = NoWork /\ OthersWork(w)
  BY NoWorkType, WorkWritten DEF Return
<1>2. work'[w].at # "locked"
  BY <1>1, NoWorkType
<1> QED BY <1>1, <1>2, Released DEF Return

-----------------------------------------------------------------------------

(* Most steps admit nothing, claim nothing and publish nothing: rows keep  *)
(* their claims or lose them, and workers go on with their runs or stop.   *)

Steady(j) ==
    \/ /\ job'[j].status = job[j].status /\ job'[j].attempts = job[j].attempts
       /\ job'[j].token = job[j].token /\ job'[j].settings = job[j].settings
    \/ /\ job[j].status \in Active
       /\ job'[j].status \in {"retry_scheduled", "dead_lettered", "cancelled"}
       /\ job'[j].attempts = job[j].attempts /\ job'[j].settings = job[j].settings
    \/ job[j].status \in Terminal /\ job'[j].status = "deleted"

Fading(w) ==
    \/ ~Busy(w)'
    \/ /\ Busy(w) /\ work'[w].job = work[w].job /\ work'[w].token = work[w].token
       /\ Informed(w)' => Informed(w) /\ work'[w].seen = work[w].seen

Quiet ==
    /\ UNCHANGED <<asked, active, version, commits>>
    /\ chunks' = chunks /\ cleanup' = cleanup
    /\ \A j \in JobIds : Steady(j)
    /\ \A w \in Workers : Fading(w)
    /\ Readers = {} => \A d \in Docs : doc'[d].settings = doc[d].settings

LEMMA SteadyStatus ==
    ASSUME NEW j \in JobIds, Steady(j)
    PROVE  /\ job'[j].status = "none" <=> job[j].status = "none"
           /\ job'[j].status = "succeeded" => job[j].status = "succeeded"
           /\ job'[j].status \in Active => job[j].status \in Active
           /\ job'[j].status = "running" => job[j].status = "running" /\ job'[j].token = job[j].token
           /\ job'[j].status = "deleted" \/ job'[j].attempts = job[j].attempts
           /\ job'[j].status = "deleted" \/ job'[j].settings = job[j].settings
           /\ job[j].status = "deleted" => job'[j].status = "deleted"
           /\ job[j].status = "succeeded" => job'[j].status \in {"succeeded", "deleted"}
BY StatusParts DEF Steady

LEMMA QuietStep ==
    ASSUME IInv, TypeOK', RowInv', ReaderInv', LockInv', Quiet
    PROVE  IInv'
<1>1. UNCHANGED <<asked, active, version, chunks, cleanup, commits>>
  BY DEF Quiet
<1>2. \A j \in JobIds : Steady(j)
  BY DEF Quiet
<1>3. AskedInv'
  BY <1>1, <1>2, SteadyStatus DEF IInv, AskedInv
<1>4. SingleFlight'
  BY <1>1, <1>2, SteadyStatus DEF IInv, SingleFlight, Newest
<1>5. ASSUME NEW w \in Workers, Busy(w)'
      PROVE  /\ Busy(w) /\ work'[w].job = work[w].job /\ work'[w].token = work[w].token
             /\ Informed(w)' => Informed(w) /\ work'[w].seen = work[w].seen
             /\ work[w].job \in JobIds
  BY <1>5 DEF Quiet, Fading, IInv, WorkInv
<1>6. \A w \in Workers : Informed(w)' => Busy(w)'
  BY DEF Informed, Busy
<1>7. WorkInv'
  <2>1. ASSUME NEW w \in Workers, Busy(w)'
        PROVE  /\ work'[w].job \in JobIds /\ work'[w].token # NoToken
               /\ job'[work'[w].job].status # "none"
               /\ \/ job'[work'[w].job].status = "deleted"
                  \/ work'[w].token <= job'[work'[w].job].attempts
    BY <1>2, <1>5, <2>1, SteadyStatus DEF IInv, WorkInv
  <2>2. ASSUME NEW w \in Workers, Informed(w)'
        PROVE  work'[w].seen \in [active : JobIds \cup {NoVersion}, doc : DocType]
    BY <1>5, <1>6, <2>2 DEF IInv, WorkInv
  <2> QED BY <2>1, <2>2 DEF WorkInv
<1>8. TokenInv'
  BY <1>5 DEF IInv, TokenInv
<1>9. SeenInv'
  BY <1>1, <1>5, <1>6 DEF IInv, SeenInv
<1>10. OneResult'
  <2>1. ASSUME NEW j \in JobIds
        PROVE  /\ commits[j] = IF job'[j].status = "succeeded" THEN 1
                               ELSE IF job'[j].status = "deleted" THEN commits[j] ELSE 0
               /\ commits[j] <= 1
               /\ version[j].status # "none" => commits[j] = 1
    BY <1>2, SteadyStatus DEF IInv, OneResult
  <2> QED BY <1>1, <2>1 DEF OneResult
<1>11. ActiveIntact' /\ CleanupInv'
  BY <1>1 DEF IInv, ActiveIntact, CleanupInv
<1>12. ASSUME NEW w \in Workers, Informed(w)', Holds(w)'
       PROVE  /\ Informed(w) /\ Holds(w) /\ work'[w].seen = work[w].seen
              /\ work'[w].job = work[w].job /\ work[w].job \in JobIds
              /\ job'[work[w].job].settings = job[work[w].job].settings
  BY <1>2, <1>5, <1>6, <1>12, SteadyStatus DEF Holds
<1>13. LeakInv'
  BY <1>1, <1>12 DEF IInv, LeakInv, NothingLeaks
<1>14. SettingsInv'
  <2> SUFFICES ASSUME Readers = {} PROVE SettingsInv'
    BY DEF SettingsInv
  <2>1. BuiltAsAsked'
    BY <1>1, <1>2, SteadyStatus DEF IInv, SettingsInv, BuiltAsAsked
  <2>2. ASSUME NEW j \in JobIds, job'[j].status \in Active
        PROVE  doc'[DocOf(j)].settings = job'[j].settings
    <3>1. job[j].status \in Active /\ job'[j].settings = job[j].settings
      BY <1>2, <2>2, SteadyStatus, StatusParts
    <3>2. doc'[DocOf(j)].settings = doc[DocOf(j)].settings
      BY JobParts DEF Quiet
    <3> QED BY <3>1, <3>2 DEF IInv, SettingsInv
  <2>3. \A w \in Workers :
          Informed(w)' /\ Holds(w)' => work'[w].seen.doc.settings = job'[work'[w].job].settings
    BY <1>12 DEF IInv, SettingsInv
  <2> QED BY <2>1, <2>2, <2>3 DEF SettingsInv
<1> QED BY <1>3, <1>4, <1>7, <1>8, <1>9, <1>10, <1>11, <1>13, <1>14 DEF IInv
-----------------------------------------------------------------------------

(* The quiet steps.                                                        *)

LEMMA InvParts ==
    ASSUME IInv
    PROVE  /\ TypeOK /\ RowInv /\ AskedInv /\ SingleFlight /\ WorkInv /\ ReaderInv
           /\ TokenInv /\ LockInv /\ SeenInv /\ OneResult /\ ActiveIntact
           /\ CleanupInv /\ LeakInv /\ SettingsInv
BY DEF IInv

LEMMA SameSteady ==
    ASSUME NEW j \in JobIds, job'[j] = job[j] PROVE Steady(j)
BY DEF Steady

LEMMA SameFading ==
    ASSUME NEW w \in Workers, work'[w] = work[w] PROVE Fading(w)
BY DEF Fading, Busy, Informed

LEMMA DocWritten ==
    ASSUME TypeOK, NEW j \in JobIds, NEW r, GoodRow(r),
           NEW docStatus \in {"pending", "indexing", "completed", "failed"},
           Write(j, r, docStatus)
    PROVE  /\ job' = [job EXCEPT ![j] = r]
           /\ doc' \in [Docs -> DocType]
           /\ \A d \in Docs : doc'[d].settings = doc[d].settings
<1>1. doc \in [Docs -> DocType]
  BY DEF TypeOK
<1> QED BY <1>1 DEF Write, DocType

LEMMA ReaderSame ==
    ASSUME TypeOK, ReaderInv, reader' = reader PROVE ReaderInv'
BY DEF ReaderInv

LEMMA LockSame ==
    ASSUME TypeOK, LockInv, work' = work, lock' = lock PROVE LockInv'
BY DEF LockInv

LEMMA RequestAgainStep ==
    ASSUME IInv, NEW d \in Docs, RequestAgain(d) PROVE IInv'
<1>1. UNCHANGED <<job, asked, doc, libraryVars, work, lock, reader>>
  BY DEF RequestAgain
<1>2. tasks' \subseteq JobIds
  BY DEF RequestAgain, ActiveJobs, IInv, TypeOK
<1>3. TypeOK'
  BY <1>1, <1>2 DEF IInv, TypeOK, ValidJobs, libraryVars
<1>4. RowInv' /\ ReaderInv' /\ LockInv'
  BY <1>1, InvParts, RowsSame, ReaderSame, LockSame
<1>5. Quiet
  BY <1>1, SameSteady, SameFading DEF Quiet, libraryVars
<1> QED BY <1>3, <1>4, <1>5, QuietStep

(* The job of a delivery or of a failure is ended or put off.              *)
LEMMA EndStep ==
    ASSUME IInv, NEW j \in JobIds, NEW r, GoodRow(r), job[j].status \in Active,
           NEW docStatus \in {"indexing", "failed"}, Write(j, r, docStatus),
           r.status \in {"retry_scheduled", "dead_lettered", "cancelled"},
           r.attempts = job[j].attempts, r.settings = job[j].settings,
           work' \in [Workers -> WorkType], LockInv', \A w \in Workers : Fading(w),
           UNCHANGED <<asked, libraryVars, tasks, lock, reader>>
    PROVE  IInv'
<1>1. TypeOK /\ RowInv /\ ReaderInv
  BY InvParts
<1>2. /\ job' = [job EXCEPT ![j] = r] /\ doc' \in [Docs -> DocType]
      /\ \A d \in Docs : doc'[d].settings = doc[d].settings
  BY <1>1, DocWritten
<1>3. /\ job' \in [JobIds -> RowType] /\ ValidJobs' /\ RowInv'
      /\ job'[j] = r /\ \A k \in JobIds \ {j} : job'[k] = job[k]
  BY <1>1, <1>2, RowWritten
<1>4. TypeOK'
  BY <1>1, <1>2, <1>3 DEF TypeOK, libraryVars
<1>5. \A k \in JobIds : Steady(k)
  BY <1>3, SameSteady DEF Steady
<1>6. Quiet
  BY <1>2, <1>5 DEF Quiet, libraryVars
<1> QED BY <1>1, <1>3, <1>4, <1>6, ReaderSame, QuietStep

LEMMA ClaimableActive ==
    ASSUME NEW j \in JobIds, Claimable(j) PROVE job[j].status \in Active
BY StatusParts DEF Claimable

LEMMA ExecuteCancelledStep ==
    ASSUME IInv, NEW j \in JobIds, ExecuteCancelled(j) PROVE IInv'
<1> DEFINE r == Ended(j, "cancelled", FALSE, NoVersion)
<1>1. GoodRow(r) /\ r.status = "cancelled" /\ r.attempts = job[j].attempts
      /\ r.settings = job[j].settings
  BY InvParts, FailedGood
<1>2. work' = work /\ lock' = lock /\ LockInv' /\ work' \in [Workers -> WorkType]
  BY InvParts, LockSame DEF ExecuteCancelled, TypeOK
<1>3. Write(j, r, "failed") /\ UNCHANGED <<asked, libraryVars, tasks, lock, reader>>
      /\ job[j].status \in Active
  BY ClaimableActive DEF ExecuteCancelled
<1> HIDE DEF r
<1> QED BY <1>1, <1>2, <1>3, SameFading, EndStep

LEMMA ExecuteExhaustedStep ==
    ASSUME IInv, NEW j \in JobIds, ExecuteExhausted(j) PROVE IInv'
<1> DEFINE r == Ended(j, "dead_lettered", TRUE, NoVersion)
<1>1. GoodRow(r) /\ r.status = "dead_lettered" /\ r.attempts = job[j].attempts
      /\ r.settings = job[j].settings
  BY InvParts, FailedGood
<1>2. work' = work /\ lock' = lock /\ LockInv' /\ work' \in [Workers -> WorkType]
  BY InvParts, LockSame DEF ExecuteExhausted, TypeOK
<1>3. Write(j, r, "failed") /\ UNCHANGED <<asked, libraryVars, tasks, lock, reader>>
      /\ job[j].status \in Active
  BY ClaimableActive DEF ExecuteExhausted
<1> HIDE DEF r
<1> QED BY <1>1, <1>2, <1>3, SameFading, EndStep

(* A step of one worker's run that writes neither row nor document.        *)
LEMMA RunStep ==
    ASSUME IInv, NEW w \in Workers, OthersWork(w), Fading(w),
           work' \in [Workers -> WorkType], LockInv', lock' \in Workers \cup {Free},
           UNCHANGED <<job, asked, doc, libraryVars, tasks, reader>>
    PROVE  IInv'
<1>1. TypeOK'
  BY InvParts DEF TypeOK, ValidJobs, libraryVars
<1>2. RowInv' /\ ReaderInv'
  BY InvParts, RowsSame, ReaderSame
<1>3. \A v \in Workers : Fading(v)
  BY SameFading DEF OthersWork
<1>4. Quiet
  BY <1>3, SameSteady DEF Quiet, libraryVars
<1> QED BY <1>1, <1>2, <1>4, QuietStep

LEMMA LockScopeStep ==
    ASSUME IInv, NEW w \in Workers, LockScope(w) PROVE IInv'
<1> DEFINE x == [work[w] EXCEPT !.at = "locked"]
<1>1. work[w] \in WorkType /\ work[w].at = "loaded"
  BY InvParts, WorkParts DEF LockScope
<1>2. x \in WorkType /\ x.at = "locked" /\ x.job = work[w].job /\ x.token = work[w].token
      /\ x.seen = work[w].seen
  BY <1>1 DEF WorkType
<1>3. work' = [work EXCEPT ![w] = x]
  BY DEF LockScope
<1> HIDE DEF x
<1>4. work' \in [Workers -> WorkType] /\ work'[w] = x /\ OthersWork(w)
  BY <1>2, <1>3, InvParts, WorkWritten
<1>5. Fading(w)
  BY <1>1, <1>2, <1>4 DEF Fading, Busy, Informed
<1>6. LockInv'
  <2>1. lock = Free /\ lock' = w
    BY DEF LockScope
  <2>2. \A v \in Workers \ {w} : work'[v].at # "locked"
    BY <1>4, <2>1, FreeAssumption, InvParts DEF LockInv, OthersWork
  <2> QED BY <1>2, <1>4, <2>1, <2>2 DEF LockInv
<1>7. lock' \in Workers \cup {Free} /\ UNCHANGED <<job, asked, doc, libraryVars, tasks, reader>>
  BY DEF LockScope
<1> QED BY <1>4, <1>5, <1>6, <1>7, RunStep

LEMMA ReturnStep ==
    ASSUME IInv, NEW w \in Workers, Return(w),
           UNCHANGED <<job, asked, doc, libraryVars, tasks, reader>>
    PROVE  IInv'
<1>1. /\ work' \in [Workers -> WorkType] /\ work'[w] = NoWork /\ OthersWork(w)
      /\ LockInv' /\ lock' \in Workers \cup {Free}
  BY InvParts, Returned
<1>2. Fading(w)
  BY <1>1, NoWorkType DEF Fading, Busy
<1> QED BY <1>1, <1>2, RunStep

LEMMA RaiseStep ==
    ASSUME IInv, NEW w \in Workers, Raise(w) PROVE IInv'
<1>1. PICK kind \in {"cancelled", "retryable", "permanent"} :
         work' = [work EXCEPT ![w] = [NoWork EXCEPT !.at = "failed", !.job = work[w].job,
                                                    !.token = work[w].token, !.kind = kind]]
  BY DEF Raise
<1> DEFINE x == [NoWork EXCEPT !.at = "failed", !.job = work[w].job,
                               !.token = work[w].token, !.kind = kind]
<1>2. x.at = "failed" /\ x.job = work[w].job /\ x.token = work[w].token
  BY DEF NoWork
<1>3. x \in WorkType
  BY NoWorkType, InvParts, WorkParts DEF WorkType
<1>4. work' = [work EXCEPT ![w] = x]
  BY <1>1
<1> HIDE DEF x
<1>5. work' \in [Workers -> WorkType] /\ work'[w] = x /\ OthersWork(w)
  BY <1>3, <1>4, InvParts, WorkWritten
<1>6. Fading(w)
  BY <1>2, <1>5 DEF Fading, Busy, Informed, Raise
<1>7. LockInv' /\ lock' \in Workers \cup {Free}
  BY <1>2, <1>5, InvParts, Released DEF Raise
<1>8. UNCHANGED <<job, asked, doc, libraryVars, tasks, reader>>
  BY DEF Raise
<1> QED BY <1>5, <1>6, <1>7, <1>8, RunStep

LEMMA HeartbeatStep ==
    ASSUME IInv, NEW w \in Workers, Heartbeat(w) PROVE IInv'
<1>1. work[w] \in WorkType /\ Busy(w) /\ work[w].job \in JobIds
  BY InvParts, WorkParts DEF Heartbeat, WorkInv, Busy
<1>2. UNCHANGED <<asked, doc, libraryVars, tasks, lock, reader>>
  BY DEF Heartbeat
<1>3. CASE OwnsJob(w)
  <2> DEFINE j == work[w].job
             r == [job[j] EXCEPT !.lease = Lease]
  <2>1. job' = [job EXCEPT ![j] = r] /\ work' = work
    BY <1>3 DEF Heartbeat
  <2>2. job[j].status = "running"
    BY <1>3 DEF OwnsJob
  <2>3. GoodRow(r) /\ r.status = job[j].status /\ r.token = job[j].token
        /\ r.attempts = job[j].attempts /\ r.settings = job[j].settings
    BY <1>1, <2>2, InvParts, LeaseGood
  <2> HIDE DEF r
  <2>4. /\ job' \in [JobIds -> RowType] /\ ValidJobs' /\ RowInv'
        /\ job'[j] = r /\ \A k \in JobIds \ {j} : job'[k] = job[k]
    BY <1>1, <2>1, <2>3, InvParts, RowWritten
  <2>5. TypeOK'
    BY <1>2, <2>1, <2>4, InvParts DEF TypeOK, libraryVars
  <2>6. \A k \in JobIds : Steady(k)
    BY <2>3, <2>4, SameSteady DEF Steady
  <2>7. Quiet
    BY <1>2, <2>1, <2>6, SameFading DEF Quiet, libraryVars
  <2> QED BY <1>2, <2>1, <2>4, <2>5, <2>7, InvParts, ReaderSame, LockSame, QuietStep
<1>4. CASE ~OwnsJob(w)
  <2> DEFINE x == [work[w] EXCEPT !.lost = TRUE]
  <2>1. work' = [work EXCEPT ![w] = x] /\ job' = job
    BY <1>4 DEF Heartbeat
  <2>2. x \in WorkType /\ x.at = work[w].at /\ x.job = work[w].job /\ x.token = work[w].token
        /\ x.seen = work[w].seen
    BY <1>1 DEF WorkType
  <2> HIDE DEF x
  <2>3. work' \in [Workers -> WorkType] /\ work'[w] = x /\ OthersWork(w)
    BY <2>1, <2>2, InvParts, WorkWritten
  <2>4. Fading(w)
    BY <1>1, <2>2, <2>3 DEF Fading, Busy, Informed
  <2>5. LockInv' /\ lock' \in Workers \cup {Free}
    BY <1>2, <2>2, <2>3, InvParts, LockKept DEF TypeOK
  <2> QED BY <1>2, <2>1, <2>3, <2>4, <2>5, RunStep
<1> QED BY <1>3, <1>4

LEMMA FinishFailureStep ==
    ASSUME IInv, NEW w \in Workers, FinishFailure(w) PROVE IInv'
<1> DEFINE j == work[w].job
           kind == work[w].kind
<1>1. TypeOK /\ RowInv /\ LockInv
  BY InvParts
<1>2. UNCHANGED <<asked, libraryVars, tasks, lock, reader>>
  BY DEF FinishFailure
<1>3. work[w].at = "failed" /\ work' = [work EXCEPT ![w] = NoWork]
  BY DEF FinishFailure
<1>4. work' \in [Workers -> WorkType] /\ work'[w] = NoWork /\ OthersWork(w)
  BY <1>1, <1>3, NoWorkType, WorkWritten
<1>5. Fading(w) /\ \A v \in Workers : Fading(v)
  BY <1>4, NoWorkType, SameFading DEF Fading, Busy, OthersWork
<1>6. LockInv' /\ lock' \in Workers \cup {Free}
  BY <1>1, <1>2, <1>3, <1>4, NoWorkType, LockKept DEF TypeOK
<1>7. CASE ~OwnsJob(w)
  <2>1. UNCHANGED <<job, doc>>
    BY <1>7 DEF FinishFailure
  <2> QED BY <1>2, <1>4, <1>5, <1>6, <2>1, RunStep
<1>8. CASE OwnsJob(w)
  <2>1. j \in JobIds /\ job[j].status \in Active
    BY <1>3, <1>8, InvParts, StatusParts DEF WorkInv, Busy, OwnsJob
  <2>2. \E r, docStatus :
           /\ GoodRow(r) /\ Write(j, r, docStatus) /\ docStatus \in {"indexing", "failed"}
           /\ r.status \in {"retry_scheduled", "dead_lettered", "cancelled"}
           /\ r.attempts = job[j].attempts /\ r.settings = job[j].settings
    <3> HIDE DEF j
    <3>1. CASE kind = "cancelled"
      <4> DEFINE r == Ended(j, "cancelled", FALSE, NoVersion)
      <4>1. Write(j, r, "failed")
        BY <1>8, <3>1 DEF FinishFailure, j
      <4>2. GoodRow(r) /\ r.status = "cancelled" /\ r.attempts = job[j].attempts
            /\ r.settings = job[j].settings
        BY <1>1, <2>1, FailedGood
      <4> HIDE DEF r
      <4> QED BY <4>1, <4>2
    <3>2. CASE kind = "retryable" /\ job[j].attempts < MaxAttempts
      <4>1. Write(j, RetryScheduled(j, RetryDelay, NoTime), "indexing")
        BY <1>8, <3>2 DEF FinishFailure, j
      <4> QED BY <1>1, <2>1, <4>1, RetryGood
    <3>3. CASE kind # "cancelled" /\ ~(kind = "retryable" /\ job[j].attempts < MaxAttempts)
      <4> DEFINE retryable == kind = "retryable"
                 r == Ended(j, "dead_lettered", retryable, NoVersion)
      <4>1. Write(j, r, "failed")
        BY <1>8, <3>3 DEF FinishFailure, j
      <4>2. retryable \in BOOLEAN
        OBVIOUS
      <4> HIDE DEF retryable
      <4>3. GoodRow(r) /\ r.status = "dead_lettered" /\ r.attempts = job[j].attempts
            /\ r.settings = job[j].settings
        BY <1>1, <2>1, <4>2, FailedGood
      <4> HIDE DEF r
      <4> QED BY <4>1, <4>3
    <3> QED BY <3>1, <3>2, <3>3
  <2> QED BY <1>2, <1>4, <1>5, <1>6, <2>1, <2>2, EndStep
<1> QED BY <1>7, <1>8

(* What the recovery task writes into the rows it found due.               *)
LEMMA RecoveredGood ==
    ASSUME IInv, NEW j \in Due
    PROVE  /\ j \in JobIds /\ GoodRow(Recovered(j))
           /\ Recovered(j).attempts = job[j].attempts
           /\ Recovered(j).settings = job[j].settings
           /\ \/ /\ job[j].status = "running"
                 /\ Recovered(j).status \in {"retry_scheduled", "dead_lettered"}
              \/ /\ job[j].status \in {"pending", "retry_scheduled"}
                 /\ Recovered(j).status = job[j].status /\ Recovered(j).token = job[j].token
<1>1. j \in JobIds /\ TypeOK /\ RowInv /\ job[j].status \in {"pending", "retry_scheduled", "running"}
  BY InvParts DEF Due
<1>2. CASE job[j].status # "running"
  <2> DEFINE r == [job[j] EXCEPT !.dispatch = DispatchLease]
  <2>1. Recovered(j) = r
    BY <1>2 DEF Recovered
  <2>2. job[j] \in RowType /\ ValidRow(job[j])
    BY <1>1, RowParts DEF GoodRow
  <2>3. r \in RowType
    BY <2>2, TimeAssumption DEF RowType, NoTime
  <2>4. /\ r.status = job[j].status /\ r.attempts = job[j].attempts
        /\ r.token = job[j].token /\ r.settings = job[j].settings
        /\ r.lease = job[j].lease /\ r.retry = job[j].retry
    BY <2>2 DEF RowType
  <2>5. ValidRow(r)
    BY <1>1, <1>2, <2>2, <2>4, StatusParts DEF ValidRow
  <2> QED BY <1>1, <1>2, <2>1, <2>3, <2>4, <2>5 DEF GoodRow
<1>3. CASE job[j].status = "running" /\ job[j].attempts >= MaxAttempts
  <2> DEFINE r == Ended(j, "dead_lettered", TRUE, NoVersion)
  <2>1. Recovered(j) = r
    BY <1>3 DEF Recovered
  <2>2. GoodRow(r) /\ r.status = "dead_lettered" /\ r.attempts = job[j].attempts
        /\ r.settings = job[j].settings
    BY <1>1, FailedGood
  <2> HIDE DEF r
  <2> QED BY <1>1, <1>3, <2>1, <2>2
<1>4. CASE job[j].status = "running" /\ ~(job[j].attempts >= MaxAttempts)
  <2>1. Recovered(j) = RetryScheduled(j, 0, DispatchLease)
    BY <1>4 DEF Recovered
  <2> QED BY <1>1, <1>4, <2>1, RetryGood
<1> QED BY <1>2, <1>3, <1>4

LEMMA RecoverStep ==
    ASSUME IInv, NEW batch \in SUBSET Due, NEW sent \in SUBSET batch, Recover(batch, sent)
    PROVE  IInv'
<1>1. TypeOK /\ RowInv /\ LockInv /\ ReaderInv
  BY InvParts
<1>2. UNCHANGED <<asked, libraryVars, work, lock, reader>>
  BY DEF Recover
<1>3. batch \subseteq JobIds /\ sent \subseteq JobIds
  BY DEF Due
<1>4. ASSUME NEW j \in JobIds
      PROVE  GoodRow(job'[j]) /\ Steady(j)
  <2>1. job'[j] = IF j \in batch THEN Recovered(j) ELSE job[j]
    BY DEF Recover
  <2>2. CASE j \notin batch
    BY <1>1, <2>1, <2>2, RowParts, SameSteady
  <2>3. CASE j \in batch
    BY <2>1, <2>3, RecoveredGood, StatusParts DEF Steady
  <2> QED BY <2>2, <2>3
<1>5. job' \in [JobIds -> RowType] /\ ValidJobs' /\ RowInv'
  <2>1. job' \in [JobIds -> RowType]
    BY <1>4 DEF Recover, GoodRow
  <2> QED BY <1>4, <2>1, GoodRows DEF GoodRow
<1>6. doc' \in [Docs -> DocType] /\ \A d \in Docs : doc'[d].settings = doc[d].settings
  <2>1. doc \in [Docs -> DocType]
    BY <1>1 DEF TypeOK
  <2>2. ASSUME NEW d \in Docs
        PROVE  \/ doc'[d] = doc[d]
               \/ \E s \in {"indexing", "failed"} : doc'[d] = [doc[d] EXCEPT !.status = s]
    BY DEF Recover
  <2>3. ASSUME NEW d \in Docs
        PROVE  doc'[d] \in DocType /\ doc'[d].settings = doc[d].settings
    BY <2>1, <2>2, ZenonT(30) DEF DocType
  <2>4. doc' = [d \in Docs |-> doc'[d]]
    BY DEF Recover
  <2> QED BY <2>3, <2>4
<1>7. tasks' \subseteq JobIds
  BY <1>1, <1>3 DEF Recover, TypeOK
<1>8. TypeOK'
  BY <1>1, <1>2, <1>5, <1>6, <1>7 DEF TypeOK, libraryVars
<1>9. Quiet
  BY <1>2, <1>4, <1>6, SameFading DEF Quiet, libraryVars
<1> QED BY <1>1, <1>2, <1>5, <1>8, <1>9, ReaderSame, LockSame, QuietStep

LEMMA DeleteTerminalStep ==
    ASSUME IInv, NEW j \in JobIds, DeleteTerminal(j) PROVE IInv'
<1> DEFINE r == [NoRow EXCEPT !.status = "deleted"]
<1>1. TypeOK /\ RowInv /\ LockInv /\ ReaderInv
  BY InvParts
<1>2. UNCHANGED <<asked, doc, libraryVars, tasks, work, lock, reader>>
  BY DEF DeleteTerminal
<1>3. r.status = "deleted" /\ r.token = NoRow.token /\ r.lease = NoRow.lease
      /\ r.dispatch = NoRow.dispatch /\ r.attempts = NoRow.attempts
  BY DEF NoRow
<1>4. GoodRow(r)
  <2>1. r \in RowType
    BY NoRowGood, StatusParts DEF GoodRow, RowType
  <2>2. NoRow.token = NoToken /\ NoRow.lease = NoTime /\ NoRow.dispatch = NoTime
    BY DEF NoRow
  <2> QED BY <1>3, <2>1, <2>2, StatusParts DEF GoodRow, ValidRow
<1>5. job' = [job EXCEPT ![j] = r] /\ job[j].status \in Terminal
  BY DEF DeleteTerminal
<1> HIDE DEF r
<1>6. /\ job' \in [JobIds -> RowType] /\ ValidJobs' /\ RowInv'
      /\ job'[j] = r /\ \A k \in JobIds \ {j} : job'[k] = job[k]
  BY <1>1, <1>4, <1>5, RowWritten
<1>7. TypeOK'
  BY <1>1, <1>2, <1>6 DEF TypeOK, libraryVars
<1>8. \A k \in JobIds : Steady(k)
  BY <1>3, <1>5, <1>6, SameSteady DEF Steady
<1>9. Quiet
  BY <1>2, <1>8, SameFading DEF Quiet, libraryVars
<1> QED BY <1>1, <1>2, <1>6, <1>7, <1>9, ReaderSame, LockSame, QuietStep

LEMMA TickStep ==
    ASSUME IInv, Tick PROVE IInv'
<1>1. TypeOK /\ RowInv /\ LockInv /\ ReaderInv
  BY InvParts
<1>2. UNCHANGED <<asked, doc, libraryVars, tasks, work, lock, reader>>
  BY DEF Tick
<1>3. ASSUME NEW j \in JobIds
      PROVE  GoodRow(job'[j]) /\ Steady(j)
  <2>1. job'[j] = [job[j] EXCEPT !.lease = Sooner(@), !.dispatch = Sooner(@),
                                 !.retry = Sooner(@)]
    BY DEF Tick
  <2> QED BY <1>1, <2>1, SoonerGood DEF Steady
<1>4. job' \in [JobIds -> RowType] /\ ValidJobs' /\ RowInv'
  <2>1. job' = [j \in JobIds |-> job'[j]]
    BY DEF Tick
  <2>2. job' \in [JobIds -> RowType]
    BY <1>3, <2>1 DEF GoodRow
  <2> QED BY <1>3, <2>2, GoodRows DEF GoodRow
<1>5. TypeOK'
  BY <1>1, <1>2, <1>4 DEF TypeOK, libraryVars
<1>6. Quiet
  BY <1>2, <1>3, SameFading DEF Quiet, libraryVars
<1> QED BY <1>1, <1>2, <1>4, <1>5, <1>6, ReaderSame, LockSame, QuietStep

LEMMA ReaderParts ==
    ASSUME TypeOK, NEW r \in Readers
    PROVE  reader \in [Readers -> [at : {"idle", "read", "judged"}, doc : Docs \cup {<<>>},
                                   settings : Settings \cup {NoSettings},
                                   verdict : {"none", "completed", "failed"}]]
BY DEF TypeOK

(* A status request that writes no document.                               *)
LEMMA ReadingStep ==
    ASSUME IInv, NEW r \in Readers,
           NEW x \in [at : {"idle", "read", "judged"}, doc : Docs \cup {<<>>},
                      settings : Settings \cup {NoSettings},
                      verdict : {"none", "completed", "failed"}],
           reader' = [reader EXCEPT ![r] = x],
           x.at # "idle" => x.doc \in Docs /\ x.settings \in Settings,
           x.at = "judged" => x.verdict # "none",
           UNCHANGED <<job, asked, doc, libraryVars, tasks, work, lock>>
    PROVE  IInv'
<1>1. TypeOK'
  BY InvParts, ReaderParts DEF TypeOK, ValidJobs, libraryVars
<1>2. ReaderInv'
  BY InvParts, ReaderParts DEF ReaderInv
<1>3. Quiet
  BY SameSteady, SameFading DEF Quiet, libraryVars
<1> QED BY <1>1, <1>2, <1>3, InvParts, RowsSame, LockSame, QuietStep

LEMMA StatusReadStep ==
    ASSUME IInv, NEW r \in Readers, NEW d \in Docs, StatusRead(r, d) PROVE IInv'
<1> DEFINE x == [NoReading EXCEPT !.at = "read", !.doc = d, !.settings = doc[d].settings]
<1>1. doc[d].settings \in Settings
  BY InvParts DEF TypeOK, DocType
<1>2. /\ x \in [at : {"idle", "read", "judged"}, doc : Docs \cup {<<>>},
                settings : Settings \cup {NoSettings},
                verdict : {"none", "completed", "failed"}]
      /\ x.at = "read" /\ x.doc = d /\ x.settings = doc[d].settings
  BY <1>1 DEF NoReading
<1>3. /\ reader' = [reader EXCEPT ![r] = x]
      /\ UNCHANGED <<job, asked, doc, libraryVars, tasks, work, lock>>
  BY DEF StatusRead
<1> HIDE DEF x
<1> QED BY <1>1, <1>2, <1>3, ReadingStep

LEMMA StatusJudgeStep ==
    ASSUME IInv, NEW r \in Readers, StatusJudge(r) PROVE IInv'
<1> DEFINE kept(v) == [reader[r] EXCEPT !.at = "judged", !.verdict = v]
           type == [at : {"idle", "read", "judged"}, doc : Docs \cup {<<>>},
                    settings : Settings \cup {NoSettings},
                    verdict : {"none", "completed", "failed"}]
<1>1. reader[r] \in type /\ reader[r].doc \in Docs /\ reader[r].settings \in Settings
  BY InvParts, ReaderParts DEF ReaderInv, StatusJudge
<1>2. UNCHANGED <<job, asked, doc, libraryVars, tasks, work, lock>>
  BY DEF StatusJudge
<1>3. \A v \in {"completed", "failed"} :
         /\ kept(v) \in type /\ kept(v).at = "judged" /\ kept(v).doc = reader[r].doc
         /\ kept(v).settings = reader[r].settings /\ kept(v).verdict = v
  BY <1>1
<1>4. NoReading \in type /\ NoReading.at = "idle"
  BY DEF NoReading
<1>5. \/ \E v \in {"completed", "failed"} : reader' = [reader EXCEPT ![r] = kept(v)]
      \/ reader' = [reader EXCEPT ![r] = NoReading]
  BY DEF StatusJudge
<1>6. CASE reader' = [reader EXCEPT ![r] = NoReading]
  BY <1>2, <1>4, <1>6, ReadingStep
<1>7. ASSUME NEW v \in {"completed", "failed"}, reader' = [reader EXCEPT ![r] = kept(v)]
      PROVE  IInv'
  <2>1. /\ kept(v) \in type /\ kept(v).at = "judged" /\ kept(v).doc \in Docs
        /\ kept(v).settings \in Settings /\ kept(v).verdict # "none"
    BY <1>1, <1>3
  <2> HIDE DEF kept
  <2> QED BY <1>2, <1>7, <2>1, ReadingStep
<1> QED BY <1>5, <1>6, <1>7

(* What is written back are settings that were read before: they are the   *)
(* document's own while nobody writes any back.                            *)
LEMMA StatusWriteStep ==
    ASSUME IInv, NEW r \in Readers, StatusWrite(r) PROVE IInv'
<1> DEFINE d == reader[r].doc
<1>1. TypeOK /\ RowInv /\ ReaderInv /\ LockInv
  BY InvParts
<1>2. UNCHANGED <<job, asked, libraryVars, tasks, work, lock>>
  BY DEF StatusWrite
<1>3. d \in Docs /\ reader[r].settings \in Settings /\ reader[r].verdict \in {"completed", "failed"}
  BY <1>1, ReaderParts DEF ReaderInv, StatusWrite
<1>4. doc' \in [Docs -> DocType]
  BY <1>1, <1>3 DEF StatusWrite, TypeOK, DocType
<1>5. /\ reader' \in [Readers -> [at : {"idle", "read", "judged"}, doc : Docs \cup {<<>>},
                                  settings : Settings \cup {NoSettings},
                                  verdict : {"none", "completed", "failed"}]]
      /\ ReaderInv'
  <2>1. NoReading \in [at : {"idle", "read", "judged"}, doc : Docs \cup {<<>>},
                       settings : Settings \cup {NoSettings},
                       verdict : {"none", "completed", "failed"}]
        /\ NoReading.at = "idle"
    BY DEF NoReading
  <2> QED BY <1>1, <2>1, ReaderParts DEF StatusWrite, ReaderInv
<1>6. TypeOK'
  BY <1>1, <1>2, <1>4, <1>5 DEF TypeOK, ValidJobs, libraryVars
<1>7. Quiet
  BY <1>2, SameSteady, SameFading DEF Quiet, libraryVars
<1> QED BY <1>1, <1>2, <1>5, <1>6, <1>7, RowsSame, LockSame, QuietStep
-----------------------------------------------------------------------------

(* Admission: every new job is the next one of its document, and the only  *)
(* one that is not over.                                                   *)

LEMMA AdmitStep ==
    ASSUME IInv, NEW ds \in SUBSET Docs, NEW s \in [Docs -> Settings],
           NoneActive(ds), Admit(ds, s)
    PROVE  IInv'
<1> DEFINE new == {<<d, asked[d] + 1>> : d \in ds}
<1>1. TypeOK /\ RowInv /\ AskedInv /\ SingleFlight /\ LockInv /\ ReaderInv
  BY InvParts
<1>2. UNCHANGED <<active, version, chunks, cleanup, commits, work, lock, reader>>
  BY DEF Admit, libraryVars
<1>3. \A d \in Docs : asked[d] \in 0 .. MaxJobs
  BY <1>1 DEF TypeOK
<1>4. \A d \in ds : asked[d] + 1 \in 1 .. MaxJobs
  BY <1>3, BoundAssumption DEF Admit
<1>5. asked' = [d \in Docs |-> IF d \in ds THEN asked[d] + 1 ELSE asked[d]]
  BY DEF Admit
<1>6. asked' \in [Docs -> 0 .. MaxJobs]
  <2>1. \A d \in ds : asked[d] + 1 \in 0 .. MaxJobs
    BY <1>4, BoundAssumption
  <2> QED BY <1>3, <1>5, <2>1
<1>7. ASSUME NEW j \in new
      PROVE  /\ j \in JobIds /\ DocOf(j) \in ds /\ j[2] = asked[DocOf(j)] + 1
             /\ job[j].status = "none"
  <2>1. PICK d \in ds : j = <<d, asked[d] + 1>>
    BY <1>7
  <2>2. j \in JobIds /\ DocOf(j) = d /\ j[2] = asked[d] + 1
    BY <1>4, <2>1, JobOf
  <2>3. j[2] > asked[d]
    BY <1>3, <2>2
  <2> QED BY <1>1, <2>2, <2>3 DEF AskedInv
<1>8. ASSUME NEW j \in JobIds, DocOf(j) \in ds, j[2] = asked[DocOf(j)] + 1
      PROVE  j \in new
  BY <1>8, JobParts
<1>9. ASSUME NEW j \in JobIds
      PROVE  job'[j] = IF j \in new THEN Pending(s[DocOf(j)]) ELSE job[j]
  BY DEF Admit
<1> HIDE DEF new
<1>10. ASSUME NEW j \in JobIds, j \in new
       PROVE  /\ GoodRow(job'[j]) /\ job'[j].status = "pending"
              /\ job'[j].settings = s[DocOf(j)]
  <2>1. s[DocOf(j)] \in Settings
    BY JobParts
  <2> QED BY <1>9, <1>10, <2>1, PendingGood
<1>11. ASSUME NEW j \in JobIds, j \notin new
       PROVE  GoodRow(job'[j]) /\ job'[j] = job[j]
  BY <1>1, <1>9, <1>11, RowParts
<1>12. job' \in [JobIds -> RowType] /\ ValidJobs' /\ RowInv'
  <2>1. \A j \in JobIds : GoodRow(job'[j])
    BY <1>10, <1>11
  <2>2. job' = [j \in JobIds |-> job'[j]]
    BY DEF Admit
  <2> QED BY <2>1, <2>2, GoodRows DEF GoodRow
<1>13. /\ doc' \in [Docs -> DocType]
       /\ \A d \in ds : doc'[d].settings = s[d]
       /\ \A d \in Docs \ ds : doc'[d] = doc[d]
  BY <1>1 DEF Admit, TypeOK, DocType
<1>14. tasks' \subseteq JobIds
  <2>1. \E sent \in SUBSET new : tasks' = tasks \cup sent
    BY DEF Admit, new
  <2> QED BY <1>1, <1>7, <2>1 DEF TypeOK
<1>15. TypeOK'
  BY <1>1, <1>2, <1>6, <1>12, <1>13, <1>14 DEF TypeOK
<1>16. LockInv' /\ ReaderInv'
  BY <1>1, <1>2, LockSame, ReaderSame
<1>17. AskedInv'
  <2>1. ASSUME NEW j \in JobIds
        PROVE  job'[j].status = "none" <=> j[2] > asked'[DocOf(j)]
    <3>1. DocOf(j) \in Docs /\ j[2] \in 1 .. MaxJobs /\ asked[DocOf(j)] \in 0 .. MaxJobs
      BY <1>3, JobParts
    <3>2. CASE j \in new
      BY <1>5, <1>7, <1>10, <3>1, <3>2
    <3>3. CASE j \notin new /\ DocOf(j) \in ds
      BY <1>1, <1>5, <1>8, <1>11, <3>1, <3>3 DEF AskedInv
    <3>4. CASE j \notin new /\ DocOf(j) \notin ds
      BY <1>1, <1>5, <1>11, <3>1, <3>4 DEF AskedInv
    <3> QED BY <3>2, <3>3, <3>4
  <2> QED BY <2>1 DEF AskedInv
<1>18. ASSUME NEW j \in JobIds, job[j].status \in Active
       PROVE  j \notin new /\ DocOf(j) \notin ds
  BY <1>7, <1>18, StatusParts DEF NoneActive, ActiveJobs
<1>19. SingleFlight'
  <2>1. ASSUME NEW j \in JobIds, job'[j].status \in Active
        PROVE  j = <<DocOf(j), asked'[DocOf(j)]>>
    <3>1. DocOf(j) \in Docs /\ j = <<DocOf(j), j[2]>>
      BY JobParts
    <3>2. CASE j \in new
      BY <1>5, <1>7, <3>1, <3>2
    <3>3. CASE j \notin new
      BY <1>1, <1>5, <1>11, <1>18, <2>1, <3>1, <3>3 DEF SingleFlight, Newest
    <3> QED BY <3>2, <3>3
  <2> QED BY <2>1 DEF SingleFlight, Newest
<1>20. ASSUME NEW w \in Workers, Busy(w)
       PROVE  work[w].job \in JobIds /\ work[w].job \notin new
              /\ job'[work[w].job] = job[work[w].job]
  BY <1>7, <1>11, <1>20, InvParts DEF WorkInv
<1>21. WorkInv'
  <2>1. \A w \in Workers : (Busy(w)' <=> Busy(w)) /\ (Informed(w)' <=> Informed(w))
    BY <1>2 DEF Busy, Informed
  <2> QED BY <1>2, <1>20, <2>1, InvParts DEF WorkInv
<1>22. TokenInv' /\ SeenInv' /\ ActiveIntact' /\ CleanupInv'
  BY <1>2, InvParts DEF TokenInv, SeenInv, ActiveIntact, CleanupInv, Busy, Informed
<1>23. OneResult'
  <2>1. ASSUME NEW j \in JobIds
        PROVE  /\ commits[j] = IF job'[j].status = "succeeded" THEN 1
                               ELSE IF job'[j].status = "deleted" THEN commits[j] ELSE 0
               /\ commits[j] <= 1
               /\ version[j].status # "none" => commits[j] = 1
    BY <1>7, <1>10, <1>11, InvParts DEF OneResult
  <2> QED BY <1>2, <2>1 DEF OneResult
<1>24. ASSUME NEW w \in Workers, Informed(w)', Holds(w)'
       PROVE  Informed(w) /\ Holds(w) /\ work[w].job \in JobIds
              /\ job'[work[w].job] = job[work[w].job]
  BY <1>2, <1>20, <1>24 DEF Informed, Holds, Busy
<1>25. LeakInv'
  BY <1>2, <1>24, InvParts DEF LeakInv, NothingLeaks
<1>26. SettingsInv'
  <2> SUFFICES ASSUME Readers = {} PROVE SettingsInv'
    BY DEF SettingsInv
  <2>1. BuiltAsAsked'
    BY <1>2, <1>10, <1>11, InvParts DEF SettingsInv, BuiltAsAsked
  <2>2. ASSUME NEW j \in JobIds, job'[j].status \in Active
        PROVE  doc'[DocOf(j)].settings = job'[j].settings
    <3>1. CASE j \in new
      BY <1>7, <1>10, <1>13, <3>1
    <3>2. CASE j \notin new
      BY <1>11, <1>13, <1>18, <2>2, <3>2, InvParts, JobParts DEF SettingsInv
    <3> QED BY <3>1, <3>2
  <2>3. \A w \in Workers :
          Informed(w)' /\ Holds(w)' => work'[w].seen.doc.settings = job'[work'[w].job].settings
    BY <1>2, <1>24, InvParts DEF SettingsInv
  <2> QED BY <2>1, <2>2, <2>3 DEF SettingsInv
<1> QED BY <1>12, <1>15, <1>16, <1>17, <1>19, <1>21, <1>22, <1>23, <1>25, <1>26 DEF IInv

LEMMA GatewayStep ==
    ASSUME IInv, Gateway PROVE IInv'
<1>1. \A d \in Docs : doc[d].settings \in Settings
  BY InvParts DEF TypeOK, DocType
<1>2. ASSUME NEW d \in Docs, Redrive(d) PROVE IInv'
  <2> DEFINE s == [e \in Docs |-> doc[e].settings]
  <2>1. NoneActive({d}) /\ Admit({d}, s)
    BY <1>2 DEF Redrive
  <2>2. s \in [Docs -> Settings]
    BY <1>1
  <2> HIDE DEF s
  <2> QED BY <2>1, <2>2, AdmitStep
<1>3. ASSUME NEW d \in Docs, NEW s \in Settings, Request(d, s) PROVE IInv'
  <2> DEFINE all == [e \in Docs |-> s]
  <2>1. NoneActive({d}) /\ Admit({d}, all)
    BY <1>3 DEF Request
  <2>2. all \in [Docs -> Settings]
    OBVIOUS
  <2> HIDE DEF all
  <2> QED BY <2>1, <2>2, AdmitStep
<1>4. ASSUME Reindex PROVE IInv'
  <2> DEFINE s == [d \in Docs |-> doc[d].settings]
  <2>1. NoneActive(Docs) /\ Admit(Docs, s)
    BY <1>4 DEF Reindex
  <2>2. s \in [Docs -> Settings]
    BY <1>1
  <2> HIDE DEF s
  <2> QED BY <2>1, <2>2, AdmitStep
<1> QED BY <1>2, <1>3, <1>4, RequestAgainStep DEF Gateway
-----------------------------------------------------------------------------

(* A claim: its token is newer than that of any earlier worker.            *)

LEMMA ExecuteStep ==
    ASSUME IInv, NEW w \in Workers, NEW j \in JobIds, Execute(w, j) PROVE IInv'
<1> DEFINE r == Running(j)
           x == [NoWork EXCEPT !.at = "admitted", !.job = j, !.token = job[j].attempts + 1]
<1>1. TypeOK /\ RowInv /\ LockInv /\ ReaderInv /\ WorkInv /\ SingleFlight /\ AskedInv
  BY InvParts
<1>2. UNCHANGED <<asked, doc, active, version, chunks, cleanup, commits, tasks, lock, reader>>
  BY DEF Execute, libraryVars
<1>3. job[j].status \in Active /\ job[j].attempts < MaxAttempts
  BY ClaimableActive DEF Execute
<1>4. job[j].attempts \in 0 .. MaxAttempts
  BY <1>1, RowParts
<1>5. /\ GoodRow(r) /\ r.status = "running" /\ r.attempts = job[j].attempts + 1
      /\ r.token = job[j].attempts + 1 /\ r.settings = job[j].settings
  BY <1>1, <1>3, RunningGood
<1>6. x.at = "admitted" /\ x.job = j /\ x.token = job[j].attempts + 1
  BY DEF NoWork
<1>7. x \in WorkType
  <2>1. job[j].attempts + 1 \in 0 .. MaxAttempts
    BY <1>3, <1>4, BoundAssumption
  <2> QED BY <2>1, NoWorkType DEF WorkType
<1>8. job' = [job EXCEPT ![j] = r] /\ work' = [work EXCEPT ![w] = x] /\ work[w] = NoWork
  BY DEF Execute
<1> HIDE DEF r, x
<1>9. /\ job' \in [JobIds -> RowType] /\ ValidJobs' /\ RowInv'
      /\ job'[j] = r /\ \A k \in JobIds \ {j} : job'[k] = job[k]
  BY <1>1, <1>5, <1>8, RowWritten
<1>10. work' \in [Workers -> WorkType] /\ work'[w] = x /\ OthersWork(w)
  BY <1>1, <1>7, <1>8, WorkWritten
<1>11. TypeOK'
  BY <1>1, <1>2, <1>9, <1>10 DEF TypeOK
<1>12. ReaderInv'
  BY <1>1, <1>2, ReaderSame
<1>13. LockInv'
  BY <1>1, <1>2, <1>6, <1>8, <1>10, NoWorkType, LockKept
<1>14. \A k \in JobIds :
         /\ job'[k].status = "none" <=> job[k].status = "none"
         /\ job'[k].status \in Active <=> job[k].status \in Active
         /\ job'[k].status = "succeeded" <=> job[k].status = "succeeded"
         /\ job'[k].status = "deleted" <=> job[k].status = "deleted"
         /\ job'[k].settings = job[k].settings
  BY <1>3, <1>5, <1>9, StatusParts
<1>15. AskedInv' /\ SingleFlight'
  BY <1>1, <1>2, <1>14 DEF AskedInv, SingleFlight, Newest
<1>16. ASSUME NEW v \in Workers \ {w}
       PROVE  /\ work'[v] = work[v] /\ (Busy(v)' <=> Busy(v)) /\ (Informed(v)' <=> Informed(v))
              /\ Informed(v) => Busy(v)
  BY <1>10 DEF OthersWork, Busy, Informed
<1>17. ~Informed(w)' /\ ~Busy(w)
  BY <1>6, <1>8, <1>10, NoWorkType DEF Busy, Informed
<1>18. ASSUME NEW v \in Workers \ {w}, Busy(v)
       PROVE  /\ work[v].job \in JobIds /\ work[v].token # NoToken
              /\ job[work[v].job].status # "none"
              /\ job[work[v].job].status = "deleted"
                 \/ work[v].token <= job[work[v].job].attempts
              /\ work[v].token \in 0 .. MaxAttempts
  BY <1>1, <1>18, WorkParts DEF WorkInv
<1>19. ASSUME NEW v \in Workers \ {w}, Busy(v), work[v].job = j
       PROVE  work[v].token # job[j].attempts + 1 /\ work[v].token <= job[j].attempts
  BY <1>3, <1>4, <1>18, <1>19, StatusParts
<1>20. WorkInv'
  <2>1. ASSUME NEW v \in Workers, Busy(v)'
        PROVE  /\ work'[v].job \in JobIds /\ work'[v].token # NoToken
               /\ job'[work'[v].job].status # "none"
               /\ \/ job'[work'[v].job].status = "deleted"
                  \/ work'[v].token <= job'[work'[v].job].attempts
    <3>1. CASE v = w
      BY <1>4, <1>5, <1>6, <1>9, <1>10, <3>1 DEF NoToken
    <3>2. CASE v # w /\ work[v].job # j
      BY <1>9, <1>16, <1>18, <2>1, <3>2
    <3>3. CASE v # w /\ work[v].job = j
      BY <1>4, <1>5, <1>9, <1>16, <1>18, <1>19, <2>1, <3>3
    <3> QED BY <3>1, <3>2, <3>3
  <2>2. \A v \in Workers :
           Informed(v)' => work'[v].seen \in [active : JobIds \cup {NoVersion}, doc : DocType]
    BY <1>1, <1>16, <1>17 DEF WorkInv
  <2> QED BY <2>1, <2>2 DEF WorkInv
<1>21. TokenInv'
  BY <1>6, <1>10, <1>16, <1>19, InvParts DEF TokenInv
<1>22. SeenInv' /\ ActiveIntact' /\ CleanupInv'
  BY <1>2, <1>16, <1>17, InvParts DEF SeenInv, ActiveIntact, CleanupInv
<1>23. OneResult'
  <2>1. ASSUME NEW k \in JobIds
        PROVE  /\ commits[k] = IF job'[k].status = "succeeded" THEN 1
                               ELSE IF job'[k].status = "deleted" THEN commits[k] ELSE 0
               /\ commits[k] <= 1
               /\ version[k].status # "none" => commits[k] = 1
    BY <1>14, InvParts DEF OneResult
  <2> QED BY <1>2, <2>1 DEF OneResult
<1>24. ASSUME NEW v \in Workers, Informed(v)', Holds(v)'
       PROVE  /\ v # w /\ Informed(v) /\ Holds(v) /\ work'[v] = work[v]
              /\ work[v].job \in JobIds
  <2>1. v # w /\ Informed(v) /\ Busy(v) /\ work'[v] = work[v] /\ work[v].job \in JobIds
    BY <1>16, <1>17, <1>18, <1>24
  <2>2. work[v].job # j
    BY <1>5, <1>9, <1>19, <1>24, <2>1 DEF Holds
  <2> QED BY <1>9, <1>24, <2>1, <2>2 DEF Holds
<1>25. LeakInv'
  BY <1>2, <1>24, InvParts DEF LeakInv, NothingLeaks
<1>26. SettingsInv'
  BY <1>2, <1>14, <1>24, InvParts DEF SettingsInv, BuiltAsAsked
<1> QED BY <1>9, <1>11, <1>12, <1>13, <1>15, <1>20, <1>21, <1>22, <1>23, <1>25, <1>26 DEF IInv

(* What a session learns is what holds then.                               *)
LEMMA LoadStep ==
    ASSUME IInv, NEW w \in Workers, Load(w) PROVE IInv'
<1> DEFINE seen == [active |-> active, doc |-> doc[DocOf(work[w].job)]]
           x == [work[w] EXCEPT !.at = "loaded", !.seen = seen]
<1>1. TypeOK /\ RowInv /\ LockInv /\ ReaderInv /\ WorkInv
  BY InvParts
<1>2. UNCHANGED <<job, asked, doc, active, version, chunks, cleanup, commits, tasks, lock, reader>>
  BY DEF Load, libraryVars
<1>3. work[w] \in WorkType /\ work[w].at = "admitted" /\ Busy(w) /\ work[w].job \in JobIds
  BY <1>1, WorkParts DEF Load, Busy, WorkInv
<1>4. seen \in [active : JobIds \cup {NoVersion}, doc : DocType]
  BY <1>1, <1>3, JobParts DEF TypeOK
<1>5. /\ seen.active = active /\ seen.doc = doc[DocOf(work[w].job)]
  OBVIOUS
<1>6. work' = [work EXCEPT ![w] = x]
  BY DEF Load
<1> HIDE DEF seen
<1>7. /\ x \in WorkType /\ x.at = "loaded" /\ x.job = work[w].job
      /\ x.token = work[w].token /\ x.seen = seen
  BY <1>3, <1>4 DEF WorkType
<1> HIDE DEF x
<1>8. work' \in [Workers -> WorkType] /\ work'[w] = x /\ OthersWork(w)
  BY <1>1, <1>6, <1>7, WorkWritten
<1>9. TypeOK' /\ RowInv' /\ ReaderInv' /\ LockInv'
  BY <1>1, <1>2, <1>3, <1>7, <1>8, RowsSame, ReaderSame, LockKept DEF TypeOK
<1>10. ASSUME NEW v \in Workers
       PROVE  /\ Busy(v)' <=> Busy(v)
              /\ work'[v].job = work[v].job /\ work'[v].token = work[v].token
              /\ Holds(v)' <=> Holds(v)
              /\ v # w => work'[v] = work[v] /\ (Informed(v)' <=> Informed(v))
  BY <1>2, <1>3, <1>7, <1>8 DEF OthersWork, Busy, Informed, Holds
<1>11. AskedInv' /\ SingleFlight' /\ OneResult' /\ ActiveIntact' /\ CleanupInv'
  BY <1>2, InvParts DEF AskedInv, SingleFlight, Newest, OneResult, ActiveIntact, CleanupInv
<1>12. WorkInv'
  <2>1. \A v \in Workers :
           Informed(v)' => work'[v].seen \in [active : JobIds \cup {NoVersion}, doc : DocType]
    BY <1>1, <1>4, <1>7, <1>8, <1>10 DEF WorkInv
  <2> QED BY <1>1, <1>2, <1>10, <2>1 DEF WorkInv
<1>13. TokenInv'
  BY <1>10, InvParts DEF TokenInv
<1>14. SeenInv'
  <2>1. active # NoVersion => version[active].status # "none"
    BY InvParts DEF ActiveIntact
  <2> QED BY <1>2, <1>5, <1>7, <1>8, <1>10, <2>1, InvParts DEF SeenInv
<1>15. LeakInv'
  BY <1>2, <1>5, <1>7, <1>8, <1>10, InvParts DEF LeakInv, NothingLeaks
<1>16. SettingsInv'
  <2> SUFFICES ASSUME Readers = {} PROVE SettingsInv'
    BY DEF SettingsInv
  <2>1. Holds(w) => doc[DocOf(work[w].job)].settings = job[work[w].job].settings
    BY <1>3, InvParts, StatusParts DEF SettingsInv, Holds
  <2> QED BY <1>2, <1>5, <1>7, <1>8, <1>10, <2>1, InvParts DEF SettingsInv, BuiltAsAsked
<1> QED BY <1>9, <1>11, <1>12, <1>13, <1>14, <1>15, <1>16 DEF IInv

(* The cleanup takes what has been replaced.                               *)
LEMMA CleanupStep ==
    ASSUME IInv, NEW v \in JobIds, Cleanup(v) PROVE IInv'
<1>1. TypeOK /\ RowInv /\ LockInv /\ ReaderInv /\ CleanupInv
  BY InvParts
<1>2. UNCHANGED <<job, asked, doc, active, version, commits, tasks, work, lock, reader>>
  BY DEF Cleanup
<1>3. v \in cleanup /\ v # active /\ cleanup' = cleanup \ {v} /\ chunks' = chunks \ {v}
  BY <1>1 DEF Cleanup, CleanupInv
<1>4. TypeOK'
  BY <1>1, <1>2, <1>3 DEF TypeOK, ValidJobs
<1>5. RowInv' /\ ReaderInv' /\ LockInv'
  BY <1>1, <1>2, RowsSame, ReaderSame, LockSame
<1>6. AskedInv' /\ SingleFlight' /\ OneResult' /\ WorkInv' /\ TokenInv' /\ SeenInv'
  BY <1>2, InvParts
     DEF AskedInv, SingleFlight, Newest, OneResult, WorkInv, TokenInv, SeenInv, Busy, Informed
<1>7. ActiveIntact' /\ CleanupInv'
  BY <1>2, <1>3, InvParts DEF ActiveIntact, CleanupInv
<1>8. \A w \in Workers : (Holds(w)' <=> Holds(w)) /\ (Informed(w)' <=> Informed(w))
  BY <1>2 DEF Holds, Busy, Informed
<1>9. LeakInv' /\ SettingsInv'
  BY <1>2, <1>3, <1>8, InvParts DEF LeakInv, NothingLeaks, SettingsInv, BuiltAsAsked
<1> QED BY <1>4, <1>5, <1>6, <1>7, <1>9 DEF IInv
-----------------------------------------------------------------------------

(* The transactions that end a job well.                                   *)

(* What publishing and finishing without a change have in common.          *)
Commit(w, result) ==
    LET j == work[w].job
    IN  /\ MayCommit(w)
        /\ job' = [job EXCEPT ![j] = Succeeded(j, result)]
        /\ doc' = [doc EXCEPT ![DocOf(j)] = [status |-> "completed",
                                             settings |-> work[w].seen.doc.settings]]
        /\ commits' = [commits EXCEPT ![j] = @ + 1]
        /\ Return(w)
        /\ UNCHANGED <<asked, tasks, reader>>

(* The job was the worker's own, had no result yet and is over.            *)
LEMMA CommitRows ==
    ASSUME IInv, NEW w \in Workers, NEW result \in JobIds, Commit(w, result)
    PROVE  LET j == work[w].job
           IN  /\ j \in JobIds /\ job[j].status = "running" /\ Informed(w) /\ Holds(w)
               /\ work[w].seen \in [active : JobIds \cup {NoVersion}, doc : DocType]
               /\ commits[j] = 0 /\ version[j].status = "none"
               /\ job' \in [JobIds -> RowType] /\ ValidJobs' /\ RowInv'
               /\ job'[j].status = "succeeded" /\ job'[j].settings = job[j].settings
               /\ job'[j].attempts = job[j].attempts
               /\ \A k \in JobIds \ {j} : job'[k] = job[k]
               /\ commits' \in [JobIds -> Nat] /\ commits'[j] = 1
               /\ \A k \in JobIds \ {j} : commits'[k] = commits[k]
               /\ doc' \in [Docs -> DocType]
               /\ \A d \in Docs \ {DocOf(j)} : doc'[d] = doc[d]
               /\ work' \in [Workers -> WorkType] /\ work'[w] = NoWork /\ OthersWork(w)
               /\ lock' \in Workers \cup {Free} /\ LockInv' /\ ReaderInv'
<1> DEFINE j == work[w].job
           r == Succeeded(j, result)
<1>1. TypeOK /\ RowInv /\ LockInv /\ ReaderInv
  BY InvParts
<1>2. work[w].at = "locked" /\ OwnsJob(w)
  BY DEF Commit, MayCommit
<1>3. /\ j \in JobIds /\ job[j].status = "running" /\ Informed(w) /\ Holds(w)
      /\ work[w].seen \in [active : JobIds \cup {NoVersion}, doc : DocType]
  BY <1>2, InvParts DEF WorkInv, Informed, Busy, OwnsJob, Holds
<1>4. commits[j] = 0 /\ version[j].status = "none"
  BY <1>3, InvParts DEF OneResult
<1>5. /\ GoodRow(r) /\ r.status = "succeeded" /\ r.settings = job[j].settings
      /\ r.attempts = job[j].attempts
  BY <1>1, <1>3, SucceededGood
<1>6. job' = [job EXCEPT ![j] = r]
  BY DEF Commit
<1> HIDE DEF r
<1>7. /\ job' \in [JobIds -> RowType] /\ ValidJobs' /\ RowInv'
      /\ job'[j] = r /\ \A k \in JobIds \ {j} : job'[k] = job[k]
  BY <1>1, <1>3, <1>5, <1>6, RowWritten
<1>8. /\ commits' \in [JobIds -> Nat] /\ commits'[j] = 1
      /\ \A k \in JobIds \ {j} : commits'[k] = commits[k]
  BY <1>1, <1>3, <1>4 DEF Commit, TypeOK
<1>9. doc' \in [Docs -> DocType] /\ \A d \in Docs \ {DocOf(j)} : doc'[d] = doc[d]
  BY <1>1, <1>3, JobParts DEF Commit, TypeOK, DocType
<1>10. /\ work' \in [Workers -> WorkType] /\ work'[w] = NoWork /\ OthersWork(w)
       /\ LockInv' /\ lock' \in Workers \cup {Free}
  BY <1>1, Returned DEF Commit
<1>11. ReaderInv'
  BY <1>1, ReaderSame DEF Commit
<1> QED BY <1>3, <1>4, <1>5, <1>7, <1>8, <1>9, <1>10, <1>11

(* Nobody else is disturbed: no other session holds the claim, and no      *)
(* other job of the document was waiting.                                  *)
LEMMA CommitOthers ==
    ASSUME IInv, NEW w \in Workers, NEW result \in JobIds, Commit(w, result)
    PROVE  LET j == work[w].job
           IN  /\ \A k \in JobIds : job'[k].status \in Active =>
                     /\ k # j /\ job'[k] = job[k] /\ DocOf(k) # DocOf(j)
               /\ \A v \in Workers : Busy(v)' =>
                     /\ v # w /\ Busy(v) /\ work'[v] = work[v] /\ work[v].job \in JobIds
                     /\ Informed(v)' <=> Informed(v)
               /\ \A v \in Workers : Informed(v)' => Busy(v)'
               /\ \A v \in Workers : Busy(v)' /\ Holds(v)' =>
                     /\ Holds(v) /\ job'[work[v].job] = job[work[v].job]
                     /\ DocOf(work[v].job) # DocOf(j)
<1> DEFINE j == work[w].job
<1>1. /\ j \in JobIds /\ job[j].status = "running"
      /\ job'[j].status = "succeeded" /\ \A k \in JobIds \ {j} : job'[k] = job[k]
      /\ work'[w] = NoWork /\ OthersWork(w)
  BY CommitRows
<1>2. ASSUME NEW k \in JobIds, job'[k].status \in Active
      PROVE  k # j /\ job'[k] = job[k] /\ DocOf(k) # DocOf(j)
  <2>1. k # j /\ job'[k] = job[k] /\ job[k].status \in Active /\ job[j].status \in Active
    BY <1>1, <1>2, StatusParts
  <2>2. k = Newest(DocOf(k)) /\ j = Newest(DocOf(j))
    BY <1>1, <2>1, InvParts DEF SingleFlight
  <2> QED BY <2>1, <2>2
<1>3. ASSUME NEW v \in Workers, Busy(v)'
      PROVE  /\ v # w /\ Busy(v) /\ work'[v] = work[v] /\ work[v].job \in JobIds
             /\ Informed(v)' <=> Informed(v)
  <2>1. v # w
    BY <1>1, <1>3, NoWorkType DEF Busy
  <2>2. work'[v] = work[v]
    BY <1>1, <2>1 DEF OthersWork
  <2>3. Busy(v) /\ (Informed(v)' <=> Informed(v))
    BY <1>3, <2>2 DEF Busy, Informed
  <2> QED BY <2>1, <2>2, <2>3, InvParts DEF WorkInv
<1>4. \A v \in Workers : Informed(v)' => Busy(v)'
  BY DEF Informed, Busy
<1>5. ASSUME NEW v \in Workers, Busy(v)', Holds(v)'
      PROVE  /\ Holds(v) /\ job'[work[v].job] = job[work[v].job]
             /\ DocOf(work[v].job) # DocOf(j)
  <2>1. Busy(v) /\ work'[v] = work[v] /\ work[v].job \in JobIds
    BY <1>3, <1>5
  <2>2. job'[work[v].job].status = "running" /\ job'[work[v].job].token = work[v].token
    BY <1>5, <2>1 DEF Holds
  <2>3. job'[work[v].job] = job[work[v].job] /\ DocOf(work[v].job) # DocOf(j)
    BY <1>2, <2>1, <2>2, StatusParts
  <2> QED BY <2>1, <2>2, <2>3 DEF Holds
<1> QED BY <1>2, <1>3, <1>4, <1>5

LEMMA CommitInv ==
    ASSUME IInv, NEW w \in Workers, NEW result \in JobIds, Commit(w, result)
    PROVE  AskedInv' /\ SingleFlight' /\ WorkInv' /\ TokenInv'
<1> DEFINE j == work[w].job
<1>1. /\ j \in JobIds /\ job[j].status = "running"
      /\ job'[j].status = "succeeded" /\ \A k \in JobIds \ {j} : job'[k] = job[k]
      /\ job'[j].attempts = job[j].attempts
  BY CommitRows
<1>2. asked' = asked
  BY DEF Commit
<1>3. AskedInv'
  BY <1>1, <1>2, InvParts DEF AskedInv
<1>4. SingleFlight'
  BY <1>2, CommitOthers, InvParts DEF SingleFlight, Newest
<1>5. \A k \in JobIds : /\ job'[k].status = "none" <=> job[k].status = "none"
                        /\ job'[k].status = "deleted" <=> job[k].status = "deleted"
                        /\ job'[k].attempts = job[k].attempts
  BY <1>1
<1> HIDE DEF j
<1>6. WorkInv'
  <2>1. ASSUME NEW v \in Workers, Busy(v)'
        PROVE  /\ work'[v].job \in JobIds /\ work'[v].token # NoToken
               /\ job'[work'[v].job].status # "none"
               /\ \/ job'[work'[v].job].status = "deleted"
                  \/ work'[v].token <= job'[work'[v].job].attempts
    BY <1>5, <2>1, CommitOthers, InvParts DEF WorkInv
  <2>2. ASSUME NEW v \in Workers, Informed(v)'
        PROVE  work'[v].seen \in [active : JobIds \cup {NoVersion}, doc : DocType]
    BY <2>2, CommitOthers, InvParts DEF WorkInv
  <2> QED BY <2>1, <2>2 DEF WorkInv
<1>7. TokenInv'
  BY CommitOthers, InvParts DEF TokenInv
<1> QED BY <1>3, <1>4, <1>6, <1>7

LEMMA NoVersionIsNoJob == NoVersion \notin JobIds
BY DEF NoVersion, JobIds

LEMMA PublishStep ==
    ASSUME IInv, NEW w \in Workers, Publish(w) PROVE IInv'
<1> DEFINE j == work[w].job
           seen == work[w].seen
<1>0. work[w].job \in JobIds
  BY InvParts DEF Publish, MayCommit, WorkInv, Busy
<1>1. Commit(w, j)
  BY DEF Publish, Commit
<1>2. /\ job[j].status = "running" /\ Informed(w) /\ Holds(w)
      /\ seen \in [active : JobIds \cup {NoVersion}, doc : DocType]
      /\ commits[j] = 0 /\ version[j].status = "none"
      /\ job' \in [JobIds -> RowType] /\ ValidJobs' /\ RowInv'
      /\ job'[j].status = "succeeded" /\ job'[j].settings = job[j].settings
      /\ \A k \in JobIds \ {j} : job'[k] = job[k]
      /\ commits' \in [JobIds -> Nat] /\ commits'[j] = 1
      /\ \A k \in JobIds \ {j} : commits'[k] = commits[k]
      /\ doc' \in [Docs -> DocType]
      /\ \A d \in Docs \ {DocOf(j)} : doc'[d] = doc[d]
      /\ work' \in [Workers -> WorkType] /\ work'[w] = NoWork /\ OthersWork(w)
      /\ lock' \in Workers \cup {Free} /\ LockInv' /\ ReaderInv'
  BY <1>0, <1>1, CommitRows
<1>3. AskedInv' /\ SingleFlight' /\ WorkInv' /\ TokenInv'
  BY <1>0, <1>1, CommitInv
<1>4. /\ version' = Finalized(w) /\ active' = j /\ chunks' = chunks \cup {j}
      /\ cleanup' = cleanup \cup Previous(w) /\ UNCHANGED <<asked, tasks, reader>>
  BY DEF Publish
<1>5. /\ \A k \in JobIds : job'[k].status \in Active =>
             k # j /\ job'[k] = job[k] /\ DocOf(k) # DocOf(j)
      /\ \A v \in Workers : Informed(v)' =>
             v # w /\ Informed(v) /\ work'[v] = work[v] /\ work[v].job \in JobIds
      /\ \A v \in Workers : Informed(v)' /\ Holds(v)' =>
             /\ Holds(v) /\ job'[work[v].job] = job[work[v].job]
             /\ DocOf(work[v].job) # DocOf(j)
  BY <1>0, <1>1, CommitOthers
<1>6. Previous(w) \subseteq JobIds /\ j \in JobIds
  BY <1>0, <1>2 DEF Previous
<1> HIDE DEF j, seen
<1>7. \A v \in Previous(w) : version[v].status # "none" /\ commits[v] = 1 /\ v # j
  <2>1. \A v \in Previous(w) : version[v].status # "none"
    BY <1>2, InvParts DEF Previous, SeenInv
  <2> QED BY <1>2, <1>6, <2>1, InvParts DEF OneResult
<1>8. /\ version'[j] = [status |-> "ready", settings |-> seen.doc.settings]
      /\ \A v \in Previous(w) : version'[v] = [version[v] EXCEPT !.status = "superseded"]
      /\ \A v \in JobIds : v # j /\ v \notin Previous(w) => version'[v] = version[v]
  BY <1>4, <1>6, <1>7 DEF Finalized, j, seen
<1>9. /\ version \in [JobIds -> [status : {"none", "ready", "superseded"},
                                 settings : Settings \cup {NoSettings}]]
      /\ seen.doc.settings \in Settings
  BY <1>2, InvParts DEF TypeOK, DocType
<1>10. /\ \A v \in Previous(w) : version'[v].status = "superseded"
                                 /\ version'[v].settings = version[v].settings
       /\ version'[j].status = "ready" /\ version'[j].settings = seen.doc.settings
       /\ version' \in [JobIds -> [status : {"none", "ready", "superseded"},
                                   settings : Settings \cup {NoSettings}]]
  <2> DEFINE type == [status : {"none", "ready", "superseded"},
                      settings : Settings \cup {NoSettings}]
  <2>1. version'[j].status = "ready" /\ version'[j].settings = seen.doc.settings
        /\ version'[j] \in type
    BY <1>8, <1>9
  <2>2. ASSUME NEW v \in Previous(w)
        PROVE  /\ version'[v].status = "superseded" /\ version'[v].settings = version[v].settings
               /\ version'[v] \in type
    <3>1. version[v] \in type /\ version'[v] = [version[v] EXCEPT !.status = "superseded"]
      BY <1>6, <1>8, <1>9
    <3> QED BY <3>1
  <2>3. ASSUME NEW v \in JobIds, v # j, v \notin Previous(w) PROVE version'[v] \in type
    BY <1>8, <1>9, <2>3
  <2> HIDE DEF type
  <2>4. \A v \in JobIds : version'[v] \in type
    BY <2>1, <2>2, <2>3
  <2>5. version' = [v \in JobIds |-> version'[v]]
    BY <1>4 DEF Finalized
  <2>6. version' \in [JobIds -> type]
    BY <2>4, <2>5
  <2> QED BY <2>1, <2>2, <2>6 DEF type
<1>11. TypeOK'
  <2>1. chunks' \subseteq JobIds /\ cleanup' \subseteq JobIds /\ active' \in JobIds \cup {NoVersion}
    BY <1>4, <1>6, InvParts DEF TypeOK
  <2> QED BY <1>2, <1>4, <1>10, <2>1, InvParts DEF TypeOK
<1>12. \A v \in JobIds : version[v].status # "none" => version'[v].status # "none"
  BY <1>8, <1>10
<1>13. SeenInv'
  <2>1. ASSUME NEW v \in Workers, Informed(v)', work'[v].seen.active # NoVersion
        PROVE  version'[work'[v].seen.active].status # "none"
    <3>1. Informed(v) /\ work'[v] = work[v] /\ work[v].seen.active \in JobIds
      BY <1>5, <2>1, InvParts DEF WorkInv
    <3> QED BY <1>12, <2>1, <3>1, InvParts DEF SeenInv
  <2> QED BY <2>1 DEF SeenInv
<1>14. OneResult'
  <2>1. ASSUME NEW k \in JobIds
        PROVE  /\ commits'[k] = IF job'[k].status = "succeeded" THEN 1
                                ELSE IF job'[k].status = "deleted" THEN commits'[k] ELSE 0
               /\ commits'[k] <= 1
               /\ version'[k].status # "none" => commits'[k] = 1
    <3>1. CASE k = j
      BY <1>2, <3>1 DEF j
    <3>2. CASE k # j
      <4>1. job'[k] = job[k] /\ commits'[k] = commits[k]
        BY <1>2, <3>2 DEF j
      <4>2. version'[k].status # "none" => commits[k] = 1
        BY <1>7, <1>8, <3>2, InvParts DEF OneResult
      <4> QED BY <4>1, <4>2, InvParts DEF OneResult
    <3> QED BY <3>1, <3>2
  <2> QED BY <2>1 DEF OneResult
<1>15. ActiveIntact'
  BY <1>4, <1>10 DEF ActiveIntact
<1>16. CleanupInv'
  <2>1. ASSUME NEW v \in cleanup PROVE version'[v].status = "superseded"
    <3>1. v \in JobIds /\ version[v].status = "superseded" /\ v # j
      BY <1>2, InvParts DEF TypeOK, CleanupInv, j
    <3> QED BY <1>8, <1>10, <3>1
  <2> QED BY <1>4, <1>10, <2>1 DEF CleanupInv
<1>17. LeakInv'
  <2> SUFFICES ASSUME OneDocument PROVE LeakInv'
    BY DEF LeakInv, OneDocument
  <2>1. seen.active = active
    BY <1>2, InvParts DEF LeakInv, seen
  <2>2. \A v \in chunks : v = active \/ v \in cleanup
    BY InvParts DEF LeakInv, NothingLeaks
  <2>3. active \in chunks => active \in Previous(w)
    BY <2>1, NoVersionIsNoJob, InvParts DEF Previous, seen, TypeOK
  <2>4. NothingLeaks'
    BY <1>4, <2>2, <2>3 DEF NothingLeaks
  <2>5. \A v \in Workers : ~(Informed(v)' /\ Holds(v)')
    BY <1>5, <1>6, JobParts DEF OneDocument
  <2> QED BY <2>4, <2>5 DEF LeakInv
<1>18. SettingsInv'
  <2> SUFFICES ASSUME Readers = {} PROVE SettingsInv'
    BY DEF SettingsInv
  <2>1. seen.doc.settings = job[j].settings
    BY <1>2, InvParts DEF SettingsInv, seen, j
  <2>2. BuiltAsAsked'
    <3>1. ASSUME NEW k \in JobIds, version'[k].status # "none", job'[k].status = "succeeded"
          PROVE  version'[k].settings = job'[k].settings
      <4>1. CASE k = j
        BY <1>2, <1>10, <2>1, <4>1 DEF j
      <4>2. CASE k # j
        <5>1. job'[k] = job[k]
          BY <1>2, <4>2 DEF j
        <5>2. version[k].status # "none" /\ version'[k].settings = version[k].settings
          BY <1>7, <1>8, <1>10, <3>1, <4>2
        <5> QED BY <3>1, <5>1, <5>2, InvParts DEF SettingsInv, BuiltAsAsked
      <4> QED BY <4>1, <4>2
    <3> QED BY <3>1 DEF BuiltAsAsked
  <2>3. ASSUME NEW k \in JobIds, job'[k].status \in Active
        PROVE  doc'[DocOf(k)].settings = job'[k].settings
    <3>1. job'[k] = job[k] /\ DocOf(k) # DocOf(j)
      BY <1>5, <2>3
    <3>2. doc'[DocOf(k)] = doc[DocOf(k)]
      BY <1>2, <3>1, JobParts DEF j
    <3> QED BY <2>3, <3>1, <3>2, InvParts DEF SettingsInv
  <2>4. \A v \in Workers :
          Informed(v)' /\ Holds(v)' => work'[v].seen.doc.settings = job'[work'[v].job].settings
    BY <1>5, InvParts DEF SettingsInv
  <2> QED BY <2>2, <2>3, <2>4 DEF SettingsInv
<1> QED BY <1>2, <1>3, <1>11, <1>13, <1>14, <1>15, <1>16, <1>17, <1>18 DEF IInv

LEMMA FinishUnchangedStep ==
    ASSUME IInv, NEW w \in Workers, FinishUnchanged(w) PROVE IInv'
<1> DEFINE j == work[w].job
           result == work[w].seen.active
<1>0. j \in JobIds /\ result \in JobIds
  BY InvParts DEF FinishUnchanged, Unchanged, MayCommit, WorkInv, Busy, Informed
<1>1. Commit(w, result)
  BY DEF FinishUnchanged, Commit
<1>2. /\ job[j].status = "running" /\ version[j].status = "none"
      /\ job' \in [JobIds -> RowType] /\ ValidJobs' /\ RowInv'
      /\ job'[j].status = "succeeded" /\ job'[j].settings = job[j].settings
      /\ \A k \in JobIds \ {j} : job'[k] = job[k]
      /\ commits' \in [JobIds -> Nat] /\ commits'[j] = 1
      /\ \A k \in JobIds \ {j} : commits'[k] = commits[k]
      /\ doc' \in [Docs -> DocType]
      /\ \A d \in Docs \ {DocOf(j)} : doc'[d] = doc[d]
      /\ work' \in [Workers -> WorkType]
      /\ lock' \in Workers \cup {Free} /\ LockInv' /\ ReaderInv'
  BY <1>0, <1>1, CommitRows
<1>3. AskedInv' /\ SingleFlight' /\ WorkInv' /\ TokenInv'
  BY <1>0, <1>1, CommitInv
<1>4. UNCHANGED <<asked, active, version, chunks, cleanup, tasks, reader>>
  BY DEF FinishUnchanged
<1>5. /\ \A k \in JobIds : job'[k].status \in Active =>
             k # j /\ job'[k] = job[k] /\ DocOf(k) # DocOf(j)
      /\ \A v \in Workers : Informed(v)' =>
             v # w /\ Informed(v) /\ work'[v] = work[v] /\ work[v].job \in JobIds
      /\ \A v \in Workers : Informed(v)' /\ Holds(v)' =>
             Holds(v) /\ job'[work[v].job] = job[work[v].job]
  BY <1>0, <1>1, CommitOthers
<1> HIDE DEF j, result
<1>6. TypeOK'
  BY <1>2, <1>4, InvParts DEF TypeOK
<1>7. SeenInv' /\ ActiveIntact' /\ CleanupInv'
  BY <1>4, <1>5, InvParts DEF SeenInv, ActiveIntact, CleanupInv
<1>8. OneResult'
  <2>1. ASSUME NEW k \in JobIds
        PROVE  /\ commits'[k] = IF job'[k].status = "succeeded" THEN 1
                                ELSE IF job'[k].status = "deleted" THEN commits'[k] ELSE 0
               /\ commits'[k] <= 1
               /\ version[k].status # "none" => commits'[k] = 1
    <3>1. CASE k = j
      BY <1>2, <3>1
    <3>2. CASE k # j
      BY <1>2, <3>2, InvParts DEF OneResult
    <3> QED BY <3>1, <3>2
  <2> QED BY <1>4, <2>1 DEF OneResult
<1>9. LeakInv'
  BY <1>4, <1>5, InvParts DEF LeakInv, NothingLeaks
<1>10. SettingsInv'
  <2> SUFFICES ASSUME Readers = {} PROVE SettingsInv'
    BY DEF SettingsInv
  <2>1. BuiltAsAsked'
    BY <1>2, <1>4, InvParts DEF SettingsInv, BuiltAsAsked
  <2>2. ASSUME NEW k \in JobIds, job'[k].status \in Active
        PROVE  doc'[DocOf(k)].settings = job'[k].settings
    <3>1. job'[k] = job[k] /\ DocOf(k) # DocOf(j)
      BY <1>5, <2>2
    <3>2. doc'[DocOf(k)] = doc[DocOf(k)]
      BY <1>2, <3>1, JobParts
    <3> QED BY <2>2, <3>1, <3>2, InvParts DEF SettingsInv
  <2>3. \A v \in Workers :
          Informed(v)' /\ Holds(v)' => work'[v].seen.doc.settings = job'[work'[v].job].settings
    BY <1>5, InvParts DEF SettingsInv
  <2> QED BY <2>1, <2>2, <2>3 DEF SettingsInv
<1> QED BY <1>2, <1>3, <1>6, <1>7, <1>8, <1>9, <1>10 DEF IInv

-----------------------------------------------------------------------------

(* The invariant.                                                          *)

LEMMA InitInv ==
    ASSUME Init PROVE IInv
<1>1. /\ \A j \in JobIds : job[j] = NoRow /\ commits[j] = 0 /\ version[j].status = "none"
      /\ \A d \in Docs : asked[d] = 0
      /\ \A w \in Workers : work[w] = NoWork
      /\ \A r \in Readers : reader[r] = NoReading
      /\ active = NoVersion /\ chunks = {} /\ cleanup = {} /\ tasks = {} /\ lock = Free
  BY DEF Init
<1>2. NoRow.status = "none" /\ NoRow.attempts = 0 /\ "none" \notin Active
  BY StatusParts DEF NoRow
<1>3. TypeOK
  <2>1. ValidJobs /\ job \in [JobIds -> RowType]
    BY NoRowGood DEF Init, ValidJobs, GoodRow, ValidRow
  <2>2. doc \in [Docs -> DocType] /\ asked \in [Docs -> 0 .. MaxJobs]
        /\ commits \in [JobIds -> Nat]
    BY BoundAssumption DEF Init, DocType
  <2>3. version \in [JobIds -> [status : {"none", "ready", "superseded"},
                                settings : Settings \cup {NoSettings}]]
    BY DEF Init
  <2>4. work \in [Workers -> WorkType]
    BY NoWorkType DEF Init
  <2>5. reader \in [Readers -> [at : {"idle", "read", "judged"}, doc : Docs \cup {<<>>},
                                settings : Settings \cup {NoSettings},
                                verdict : {"none", "completed", "failed"}]]
    BY DEF Init, NoReading
  <2> QED BY <1>1, <2>1, <2>2, <2>3, <2>4, <2>5 DEF TypeOK
<1>4. RowInv /\ SingleFlight /\ OneResult
  BY <1>1, <1>2, StatusParts DEF RowInv, SingleFlight, OneResult
<1>5. AskedInv
  BY <1>1, <1>2, JobParts DEF AskedInv
<1>6. ReaderInv
  BY <1>1 DEF ReaderInv, NoReading
<1>7. \A w \in Workers : ~Busy(w) /\ ~Informed(w) /\ work[w].at # "locked"
  BY <1>1, NoWorkType DEF Busy, Informed
<1>8. WorkInv /\ TokenInv /\ SeenInv
  BY <1>7 DEF WorkInv, TokenInv, SeenInv
<1>9. LockInv
  BY <1>1, <1>7, FreeAssumption DEF LockInv
<1>10. ActiveIntact /\ CleanupInv /\ LeakInv
  BY <1>1, <1>7 DEF ActiveIntact, CleanupInv, LeakInv, NothingLeaks
<1>11. SettingsInv
  BY <1>1, <1>2, <1>7 DEF SettingsInv, BuiltAsAsked
<1> QED BY <1>3, <1>4, <1>5, <1>6, <1>8, <1>9, <1>10, <1>11 DEF IInv

LEMMA StutterStep ==
    ASSUME IInv, UNCHANGED vars PROVE IInv'
<1>1. UNCHANGED <<job, asked, doc, libraryVars, tasks, work, lock, reader>>
  BY DEF vars, libraryVars
<1>2. TypeOK'
  BY <1>1, InvParts DEF TypeOK, ValidJobs, libraryVars
<1>3. Quiet
  BY <1>1, SameSteady, SameFading DEF Quiet, libraryVars
<1> QED BY <1>1, <1>2, <1>3, InvParts, RowsSame, ReaderSame, LockSame, QuietStep

LEMMA WorkerStep ==
    ASSUME IInv, NEW w \in Workers, Worker(w) PROVE IInv'
<1>1. CASE LeaseLost(w)
  BY <1>1, ReturnStep DEF LeaseLost
<1>2. CASE Crash(w)
  BY <1>2, ReturnStep DEF Crash
<1>3. CASE Run(w)
  BY <1>1, <1>3, LoadStep, LockScopeStep, PublishStep, FinishUnchangedStep, RaiseStep,
     FinishFailureStep DEF Run
<1> QED BY <1>2, <1>3, ExecuteStep, HeartbeatStep DEF Worker

LEMMA NextInv ==
    ASSUME IInv, Next PROVE IInv'
<1>1. CASE Delivery
  BY <1>1, ExecuteCancelledStep, ExecuteExhaustedStep DEF Delivery
<1>2. CASE Recovery
  BY <1>2, RecoverStep, DeleteTerminalStep, CleanupStep DEF Recovery
<1>3. ASSUME NEW r \in Readers, Status(r) PROVE IInv'
  BY <1>3, StatusReadStep, StatusJudgeStep, StatusWriteStep DEF Status
<1> QED BY <1>1, <1>2, <1>3, GatewayStep, TickStep, WorkerStep DEF Next

(* The inductive invariant holds in every reachable state.                 *)
THEOREM Invariance == Spec => []IInv
<1>1. Init => IInv
  BY InitInv
<1>2. IInv /\ [Next]_vars => IInv'
  BY NextInv, StutterStep
<1> QED BY <1>1, <1>2, PTL DEF Spec

(* Rows, documents, versions and runs stay in their types, and every row   *)
(* satisfies the table's CHECK constraints.                                *)
THEOREM TypeCorrect == Spec => []TypeOK
<1>1. IInv => TypeOK
  BY DEF IInv
<1> QED BY <1>1, Invariance, PTL

(* Whatever requests, redrives, reindexings, deliveries and recoveries     *)
(* meet, a document never has two jobs that are not over.                  *)
THEOREM SingleFlightHolds == Spec => []SingleFlight
<1>1. IInv => SingleFlight
  BY DEF IInv
<1> QED BY <1>1, Invariance, PTL

(* However often a job is delivered, claimed, lost and recovered, its      *)
(* result is committed once at most.                                       *)
THEOREM OneResultHolds == Spec => []OneResult
<1>1. IInv => OneResult
  BY DEF IInv
<1> QED BY <1>1, Invariance, PTL

(* No order of publications and cleanups takes the chunks of the version   *)
(* that retrieval reads.                                                   *)
THEOREM ActiveIntactHolds == Spec => []ActiveIntact
<1>1. IInv => ActiveIntact
  BY DEF IInv
<1> QED BY <1>1, Invariance, PTL

(* In a base of one document every version that is replaced is due for     *)
(* cleanup; with two documents it need not be.                             *)
THEOREM NothingLeaksAlone ==
    ASSUME OneDocument PROVE Spec => []NothingLeaks
<1>1. IInv => NothingLeaks
  BY OneDocument DEF IInv, LeakInv
<1> QED BY <1>1, Invariance, PTL

(* As long as no status request writes back what it has read before, a     *)
(* version is built from the settings its job was admitted with.           *)
THEOREM BuiltAsAskedUnread ==
    ASSUME Readers = {} PROVE Spec => []BuiltAsAsked
<1>1. IInv => BuiltAsAsked
  BY Readers = {} DEF IInv, SettingsInv
<1> QED BY <1>1, Invariance, PTL
-----------------------------------------------------------------------------

(* What no step does to a row.                                             *)

(* A row that is over stays, and attempts are never taken back.            *)
Fenced(j) ==
    /\ job[j].status \in Terminal => job'[j] = job[j] \/ job'[j].status = "deleted"
    /\ job'[j].attempts < job[j].attempts => job'[j].status = "deleted"

(* A claim whose lease lasts is given up by its worker alone.              *)
Protected(j) ==
    job[j].lease > 0 /\ job'[j].token # job[j].token =>
        \E w \in Workers : /\ work[w].job = j /\ work[w].token = job[j].token
                           /\ work'[w] # work[w]

LEMMA SameRow ==
    ASSUME TypeOK, RowInv, NEW j \in JobIds, job'[j] = job[j] PROVE Fenced(j) /\ Protected(j)
<1>1. job[j].attempts \in 0 .. MaxAttempts
  BY RowParts
<1> QED BY <1>1, BoundAssumption DEF Fenced, Protected

LEMMA OneRow ==
    ASSUME TypeOK, RowInv, NEW k \in JobIds, NEW r, job' = [job EXCEPT ![k] = r],
           job[k].status \in Active, r.attempts \in Nat, r.attempts >= job[k].attempts,
           \/ ~(job[k].lease > 0) \/ r.token = job[k].token
           \/ \E w \in Workers : /\ work[w].job = k /\ work[w].token = job[k].token
                                 /\ work'[w] # work[w]
    PROVE  \A j \in JobIds : Fenced(j) /\ Protected(j)
<1>1. job'[k] = r /\ \A j \in JobIds \ {k} : job'[j] = job[j]
  BY DEF TypeOK
<1>2. job[k].attempts \in 0 .. MaxAttempts
  BY RowParts
<1>3. Fenced(k)
  BY <1>1, <1>2, StatusParts DEF Fenced
<1>4. Protected(k)
  BY <1>1 DEF Protected
<1> QED BY <1>1, <1>3, <1>4, SameRow

(* What such a row may become: its attempts stay or are one more, and its  *)
(* token changes only when nobody or its own worker is running it.         *)
Loose(k, r) ==
    /\ job[k].status \in Active
    /\ r.attempts \in {job[k].attempts, job[k].attempts + 1}
    /\ \/ ~(job[k].lease > 0) \/ r.token = job[k].token
       \/ \E w \in Workers : /\ work[w].job = k /\ work[w].token = job[k].token
                             /\ work'[w] # work[w]

LEMMA LooseRow ==
    ASSUME TypeOK, RowInv, NEW k \in JobIds, NEW r, job' = [job EXCEPT ![k] = r], Loose(k, r),
           NEW j \in JobIds
    PROVE  Fenced(j) /\ Protected(j)
<1>1. job[k].attempts \in Nat
  BY RowParts
<1>2. r.attempts \in Nat /\ r.attempts >= job[k].attempts
  BY <1>1 DEF Loose
<1> QED BY <1>2, OneRow DEF Loose

LEMMA NoLease ==
    ASSUME TypeOK, RowInv, NEW j \in JobIds, Claimable(j) \/ j \in Due \/ job[j].status # "running"
    PROVE  ~(job[j].lease > 0)
<1>1. job[j].status # "running" => job[j].lease = NoTime
  BY RowParts DEF GoodRow, ValidRow
<1> QED BY <1>1 DEF Claimable, Due, NoTime

(* An admission.                                                           *)
LEMMA AdmitMoves ==
    ASSUME IInv, NEW ds \in SUBSET Docs, NEW s \in [Docs -> Settings], Admit(ds, s),
           NEW j \in JobIds
    PROVE  Fenced(j) /\ Protected(j)
<1> DEFINE new == {<<d, asked[d] + 1>> : d \in ds}
<1>1. TypeOK /\ RowInv /\ AskedInv
  BY InvParts
<1>2. job'[j] = IF j \in new THEN Pending(s[DocOf(j)]) ELSE job[j]
  BY DEF Admit
<1>3. CASE j \notin new
  BY <1>1, <1>2, <1>3, SameRow
<1>4. CASE j \in new
  <2>1. PICK d \in ds : j = <<d, asked[d] + 1>>
    BY <1>4
  <2>2. DocOf(j) = d /\ j[2] = asked[d] + 1 /\ asked[d] \in 0 .. MaxJobs
    BY <1>1, <2>1 DEF DocOf, TypeOK
  <2>3. job[j].status = "none"
    BY <1>1, <2>2 DEF AskedInv
  <2>4. job[j].attempts = 0
    BY <1>1, <2>3 DEF RowInv
  <2>5. job'[j].attempts = 0
    BY <1>2, <1>4, PendingGood, JobParts
  <2>6. Fenced(j)
    BY <2>3, <2>4, <2>5, StatusParts DEF Fenced
  <2>7. Protected(j)
    BY <1>1, <2>3, NoLease DEF Protected
  <2> QED BY <2>6, <2>7
<1> QED BY <1>3, <1>4

LEMMA GatewayMoves ==
    ASSUME IInv, Gateway, NEW j \in JobIds PROVE Fenced(j) /\ Protected(j)
<1>1. \A d \in Docs : doc[d].settings \in Settings
  BY InvParts DEF TypeOK, DocType
<1>2. [e \in Docs |-> doc[e].settings] \in [Docs -> Settings]
  BY <1>1
<1>3. \A s \in Settings : [e \in Docs |-> s] \in [Docs -> Settings]
  OBVIOUS
<1>4. ASSUME NEW d \in Docs, Redrive(d) PROVE Fenced(j) /\ Protected(j)
  BY <1>2, <1>4, AdmitMoves DEF Redrive
<1>5. ASSUME NEW d \in Docs, NEW s \in Settings, Request(d, s) PROVE Fenced(j) /\ Protected(j)
  BY <1>3, <1>5, AdmitMoves DEF Request
<1>6. ASSUME Reindex PROVE Fenced(j) /\ Protected(j)
  BY <1>2, <1>6, AdmitMoves DEF Reindex
<1>7. ASSUME NEW d \in Docs, RequestAgain(d) PROVE Fenced(j) /\ Protected(j)
  BY <1>7, InvParts, SameRow DEF RequestAgain
<1> QED BY <1>4, <1>5, <1>6, <1>7 DEF Gateway

(* A job that a delivery ends was not leased any more.                     *)
LEMMA DeliveryMoves ==
    ASSUME IInv, Delivery, NEW j \in JobIds PROVE Fenced(j) /\ Protected(j)
<1>1. TypeOK /\ RowInv
  BY InvParts
<1>2. ASSUME NEW k \in JobIds, Claimable(k), NEW r, job' = [job EXCEPT ![k] = r],
             r.attempts = job[k].attempts
      PROVE  Fenced(j) /\ Protected(j)
  <2>1. Loose(k, r)
    BY <1>1, <1>2, ClaimableActive, NoLease DEF Loose
  <2> QED BY <1>1, <1>2, <2>1, LooseRow
<1>3. ASSUME NEW k \in JobIds, ExecuteCancelled(k) PROVE Fenced(j) /\ Protected(j)
  <2> DEFINE r == Ended(k, "cancelled", FALSE, NoVersion)
  <2>1. Claimable(k) /\ job' = [job EXCEPT ![k] = r]
    BY <1>3 DEF ExecuteCancelled, Write
  <2>2. r.attempts = job[k].attempts
    BY <1>1, FailedGood
  <2> HIDE DEF r
  <2> QED BY <1>2, <2>1, <2>2
<1>4. ASSUME NEW k \in JobIds, ExecuteExhausted(k) PROVE Fenced(j) /\ Protected(j)
  <2> DEFINE r == Ended(k, "dead_lettered", TRUE, NoVersion)
  <2>1. Claimable(k) /\ job' = [job EXCEPT ![k] = r]
    BY <1>4 DEF ExecuteExhausted, Write
  <2>2. r.attempts = job[k].attempts
    BY <1>1, FailedGood
  <2> HIDE DEF r
  <2> QED BY <1>2, <2>1, <2>2
<1> QED BY <1>3, <1>4 DEF Delivery

LEMMA RecoveryMoves ==
    ASSUME IInv, Recovery, NEW j \in JobIds PROVE Fenced(j) /\ Protected(j)
<1>1. TypeOK /\ RowInv
  BY InvParts
<1>2. job[j].attempts \in 0 .. MaxAttempts
  BY <1>1, RowParts
<1>3. ASSUME NEW batch \in SUBSET Due, NEW sent \in SUBSET batch, Recover(batch, sent)
      PROVE  Fenced(j) /\ Protected(j)
  <2>1. job'[j] = IF j \in batch THEN Recovered(j) ELSE job[j]
    BY <1>3 DEF Recover
  <2>2. CASE j \notin batch
    BY <1>1, <2>1, <2>2, SameRow
  <2>3. CASE j \in batch
    <3>1. job'[j].attempts = job[j].attempts /\ job[j].status \in Active
      BY <2>1, <2>3, RecoveredGood, StatusParts
    <3>2. ~(job[j].lease > 0)
      BY <1>1, <2>3, NoLease
    <3> QED BY <1>2, <3>1, <3>2, StatusParts DEF Fenced, Protected
  <2> QED BY <2>2, <2>3
<1>4. ASSUME NEW k \in JobIds, DeleteTerminal(k) PROVE Fenced(j) /\ Protected(j)
  <2>1. CASE j # k
    BY <1>1, <1>4, <2>1, SameRow DEF DeleteTerminal, TypeOK
  <2>2. CASE j = k
    <3>1. job'[j].status = "deleted"
      BY <1>1, <1>4, <2>2 DEF DeleteTerminal, TypeOK, NoRow
    <3>2. ~(job[j].lease > 0)
      BY <1>1, <1>4, <2>2, StatusParts, NoLease DEF DeleteTerminal
    <3> QED BY <3>1, <3>2 DEF Fenced, Protected
  <2> QED BY <2>1, <2>2
<1>5. ASSUME NEW v \in JobIds, Cleanup(v) PROVE Fenced(j) /\ Protected(j)
  BY <1>1, <1>5, SameRow DEF Cleanup
<1> QED BY <1>3, <1>4, <1>5 DEF Recovery

LEMMA TickMoves ==
    ASSUME IInv, Tick, NEW j \in JobIds PROVE Fenced(j) /\ Protected(j)
<1>1. job'[j] = [job[j] EXCEPT !.lease = Sooner(@), !.dispatch = Sooner(@), !.retry = Sooner(@)]
  BY DEF Tick
<1>2. /\ job'[j].token = job[j].token /\ job'[j].attempts = job[j].attempts
      /\ job[j].status \in Terminal => job'[j] = job[j]
  BY <1>1, InvParts, SoonerGood
<1>3. job[j].attempts \in 0 .. MaxAttempts
  BY InvParts, RowParts
<1> QED BY <1>2, <1>3, BoundAssumption DEF Fenced, Protected

(* A worker that ends or puts off a job gives up its own claim.            *)
LEMMA OwnerMoves ==
    ASSUME IInv, NEW w \in Workers, Busy(w), OwnsJob(w), NEW r,
           job' = [job EXCEPT ![work[w].job] = r], r.attempts = job[work[w].job].attempts,
           work'[w] = NoWork, NEW j \in JobIds
    PROVE  Fenced(j) /\ Protected(j)
<1>1. TypeOK /\ RowInv /\ work[w].job \in JobIds
  BY InvParts DEF WorkInv
<1>2. work[w].token = job[work[w].job].token /\ work'[w] # work[w]
  BY NoWorkType DEF OwnsJob, Busy
<1>3. Loose(work[w].job, r)
  BY <1>2, StatusParts DEF Loose, OwnsJob
<1> QED BY <1>1, <1>3, LooseRow

LEMMA WorkerMoves ==
    ASSUME IInv, NEW w \in Workers, Worker(w), NEW j \in JobIds PROVE Fenced(j) /\ Protected(j)
<1>1. TypeOK /\ RowInv
  BY InvParts
<1>2. ASSUME NEW k \in JobIds, Execute(w, k) PROVE Fenced(j) /\ Protected(j)
  <2> DEFINE r == Running(k)
  <2>1. Claimable(k) /\ job' = [job EXCEPT ![k] = r] /\ job[k].attempts < MaxAttempts
    BY <1>2 DEF Execute
  <2>2. r.attempts = job[k].attempts + 1
    BY <1>1, <2>1, RunningGood
  <2>3. job[k].status \in Active /\ ~(job[k].lease > 0)
    BY <1>1, <2>1, ClaimableActive, NoLease
  <2> HIDE DEF r
  <2>4. Loose(k, r)
    BY <2>2, <2>3 DEF Loose
  <2> QED BY <1>1, <2>1, <2>4, LooseRow
<1>3. ASSUME Heartbeat(w) PROVE Fenced(j) /\ Protected(j)
  <2> DEFINE k == work[w].job
             r == [job[k] EXCEPT !.lease = Lease]
  <2>1. CASE ~OwnsJob(w)
    BY <1>1, <1>3, <2>1, SameRow DEF Heartbeat
  <2>2. CASE OwnsJob(w)
    <3>1. k \in JobIds /\ job[k].status = "running" /\ job' = [job EXCEPT ![k] = r]
      BY <1>3, <2>2, InvParts DEF Heartbeat, OwnsJob, WorkInv, Busy
    <3>2. r.token = job[k].token /\ r.attempts = job[k].attempts
      BY <1>1, <3>1, LeaseGood
    <3> HIDE DEF k, r
    <3>3. Loose(k, r)
      BY <3>1, <3>2, StatusParts DEF Loose
    <3> QED BY <1>1, <3>1, <3>3, LooseRow
  <2> QED BY <2>1, <2>2
<1>4. ASSUME NEW result \in JobIds, Commit(w, result) PROVE Fenced(j) /\ Protected(j)
  <2> DEFINE r == Succeeded(work[w].job, result)
  <2>1. work[w].job \in JobIds /\ Busy(w) /\ work'[w] = NoWork
    BY <1>4, CommitRows DEF Informed, Busy
  <2>2. OwnsJob(w) /\ job' = [job EXCEPT ![work[w].job] = r]
    BY <1>4 DEF Commit, MayCommit
  <2>3. r.attempts = job[work[w].job].attempts
    BY <1>1, <2>1, SucceededGood
  <2> HIDE DEF r
  <2> QED BY <2>1, <2>2, <2>3, OwnerMoves
<1>5. ASSUME Publish(w) PROVE Fenced(j) /\ Protected(j)
  <2>1. work[w].job \in JobIds
    BY <1>5, InvParts DEF Publish, MayCommit, WorkInv, Busy
  <2>2. Commit(w, work[w].job)
    BY <1>5 DEF Publish, Commit
  <2> QED BY <1>4, <2>1, <2>2
<1>6. ASSUME FinishUnchanged(w) PROVE Fenced(j) /\ Protected(j)
  <2>1. work[w].seen.active \in JobIds
    BY <1>6, InvParts DEF FinishUnchanged, Unchanged, MayCommit, WorkInv, Informed
  <2>2. Commit(w, work[w].seen.active)
    BY <1>6 DEF FinishUnchanged, Commit
  <2> QED BY <1>4, <2>1, <2>2
<1>7. ASSUME FinishFailure(w) PROVE Fenced(j) /\ Protected(j)
  <2> DEFINE k == work[w].job
             kind == work[w].kind
  <2>1. k \in JobIds /\ Busy(w) /\ work'[w] = NoWork
    BY <1>7, InvParts DEF FinishFailure, WorkInv, Busy, TypeOK
  <2>2. CASE ~OwnsJob(w)
    BY <1>1, <1>7, <2>2, SameRow DEF FinishFailure
  <2>3. CASE OwnsJob(w)
    <3>1. \E r : job' = [job EXCEPT ![k] = r] /\ r.attempts = job[k].attempts
      <4>1. ASSUME NEW status \in {"dead_lettered", "cancelled"}, NEW retryable \in BOOLEAN,
                   NEW docStatus, Write(k, Ended(k, status, retryable, NoVersion), docStatus)
            PROVE  \E r : job' = [job EXCEPT ![k] = r] /\ r.attempts = job[k].attempts
        BY <1>1, <2>1, <4>1, FailedGood DEF Write
      <4>2. CASE kind = "cancelled"
        <5>1. Write(k, Ended(k, "cancelled", FALSE, NoVersion), "failed")
          BY <1>7, <2>3, <4>2 DEF FinishFailure
        <5> QED BY <4>1, <5>1
      <4>3. CASE kind = "retryable" /\ job[k].attempts < MaxAttempts
        <5>1. Write(k, RetryScheduled(k, RetryDelay, NoTime), "indexing")
          BY <1>7, <2>3, <4>3 DEF FinishFailure
        <5> QED BY <1>1, <2>1, <5>1, RetryGood DEF Write
      <4>4. CASE kind # "cancelled" /\ ~(kind = "retryable" /\ job[k].attempts < MaxAttempts)
        <5> DEFINE retryable == kind = "retryable"
        <5>1. Write(k, Ended(k, "dead_lettered", retryable, NoVersion), "failed")
          BY <1>7, <2>3, <4>4 DEF FinishFailure
        <5>2. retryable \in BOOLEAN
          OBVIOUS
        <5> HIDE DEF retryable, k, kind
        <5> QED BY <4>1, <5>1, <5>2
      <4> QED BY <4>2, <4>3, <4>4
    <3> QED BY <2>1, <2>3, <3>1, OwnerMoves
  <2> QED BY <2>2, <2>3
<1>8. ASSUME UNCHANGED job PROVE Fenced(j) /\ Protected(j)
  BY <1>1, <1>8, SameRow
<1>9. CASE Load(w) \/ LockScope(w) \/ LeaseLost(w) \/ Raise(w) \/ Crash(w)
  BY <1>8, <1>9 DEF Load, LockScope, LeaseLost, Raise, Crash
<1> QED BY <1>2, <1>3, <1>5, <1>6, <1>7, <1>9 DEF Worker, Run

LEMMA NextMoves ==
    ASSUME IInv, [Next]_vars, NEW j \in JobIds PROVE Fenced(j) /\ Protected(j)
<1>1. TypeOK /\ RowInv
  BY InvParts
<1>2. CASE UNCHANGED vars
  BY <1>1, <1>2, SameRow DEF vars
<1>3. ASSUME NEW r \in Readers, Status(r) PROVE Fenced(j) /\ Protected(j)
  BY <1>1, <1>3, SameRow DEF Status, StatusRead, StatusJudge, StatusWrite
<1> QED BY <1>2, <1>3, GatewayMoves, DeliveryMoves, RecoveryMoves, TickMoves, WorkerMoves DEF Next

(* Only the owner of a document's newest job publishes.                    *)
LEMMA PublishesNewest ==
    ASSUME IInv, [Next]_vars, NEW j \in JobIds, active' # active, active' = j
    PROVE  j = Newest(DocOf(j))
<1>1. ASSUME NEW w \in Workers, Publish(w) PROVE j = Newest(DocOf(j))
  <2>1. j = work[w].job /\ job[j].status \in Active
    BY <1>1, StatusParts DEF Publish, MayCommit, OwnsJob
  <2> QED BY <2>1, InvParts DEF SingleFlight
<1>2. ASSUME Gateway PROVE active' = active
  BY <1>2 DEF Gateway, Redrive, RequestAgain, Request, Reindex, Admit, libraryVars
<1>3. ASSUME Delivery \/ Tick \/ UNCHANGED vars PROVE active' = active
  BY <1>3 DEF Delivery, ExecuteCancelled, ExecuteExhausted, Tick, vars, libraryVars
<1>4. ASSUME Recovery PROVE active' = active
  BY <1>4 DEF Recovery, Recover, DeleteTerminal, Cleanup, libraryVars
<1>5. ASSUME NEW r \in Readers, Status(r) PROVE active' = active
  BY <1>5 DEF Status, StatusRead, StatusJudge, StatusWrite, libraryVars
<1>6. ASSUME NEW w \in Workers, Worker(w), ~Publish(w) PROVE active' = active
  BY <1>6 DEF Worker, Run, Execute, Load, LockScope, FinishUnchanged, LeaseLost, Raise,
              FinishFailure, Heartbeat, Crash, libraryVars
<1> QED BY <1>1, <1>2, <1>3, <1>4, <1>5, <1>6 DEF Next

(* A worker that comes late neither publishes nor reopens anything.        *)
THEOREM LateWorkersFenced == Spec => LateWorkersAreFenced
<1>1. IInv /\ [Next]_vars =>
        [ \A j \in JobIds :
            /\ active' # active /\ active' = j => j = Newest(DocOf(j))
            /\ job[j].status \in Terminal =>
                  job'[j] = job[j] \/ job'[j].status = "deleted"
            /\ job'[j].attempts < job[j].attempts => job'[j].status = "deleted" ]_vars
  BY NextMoves, PublishesNewest DEF Fenced
<1> QED BY <1>1, Invariance, PTL DEF Spec, LateWorkersAreFenced

(* Until its lease has run out, a claim ends by its worker's own step.     *)
THEOREM LiveLeaseProtects == Spec => LiveLeaseHolds
<1>1. IInv /\ [Next]_vars =>
        [ \A j \in JobIds :
            job[j].lease > 0 /\ job'[j].token # job[j].token =>
               \E w \in Workers : /\ work[w].job = j /\ work[w].token = job[j].token
                                  /\ work'[w] # work[w] ]_vars
  BY NextMoves DEF Protected
<1> QED BY <1>1, Invariance, PTL DEF Spec, LiveLeaseHolds
=============================================================================
