-------------------------- MODULE DocumentIngestion --------------------------
(***************************************************************************)
(* The durable jobs that index the documents of one knowledge base: the    *)
(* Gateway admits a request as a job row, Celery tasks carry job ids to    *)
(* workers, a worker claims the job under a fencing token and a lease, and *)
(* one transaction publishes the new version and ends the job; a recovery  *)
(* task takes over from lost tasks and lost workers.  Status requests      *)
(* repair the document's projection of its job.                            *)
(*                                                                         *)
(* Rows are locked knowledge base first, so the base's row lock covers its *)
(* documents and their jobs; short transactions are one step.  Deadlines   *)
(* are kept as what is left of them; NoTime is SQL NULL.                   *)
(***************************************************************************)
EXTENDS Integers, FiniteSets

CONSTANTS
    Docs,           \* the documents of the knowledge base
    Settings,       \* what a request may ask for: chunking, selection, ...
    Workers,        \* task slots of the knowledge queue
    Readers,        \* status requests that are being served
    MaxJobs,        \* bound: requests per document
    MaxAttempts,    \* max_attempts
    Lease,          \* lease_seconds
    RetryDelay,     \* retry_delay; its growth per attempt is left out
    DispatchLease   \* DEFAULT_DISPATCH_LEASE_SECONDS

ASSUME BoundAssumption == MaxJobs \in Nat \ {0} /\ MaxAttempts \in Nat \ {0}
ASSUME TimeAssumption ==
    Lease \in Nat \ {0} /\ RetryDelay \in Nat \ {0} /\ DispatchLease \in Nat \ {0}

VARIABLES
    job,       \* the job rows
    asked,     \* how many jobs each document ever had
    doc,       \* of each document its status and its settings
    active,    \* KnowledgeBase.active_document_version_id
    version,   \* the document versions, named by the job that made them
    chunks,    \* the versions whose chunks are stored
    cleanup,   \* the previous versions named by outstanding outbox events
    tasks,     \* the jobs a task was ever published for
    work,      \* where each worker stands
    lock,      \* the worker whose transaction holds the row locks
    reader,    \* where each status request stands
    commits    \* how often a job's result was committed

vars == <<job, asked, doc, active, version, chunks, cleanup, tasks,
          work, lock, reader, commits>>
libraryVars == <<active, version, chunks, cleanup, commits>>

-----------------------------------------------------------------------------
JobIds == Docs \X (1 .. MaxJobs)
DocOf(j) == j[1]
Newest(d) == <<d, asked[d]>>

NoTime == -1
NoVersion == <<>>
NoSettings == "no settings"
Free == "free"
ASSUME FreeAssumption == Free \notin Workers

Active == {"pending", "running", "retry_scheduled"}
Terminal == {"succeeded", "dead_lettered", "cancelled"}
Statuses == {"none", "deleted"} \cup Active \cup Terminal

ActiveJobs(d) == {j \in JobIds : DocOf(j) = d /\ job[j].status \in Active}

(* A fencing token is a fresh uuid per claim: the claim's attempt number   *)
(* tells the claims of one job apart.                                      *)
NoToken == 0

NoRow ==
    [status |-> "none", attempts |-> 0, retryable |-> TRUE, token |-> NoToken,
     lease |-> NoTime, dispatch |-> NoTime, retry |-> NoTime,
     settings |-> NoSettings, result |-> NoVersion]

Pending(s) ==
    [NoRow EXCEPT !.status = "pending", !.dispatch = DispatchLease, !.retry = 0,
                  !.settings = s]

Running(j) ==
    [job[j] EXCEPT !.status = "running", !.attempts = @ + 1,
                   !.token = job[j].attempts + 1, !.lease = Lease,
                   !.dispatch = NoTime, !.retry = NoTime]

RetryScheduled(j, retry, dispatch) ==
    [job[j] EXCEPT !.status = "retry_scheduled", !.retryable = TRUE,
                   !.token = NoToken, !.lease = NoTime, !.dispatch = dispatch,
                   !.retry = retry]

Ended(j, status, retryable, result) ==
    [job[j] EXCEPT !.status = status, !.retryable = retryable, !.token = NoToken,
                   !.lease = NoTime, !.dispatch = NoTime, !.retry = NoTime,
                   !.result = result]

Succeeded(j, result) == Ended(j, "succeeded", FALSE, result)

NoWork == [at |-> "idle", job |-> <<>>, token |-> NoToken, lost |-> FALSE,
           kind |-> "none", seen |-> <<>>]
NoReading == [at |-> "idle", doc |-> <<>>, settings |-> NoSettings, verdict |-> "none"]

Init ==
    /\ job = [j \in JobIds |-> NoRow]
    /\ asked = [d \in Docs |-> 0]
    /\ doc \in [Docs -> [status : {"pending"}, settings : Settings]]
    /\ active = NoVersion
    /\ version = [j \in JobIds |-> [status |-> "none", settings |-> NoSettings]]
    /\ chunks = {}
    /\ cleanup = {}
    /\ tasks = {}
    /\ work = [w \in Workers |-> NoWork]
    /\ lock = Free
    /\ reader = [r \in Readers |-> NoReading]
    /\ commits = [j \in JobIds |-> 0]

-----------------------------------------------------------------------------
(* Admission.                                                              *)

(* create_job and apply_settings_and_mark_queued for the documents in ds,  *)
(* then a publish per job that may fail without undoing the admission.     *)
Admit(ds, s) ==
    /\ \A d \in ds : asked[d] < MaxJobs
    /\ asked' = [d \in Docs |-> IF d \in ds THEN asked[d] + 1 ELSE asked[d]]
    /\ LET new == {<<d, asked[d] + 1>> : d \in ds}
       IN  /\ job' = [j \in JobIds |-> IF j \in new THEN Pending(s[DocOf(j)]) ELSE job[j]]
           /\ \E sent \in SUBSET new : tasks' = tasks \cup sent
    /\ doc' = [d \in Docs |-> IF d \in ds THEN [status |-> "indexing", settings |-> s[d]]
                              ELSE doc[d]]
    /\ UNCHANGED <<libraryVars, work, lock, reader>>

(* Mutant: a job that waits for its retry does not count as active.        *)
NoneRunning(ds) ==
    \A d \in ds : \A j \in ActiveJobs(d) : job[j].status = "retry_scheduled"

NoneActive(ds) == \A d \in ds : ActiveJobs(d) = {}

(* RequestDocumentIngestion; a request that differs from the active job is *)
(* a conflict and changes nothing.                                         *)
Request(d, s) ==
    /\ lock = Free
    /\ NoneActive({d})
    /\ Admit({d}, [e \in Docs |-> s])

(* RequestKnowledgeBaseReindex: all documents or none.                     *)
Reindex ==
    /\ lock = Free
    /\ NoneActive(Docs)
    /\ Admit(Docs, [d \in Docs |-> doc[d].settings])

(* The same intent again: the active job is only published once more.      *)
RequestAgain(d) ==
    /\ lock = Free
    /\ \E j \in ActiveJobs(d) : tasks' = tasks \cup {j}
    /\ UNCHANGED <<job, asked, doc, libraryVars, work, lock, reader>>

Latest(d) == {j \in JobIds :
    /\ DocOf(j) = d /\ job[j].status \notin {"none", "deleted"}
    /\ \A k \in JobIds : DocOf(k) = d /\ job[k].status \notin {"none", "deleted"}
                         => k[2] <= j[2]}

(* RedriveDocumentIngestion: a new job, the dead letter stays.             *)
Redrive(d) ==
    /\ lock = Free
    /\ NoneActive({d})
    /\ \E j \in Latest(d) : job[j].status = "dead_lettered" /\ job[j].retryable
    /\ Admit({d}, [e \in Docs |-> doc[e].settings])

-----------------------------------------------------------------------------
(* A worker.                                                               *)

Write(j, new, docStatus) ==
    /\ job' = [job EXCEPT ![j] = new]
    /\ doc' = [doc EXCEPT ![DocOf(j)].status = docStatus]

(* Mutant: a late task starts a job that is over.                          *)
ClaimableAgain(j) ==
    /\ j \in tasks
    /\ \/ job[j].status \notin {"none", "deleted", "running"} /\ job[j].retry \in {NoTime, 0}
       \/ job[j].status = "running" /\ job[j].lease = 0

(* Tasks may be delivered late, repeatedly or never; a delivery that meets *)
(* a terminal, leased or deferred job changes nothing.                     *)
Claimable(j) ==
    /\ j \in tasks
    /\ \/ job[j].status \in {"pending", "retry_scheduled"} /\ job[j].retry \in {NoTime, 0}
       \/ job[j].status = "running" /\ job[j].lease = 0

(* The requester may no longer write, or the base is not active any more.  *)
ExecuteCancelled(j) ==
    /\ lock = Free
    /\ Claimable(j)
    /\ Write(j, Ended(j, "cancelled", FALSE, NoVersion), "failed")
    /\ UNCHANGED <<asked, libraryVars, tasks, work, lock, reader>>

ExecuteExhausted(j) ==
    /\ lock = Free
    /\ Claimable(j)
    /\ job[j].attempts >= MaxAttempts
    /\ Write(j, Ended(j, "dead_lettered", TRUE, NoVersion), "failed")
    /\ UNCHANGED <<asked, libraryVars, tasks, work, lock, reader>>

(* Mutant: the attempts are not counted against their maximum.             *)
ExecuteUnlimited(w, j) ==
    /\ lock = Free
    /\ work[w] = NoWork
    /\ Claimable(j)
    /\ job' = [job EXCEPT ![j] = Running(j)]
    /\ work' = [work EXCEPT ![w] = [NoWork EXCEPT !.at = "admitted", !.job = j,
                                                  !.token = job[j].attempts + 1]]
    /\ UNCHANGED <<asked, doc, libraryVars, tasks, lock, reader>>

Execute(w, j) ==
    /\ lock = Free
    /\ work[w] = NoWork
    /\ Claimable(j)
    /\ job[j].attempts < MaxAttempts
    /\ job' = [job EXCEPT ![j] = Running(j)]
    /\ work' = [work EXCEPT ![w] = [NoWork EXCEPT !.at = "admitted", !.job = j,
                                                  !.token = job[j].attempts + 1]]
    /\ UNCHANGED <<asked, doc, libraryVars, tasks, lock, reader>>

(* Mutant: the token is not compared.                                      *)
OwnsAnyClaim(w) ==
    LET j == work[w].job
    IN  /\ job[j].status = "running"
        /\ job[j].lease > 0

(* The compare-and-set of heartbeat, success and failure.                  *)
OwnsJob(w) ==
    LET j == work[w].job
    IN  /\ job[j].status = "running"
        /\ job[j].token = work[w].token
        /\ job[j].lease > 0

(* The heartbeat thread, in a session of its own; once refused it stops.   *)
Heartbeat(w) ==
    /\ work[w].at \in {"admitted", "loaded", "locked"}
    /\ ~work[w].lost
    /\ IF OwnsJob(w)
       THEN job' = [job EXCEPT ![work[w].job].lease = Lease] /\ UNCHANGED work
       ELSE work' = [work EXCEPT ![w].lost = TRUE] /\ UNCHANGED job
    /\ UNCHANGED <<asked, doc, libraryVars, tasks, lock, reader>>

(* The run reads document and knowledge base before it locks them, and the *)
(* locking queries do not refresh what the session has already loaded.     *)
Load(w) ==
    /\ work[w].at = "admitted"
    /\ work' = [work EXCEPT ![w].at = "loaded",
                            ![w].seen = [active |-> active, doc |-> doc[DocOf(work[w].job)]]]
    /\ UNCHANGED <<job, asked, doc, libraryVars, tasks, lock, reader>>

LockScope(w) ==
    /\ work[w].at = "loaded"
    /\ lock = Free
    /\ lock' = w
    /\ work' = [work EXCEPT ![w].at = "locked"]
    /\ UNCHANGED <<job, asked, doc, libraryVars, tasks, reader>>

Release(w) == lock' = IF lock = w THEN Free ELSE lock

Return(w) ==
    /\ work' = [work EXCEPT ![w] = NoWork]
    /\ Release(w)

(* Mutant: the result is committed without a look at the claim.            *)
MayCommitLate(w) == work[w].at = "locked"

MayCommit(w) == work[w].at = "locked" /\ ~work[w].lost /\ OwnsJob(w)

(* Mutant: the version that is replaced is left alone.                     *)
PreviousIgnored(w) == {}

(* The version this worker believes it replaces.                           *)
Previous(w) == {work[w].seen.active} \ {NoVersion}

(* finalize_active_version's new version rows.                             *)
Finalized(w) ==
    [v \in JobIds |->
        IF v = work[w].job THEN [status |-> "ready", settings |-> work[w].seen.doc.settings]
        ELSE IF v \in Previous(w) THEN [version[v] EXCEPT !.status = "superseded"]
        ELSE version[v]]

(* One transaction: the version becomes ready and active, the previous one *)
(* superseded and due for cleanup, the document completed, the job ended.  *)
Publish(w) ==
    /\ MayCommit(w)
    /\ LET j == work[w].job
           seen == work[w].seen
       IN  /\ version' = Finalized(w)
           /\ active' = j
           /\ chunks' = chunks \cup {j}
           /\ cleanup' = cleanup \cup Previous(w)
           /\ job' = [job EXCEPT ![j] = Succeeded(j, j)]
           /\ doc' = [doc EXCEPT ![DocOf(j)] = [status |-> "completed",
                                                settings |-> seen.doc.settings]]
           /\ commits' = [commits EXCEPT ![j] = @ + 1]
    /\ Return(w)
    /\ UNCHANGED <<asked, tasks, reader>>

(* _has_current_artifacts, for a source whose content did not change.      *)
Unchanged(w) ==
    LET seen == work[w].seen
    IN  /\ seen.active # NoVersion
        /\ DocOf(seen.active) = DocOf(work[w].job)
        /\ version[seen.active] = [status |-> "ready", settings |-> seen.doc.settings]
        /\ seen.doc.status # "failed"

FinishUnchanged(w) ==
    /\ MayCommit(w)
    /\ Unchanged(w)
    /\ LET j == work[w].job
           seen == work[w].seen
       IN  /\ job' = [job EXCEPT ![j] = Succeeded(j, seen.active)]
           /\ doc' = [doc EXCEPT ![DocOf(j)] = [status |-> "completed",
                                                settings |-> seen.doc.settings]]
           /\ commits' = [commits EXCEPT ![j] = @ + 1]
    /\ Return(w)
    /\ UNCHANGED <<asked, active, version, chunks, cleanup, tasks, reader>>

(* A progress check or the final write finds the lease lost, or cannot     *)
(* tell: everything is rolled back and the job is left to its owner.       *)
LeaseLost(w) ==
    /\ work[w].at = "locked"
    /\ Return(w)
    /\ UNCHANGED <<job, asked, doc, libraryVars, tasks, reader>>

(* The run raises and is rolled back; the failure is recorded in a         *)
(* transaction of its own.                                                 *)
Raise(w) ==
    /\ work[w].at \in {"admitted", "loaded", "locked"}
    /\ \E kind \in {"cancelled", "retryable", "permanent"} :
          work' = [work EXCEPT ![w] = [NoWork EXCEPT !.at = "failed", !.job = work[w].job,
                                                     !.token = work[w].token, !.kind = kind]]
    /\ Release(w)
    /\ UNCHANGED <<job, asked, doc, libraryVars, tasks, reader>>

FinishFailure(w) ==
    /\ work[w].at = "failed"
    /\ lock = Free
    /\ LET j == work[w].job
           kind == work[w].kind
       IN  IF ~OwnsJob(w) THEN UNCHANGED <<job, doc>>
           ELSE IF kind = "cancelled"
           THEN Write(j, Ended(j, "cancelled", FALSE, NoVersion), "failed")
           ELSE IF kind = "retryable" /\ job[j].attempts < MaxAttempts
           THEN Write(j, RetryScheduled(j, RetryDelay, NoTime), "indexing")
           ELSE Write(j, Ended(j, "dead_lettered", kind = "retryable", NoVersion), "failed")
    /\ work' = [work EXCEPT ![w] = NoWork]
    /\ UNCHANGED <<asked, libraryVars, tasks, lock, reader>>

(* The worker process is lost; its transaction is rolled back.             *)
Crash(w) ==
    /\ work[w] # NoWork
    /\ Return(w)
    /\ UNCHANGED <<job, asked, doc, libraryVars, tasks, reader>>

-----------------------------------------------------------------------------
(* The recovery task and the outbox.                                       *)

(* Mutant: a job whose dispatch was never leased is not due.               *)
DueLeased ==
    {j \in JobIds :
        \/ /\ job[j].status \in {"pending", "retry_scheduled"}
           /\ job[j].retry \in {NoTime, 0} /\ job[j].dispatch = 0
        \/ job[j].status = "running" /\ job[j].lease = 0}

Due ==
    {j \in JobIds :
        \/ /\ job[j].status \in {"pending", "retry_scheduled"}
           /\ job[j].retry \in {NoTime, 0} /\ job[j].dispatch \in {NoTime, 0}
        \/ job[j].status = "running" /\ job[j].lease = 0}

Recovered(j) ==
    IF job[j].status # "running" THEN [job[j] EXCEPT !.dispatch = DispatchLease]
    ELSE IF job[j].attempts >= MaxAttempts THEN Ended(j, "dead_lettered", TRUE, NoVersion)
    ELSE RetryScheduled(j, 0, DispatchLease)

(* Rows locked by a run are skipped; each publish may fail, or the process *)
(* be lost before it.                                                      *)
Recover(batch, sent) ==
    /\ lock = Free
    /\ job' = [j \in JobIds |-> IF j \in batch THEN Recovered(j) ELSE job[j]]
    /\ doc' = [d \in Docs |->
                 LET lost == {j \in batch : DocOf(j) = d /\ job[j].status = "running"}
                     dead == {j \in lost : job[j].attempts >= MaxAttempts}
                 IN  IF lost = {} THEN doc[d]
                     ELSE [doc[d] EXCEPT !.status = IF dead = {} THEN "indexing" ELSE "failed"]]
    /\ tasks' = tasks \cup {j \in sent : job'[j].status \in Active}
    /\ UNCHANGED <<asked, libraryVars, work, lock, reader>>

(* delete_expired_terminal, after 30 days.                                 *)
DeleteTerminal(j) ==
    /\ job[j].status \in Terminal
    /\ job' = [job EXCEPT ![j] = [NoRow EXCEPT !.status = "deleted"]]
    /\ UNCHANGED <<asked, doc, libraryVars, tasks, work, lock, reader>>

(* Mutant: the cleanup goes by knowledge base, not by version.             *)
CleanupOfBase(v) ==
    /\ v \in cleanup
    /\ v # active
    /\ cleanup' = cleanup \ {v}
    /\ chunks' = IF version[v].status = "superseded" THEN {} ELSE chunks
    /\ UNCHANGED <<job, asked, doc, active, version, commits, tasks, work, lock, reader>>

(* SupersededVersionCleanupHandler; an event that names the active version *)
(* is refused and retried.                                                 *)
Cleanup(v) ==
    /\ v \in cleanup
    /\ v # active
    /\ cleanup' = cleanup \ {v}
    /\ chunks' = IF version[v].status = "superseded" THEN chunks \ {v} ELSE chunks
    /\ UNCHANGED <<job, asked, doc, active, version, commits, tasks, work, lock, reader>>

-----------------------------------------------------------------------------
(* finalize_stale_processing_start, called when a document is shown: it    *)
(* reads the document, then its latest job, and writes back the document   *)
(* it has read, all without a lock but for that of the written row.        *)

StatusRead(r, d) ==
    /\ reader[r] = NoReading
    /\ doc[d].status = "indexing"
    /\ reader' = [reader EXCEPT ![r] = [NoReading EXCEPT !.at = "read", !.doc = d,
                                                         !.settings = doc[d].settings]]
    /\ UNCHANGED <<job, asked, doc, libraryVars, tasks, work, lock>>

HasArtifacts(d) ==
    \E v \in JobIds : DocOf(v) = d /\ (v \in chunks \/ version[v].status = "ready")

StatusJudge(r) ==
    /\ reader[r].at = "read"
    /\ LET latest == Latest(reader[r].doc)
           failed == \E j \in latest : job[j].status \in {"dead_lettered", "cancelled"}
           done == \E j \in latest : job[j].status = "succeeded" /\ HasArtifacts(DocOf(j))
       IN  reader' = [reader EXCEPT ![r] =
                        IF failed THEN [@ EXCEPT !.at = "judged", !.verdict = "failed"]
                        ELSE IF done THEN [@ EXCEPT !.at = "judged", !.verdict = "completed"]
                        ELSE NoReading]
    /\ UNCHANGED <<job, asked, doc, libraryVars, tasks, work, lock>>

StatusWrite(r) ==
    /\ reader[r].at = "judged"
    /\ lock # Free => DocOf(work[lock].job) # reader[r].doc
    /\ doc' = [doc EXCEPT ![reader[r].doc] = [status |-> reader[r].verdict,
                                              settings |-> reader[r].settings]]
    /\ reader' = [reader EXCEPT ![r] = NoReading]
    /\ UNCHANGED <<job, asked, libraryVars, tasks, work, lock>>

-----------------------------------------------------------------------------
Sooner(t) == IF t > 0 THEN t - 1 ELSE t

Tick ==
    /\ job' = [j \in JobIds |->
                 [job[j] EXCEPT !.lease = Sooner(@), !.dispatch = Sooner(@),
                                !.retry = Sooner(@)]]
    /\ UNCHANGED <<asked, doc, libraryVars, tasks, work, lock, reader>>

Gateway ==
    \/ \E d \in Docs : Redrive(d) \/ RequestAgain(d) \/ \E s \in Settings : Request(d, s)
    \/ Reindex

Run(w) ==
    \/ Load(w) \/ LockScope(w) \/ Publish(w) \/ FinishUnchanged(w)
    \/ LeaseLost(w) \/ Raise(w) \/ FinishFailure(w)

Worker(w) ==
    \/ \E j \in JobIds : Execute(w, j)
    \/ Run(w) \/ Heartbeat(w) \/ Crash(w)

Delivery == \E j \in JobIds : ExecuteCancelled(j) \/ ExecuteExhausted(j)

Recovery ==
    \/ \E batch \in SUBSET Due : \E sent \in SUBSET batch : batch # {} /\ Recover(batch, sent)
    \/ \E j \in JobIds : DeleteTerminal(j) \/ Cleanup(j)

Status(r) == StatusJudge(r) \/ StatusWrite(r) \/ \E d \in Docs : StatusRead(r, d)

Next ==
    \/ Gateway \/ Delivery \/ Recovery \/ Tick
    \/ \E w \in Workers : Worker(w)
    \/ \E r \in Readers : Status(r)

Spec == Init /\ [][Next]_vars

(* Time passes, workers go on with their runs and take jobs, and the       *)
(* recovery task, which Celery Beat starts periodically, now and then      *)
(* reaches all due jobs and gets them published; of the tasks published    *)
(* under a dispatch lease one is delivered now and then.  Row locks are    *)
(* granted in the order of request, so nobody waits for ever on others     *)
(* taking turns.  Nothing is assumed of requests, single publishes or      *)
(* heartbeats, nor of tasks older than the current dispatch lease.         *)
FairSpec ==
    /\ Spec
    /\ WF_vars(Tick)
    /\ SF_vars(Due # {} /\ Recover(Due, Due))
    /\ \A j \in JobIds : SF_vars(job[j].dispatch # NoTime /\ \E w \in Workers : Execute(w, j))
    /\ \A w \in Workers : SF_vars(Run(w))

-----------------------------------------------------------------------------
RowType ==
    [status : Statuses, attempts : 0 .. MaxAttempts, retryable : BOOLEAN,
     token : 0 .. MaxAttempts, lease : NoTime .. Lease,
     dispatch : NoTime .. DispatchLease, retry : NoTime .. RetryDelay,
     settings : Settings \cup {NoSettings}, result : JobIds \cup {NoVersion}]

DocType ==
    [status : {"pending", "indexing", "completed", "failed"}, settings : Settings]

WorkType ==
    [at : {"idle", "admitted", "loaded", "locked", "failed"}, job : JobIds \cup {<<>>},
     token : 0 .. MaxAttempts, lost : BOOLEAN, kind : {"none", "cancelled", "retryable", "permanent"},
     seen : [active : JobIds \cup {NoVersion}, doc : DocType] \cup {<<>>}]

(* The CHECK constraints of the job table hold of every row the code       *)
(* writes, and the row of a claim can be told from those of earlier ones.  *)
ValidJobs ==
    \A j \in JobIds :
        /\ job[j].status = "running" <=> job[j].token # NoToken
        /\ job[j].status = "running" <=> job[j].lease # NoTime
        /\ job[j].dispatch # NoTime => job[j].status \in {"pending", "retry_scheduled"}
        /\ job[j].token \in {NoToken, job[j].attempts}

(* Every variable stays in its type, and every row in its constraints.     *)
TypeOK ==
    /\ ValidJobs
    /\ job \in [JobIds -> RowType]
    /\ asked \in [Docs -> 0 .. MaxJobs]
    /\ doc \in [Docs -> DocType]
    /\ active \in JobIds \cup {NoVersion}
    /\ version \in [JobIds -> [status : {"none", "ready", "superseded"},
                               settings : Settings \cup {NoSettings}]]
    /\ chunks \subseteq JobIds
    /\ cleanup \subseteq JobIds
    /\ tasks \subseteq JobIds
    /\ work \in [Workers -> WorkType]
    /\ lock \in Workers \cup {Free}
    /\ reader \in [Readers -> [at : {"idle", "read", "judged"}, doc : Docs \cup {<<>>},
                               settings : Settings \cup {NoSettings},
                               verdict : {"none", "completed", "failed"}]]
    /\ commits \in [JobIds -> Nat]

(* A document has at most one job that is not over, its newest one, and    *)
(* that is no more than what the partial unique index allows.              *)
SingleFlight ==
    \A j \in JobIds : job[j].status \in Active => j = Newest(DocOf(j))

(* However often a job is claimed, one result of it is committed at most,  *)
(* and exactly when the job has succeeded.                                 *)
OneResult ==
    \A j \in JobIds :
        /\ commits[j] = IF job[j].status = "succeeded" THEN 1
                        ELSE IF job[j].status = "deleted" THEN commits[j] ELSE 0
        /\ commits[j] <= 1
        /\ version[j].status # "none" => commits[j] = 1

(* What retrieval reads is there: the active version is ready and has its  *)
(* chunks, whatever order publications and cleanups take.                  *)
ActiveIntact ==
    active # NoVersion => version[active].status = "ready" /\ active \in chunks

(* A version is built from the settings its job was admitted with.         *)
BuiltAsAsked ==
    \A j \in JobIds :
        version[j].status # "none" /\ job[j].status = "succeeded"
        => version[j].settings = job[j].settings

(* implementation_baseline: when a version becomes active, the one it      *)
(* replaces becomes superseded, so that only the active one is ready.      *)
OneReady == \A v \in JobIds : version[v].status = "ready" => v = active

(* Chunks that retrieval cannot see are due for cleanup.                   *)
NothingLeaks == \A v \in chunks : v = active \/ v \in cleanup

(* The document shows how its newest job stands.                           *)
ProjectionFollowsJob ==
    \A d \in Docs : asked[d] > 0 =>
        LET newest == job[Newest(d)]
        IN  /\ newest.status \in Active => doc[d].status = "indexing"
            /\ newest.status = "succeeded" => doc[d].status = "completed"
            /\ newest.status \in {"dead_lettered", "cancelled"} => doc[d].status = "failed"

(* A late worker changes nothing: only a document's newest job is ever     *)
(* published, and a job that is over only ever gets deleted.               *)
LateWorkersAreFenced ==
    [][ \A j \in JobIds :
          /\ active' # active /\ active' = j => j = Newest(DocOf(j))
          /\ job[j].status \in Terminal =>
                job'[j] = job[j] \/ job'[j].status = "deleted"
          /\ job'[j].attempts < job[j].attempts => job'[j].status = "deleted" ]_vars

(* A live lease protects its claim: until it has run out, only the worker  *)
(* that holds the claim takes the job out of it.                           *)
LiveLeaseHolds ==
    [][ \A j \in JobIds :
          job[j].lease > 0 /\ job'[j].token # job[j].token =>
             \E w \in Workers : /\ work[w].job = j /\ work[w].token = job[j].token
                                /\ work'[w] # work[w] ]_vars

(* Every job is over one day, although tasks, workers and heartbeats may   *)
(* be lost and publishes may fail.                                         *)
EveryJobEnds ==
    \A j \in JobIds : job[j].status \in Active
                       ~> job[j].status \in Terminal \cup {"deleted"}

=============================================================================
