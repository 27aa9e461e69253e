-------------------------- MODULE SandboxScheduler --------------------------
(***************************************************************************)
(* The scheduler of the sandbox: FairScheduler and its PriorityBuckets.    *)
(* Everything runs on one event loop.  The critical sections of a bucket   *)
(* contain no await, so that its lock is never waited for, and each pass of*)
(* a loop from one sleep to the next is one action: one job dispatched, one*)
(* aging pass over all buckets, one change of the number of workers.       *)
(*                                                                         *)
(* A job stands for a request.  When its request is over it may be         *)
(* submitted again, so that a run of the service has no end.  What the     *)
(* execution history suggests is any priority.                             *)
(***************************************************************************)
EXTENDS Naturals, FiniteSets, SequencesExt

CONSTANTS
    Jobs,
    Tenants,
    Tenant,        \* the organization of a job
    MinWorkers, MaxWorkers,
    MaxPerTenant,
    MaxQueueSize,
    LowAge,        \* AGING_THRESHOLD_LOW and _NORMAL, in passes of the
    NormalAge      \* aging loop

ASSUME LimitsAssumption ==
    /\ Tenant \in [Jobs -> Tenants] /\ IsFiniteSet(Tenants)
    /\ MinWorkers \in Nat \ {0}
    /\ MaxWorkers \in Nat /\ MinWorkers <= MaxWorkers
    /\ MaxPerTenant \in Nat \ {0}
    /\ MaxQueueSize \in Nat
    /\ LowAge \in Nat /\ NormalAge \in Nat /\ LowAge <= NormalAge

Priority == {"high", "normal", "low"}
Level    == [high |-> 1, normal |-> 2, low |-> 3]

VARIABLES
    bucket,         \* per priority: _queues, _tenant_order, _current_index
    age,            \* how many aging passes a job has waited for
    future,         \* what the request waits for
    executing,      \* the jobs whose _execute_job is under way
    runningCount,   \* _running_count
    tenantRunning,  \* _tenant_running
    workers,        \* _current_workers
    phase           \* up, stopping (the loops are gone), down

vars == <<bucket, age, future, executing, runningCount, tenantRunning, workers, phase>>

Init ==
    /\ bucket = [p \in Priority |->
                    [queue |-> [t \in Tenants |-> <<>>], order |-> <<>>, index |-> 0]]
    /\ age = [j \in Jobs |-> 0]
    /\ future = [j \in Jobs |-> "none"]
    /\ executing = {}
    /\ runningCount = 0
    /\ tenantRunning = [t \in Tenants |-> 0]
    /\ workers = MinWorkers
    /\ phase = "up"

-----------------------------------------------------------------------------
(* PriorityBucket.  Positions count from 0, as in the code.                *)

Contents(b) == UNION {Range(b.queue[t]) : t \in Tenants}
QueuedJobs  == UNION {Contents(bucket[p]) : p \in Priority}

(* The total_jobs of all buckets: the number of places that are taken.     *)
TotalJobs ==
    Cardinality(UNION {{<<p, t, i>> : i \in DOMAIN bucket[p].queue[t]} :
                          p \in Priority, t \in Tenants})

(* What of a sequence is in S: SelectSeq as a recursive function, which can*)
(* be reasoned about.                                                      *)
Only(s, S) ==
    LET kept[n \in 0 .. Len(s)] ==
            IF n = 0 THEN <<>>
            ELSE IF s[n] \in S THEN Append(kept[n - 1], s[n]) ELSE kept[n - 1]
    IN  kept[Len(s)]

Add(b, t, jobs) ==
    [b EXCEPT !.order = IF jobs # <<>> /\ t \notin Range(@) THEN Append(@, t) ELSE @,
              !.queue[t] = @ \o jobs]

(* Whatever removes jobs: tenants whose queue is empty leave the order; an *)
(* index that is beyond its end starts again at 0, any other stays.        *)
MutantSettle(b) == [b EXCEPT !.order = Only(@, {t \in Tenants : b.queue[t] # <<>>})]

Settle(b) ==
    LET rest == Only(b.order, {t \in Tenants : b.queue[t] # <<>>})
    IN  [b EXCEPT !.order = rest, !.index = IF @ >= Len(rest) THEN 0 ELSE @]

Allowed(t) == tenantRunning[t] < MaxPerTenant

(* pop_next_round_robin: the tenant k places after the index is the first  *)
(* that is below its limit; the index moves behind it before it leaves.    *)
At(b, k) == b.order[((b.index + k) % Len(b.order)) + 1]

Turns(b) ==
    {k \in 0 .. Len(b.order) - 1 :
        Allowed(At(b, k)) /\ \A i \in 0 .. k - 1 : ~Allowed(At(b, i))}

Pick(b, k) == Head(b.queue[At(b, k)])

Pop(b, k) ==
    Settle([b EXCEPT !.index = (@ + k + 1) % Len(b.order), !.queue[At(b, k)] = Tail(@)])

-----------------------------------------------------------------------------
(* Requests.                                                               *)

(* submit, up to the await of its future.                                  *)
Submit(j, p) ==
    /\ phase = "up"
    /\ future[j] # "waiting"
    /\ j \notin QueuedJobs \cup executing
    /\ TotalJobs < MaxQueueSize
    /\ bucket' = [bucket EXCEPT ![p] = Add(@, Tenant[j], <<j>>)]
    /\ age' = [age EXCEPT ![j] = 0]
    /\ future' = [future EXCEPT ![j] = "waiting"]
    /\ UNCHANGED <<executing, runningCount, tenantRunning, workers, phase>>

(* Mutant: what the job had taken is given back at once.                   *)
MutantCancel(j) ==
    /\ future[j] = "waiting"
    /\ future' = [future EXCEPT ![j] = "cancelled"]
    /\ IF j \in executing
       THEN /\ runningCount' = runningCount - 1
            /\ tenantRunning' = [tenantRunning EXCEPT ![Tenant[j]] = @ - 1]
       ELSE UNCHANGED <<runningCount, tenantRunning>>
    /\ UNCHANGED <<bucket, age, executing, workers, phase>>

(* The client goes away.  The job stays where it is.                       *)
Cancel(j) ==
    /\ future[j] = "waiting"
    /\ future' = [future EXCEPT ![j] = "cancelled"]
    /\ UNCHANGED <<bucket, age, executing, runningCount, tenantRunning, workers, phase>>

-----------------------------------------------------------------------------
(* The loops.                                                              *)

(* _worker_loop: the first bucket with a tenant below its limit.           *)
Dispatch ==
    /\ phase = "up"
    /\ runningCount < workers
    /\ \E p \in Priority : \E k \in Turns(bucket[p]) :
          LET j == Pick(bucket[p], k)
              t == At(bucket[p], k)
          IN  /\ \A q \in Priority : Turns(bucket[q]) # {} => Level[p] <= Level[q]
              /\ bucket' = [bucket EXCEPT ![p] = Pop(@, k)]
              /\ executing' = executing \cup {j}
              /\ runningCount' = runningCount + 1
              /\ tenantRunning' = [tenantRunning EXCEPT ![t] = @ + 1]
    /\ UNCHANGED <<age, future, workers, phase>>

(* _execute_job when the pool has returned or raised: the answer reaches   *)
(* the request if it still waits, and the counters go down either way.     *)
JobEnds(j) ==
    /\ j \in executing
    /\ future' = [future EXCEPT ![j] = IF @ = "waiting" THEN "answered" ELSE @]
    /\ executing' = executing \ {j}
    /\ runningCount' = runningCount - 1
    /\ tenantRunning' = [tenantRunning EXCEPT ![Tenant[j]] = @ - 1]
    /\ UNCHANGED <<bucket, age, workers, phase>>

(* _scaling_loop: the moving average may call for any number of workers;   *)
(* there are fewer only when nothing is queued and nothing runs.           *)
MutantScale(n) ==
    /\ phase = "up"
    /\ n # workers
    /\ n < workers => TotalJobs = 0
    /\ workers' = n
    /\ UNCHANGED <<bucket, age, future, executing, runningCount, tenantRunning, phase>>

Scale(n) ==
    /\ phase = "up"
    /\ n # workers
    /\ n < workers => TotalJobs = 0 /\ runningCount = 0
    /\ workers' = n
    /\ UNCHANGED <<bucket, age, future, executing, runningCount, tenantRunning, phase>>

(* _aging_loop: low jobs that have waited long enough move to the end of   *)
(* their tenant's normal queue, and then normal ones, those just moved     *)
(* included, to the high queue.  Tenants that are new there enter its order*)
(* as get_all_jobs lists them, in the order their queues were created in.  *)
Promote(buckets, from, to, due, tenants) ==
    LET queues == buckets[from].queue
        moved  == [t \in Tenants |-> Only(queues[t], due)]
        stays  == [t \in Tenants |-> Only(queues[t], Jobs \ due)]
        new    == {Tenant[j] : j \in due \cap Contents(buckets[from])} \ Range(buckets[to].order)
    IN  [buckets EXCEPT
            ![from] = Settle([@ EXCEPT !.queue = stays]),
            ![to].order = @ \o Only(tenants, new),
            ![to].queue = [t \in Tenants |-> @[t] \o moved[t]]]

(* Mutant: low jobs move up, normal ones do not.                           *)
MutantAged(older, tenants) ==
    bucket' = Promote(bucket, "low", "normal", {j \in QueuedJobs : older[j] >= LowAge}, tenants)

Aged(older, tenants) ==
    \E normal \in {Promote(bucket, "low", "normal", {j \in QueuedJobs : older[j] >= LowAge}, tenants)} :
        bucket' = Promote(normal, "normal", "high", {j \in QueuedJobs : older[j] >= NormalAge}, tenants)

AgingPass ==
    /\ phase = "up"
    /\ QueuedJobs # {}
    /\ LET older == [j \in Jobs |-> IF j \in QueuedJobs /\ age[j] < NormalAge
                                    THEN age[j] + 1 ELSE age[j]]
       IN  /\ age' = older
           /\ \E tenants \in SetToSeqs(Tenants) : Aged(older, tenants)
    /\ UNCHANGED <<future, executing, runningCount, tenantRunning, workers, phase>>

(* stop cancels the loops one by one and waits for each; then it answers   *)
(* what is queued, leaves it in the buckets, and waits for the pool.       *)
Stop ==
    /\ phase = "up"
    /\ phase' = "stopping"
    /\ UNCHANGED <<bucket, age, future, executing, runningCount, tenantRunning, workers>>

StopAnswers ==
    /\ phase = "stopping"
    /\ phase' = "down"
    /\ future' = [j \in Jobs |-> IF j \in QueuedJobs /\ future[j] = "waiting"
                                 THEN "shutdown" ELSE future[j]]
    /\ UNCHANGED <<bucket, age, executing, runningCount, tenantRunning, workers>>

Next ==
    \/ \E j \in Jobs : (\E p \in Priority : Submit(j, p)) \/ Cancel(j) \/ JobEnds(j)
    \/ Dispatch
    \/ AgingPass
    \/ \E n \in MinWorkers .. MaxWorkers : Scale(n)
    \/ Stop
    \/ StopAnswers

Spec == Init /\ [][Next]_vars

(* The loops wake up again and again, every execution ends by its timeout, *)
(* and stop, once begun, is carried through.                               *)
Fairness ==
    /\ WF_vars(Dispatch)
    /\ WF_vars(AgingPass)
    /\ WF_vars(StopAnswers)
    /\ \A j \in Jobs : WF_vars(JobEnds(j))

FairSpec == Spec /\ Fairness

-----------------------------------------------------------------------------
(* Properties.                                                             *)

TypeOK ==
    /\ bucket \in [Priority -> [queue : [Tenants -> Seq(Jobs)], order : Seq(Tenants), index : Nat]]
    /\ age \in [Jobs -> 0 .. NormalAge]
    /\ future \in [Jobs -> {"none", "waiting", "answered", "cancelled", "shutdown"}]
    /\ executing \subseteq Jobs
    /\ runningCount \in 0 .. MaxWorkers
    /\ tenantRunning \in [Tenants -> 0 .. MaxPerTenant]
    /\ workers \in MinWorkers .. MaxWorkers
    /\ phase \in {"up", "stopping", "down"}

(* The rotation of a bucket names each tenant with queued jobs once and no *)
(* other, and its index is a place in it: where it is not, choosing the    *)
(* next job raises, in every pass of the worker loop.  A job is queued in  *)
(* one place, and neither queued while it executes.                        *)
BucketsAreSound ==
    /\ \A p \in Priority :
          LET b == bucket[p]
          IN  /\ Range(b.order) = {t \in Tenants : b.queue[t] # <<>>}
              /\ Len(b.order) = Cardinality(Range(b.order))
              /\ b.index < Len(b.order) \/ b.index = 0
              /\ \A t \in Tenants : \A j \in Range(b.queue[t]) : Tenant[j] = t
    /\ TotalJobs = Cardinality(QueuedJobs)
    /\ QueuedJobs \cap executing = {}

(* The counters that limit what runs are those of what runs, however the   *)
(* executions end, and the limits hold although they change meanwhile.     *)
LimitsHold ==
    /\ runningCount = Cardinality(executing)
    /\ \A t \in Tenants :
          tenantRunning[t] = Cardinality({j \in executing : Tenant[j] = t})
    /\ runningCount <= workers

(* Every request is answered: by its execution although requests of higher *)
(* priority never stop coming and the rotation may pass over its tenant, or*)
(* by stop.                                                                *)
EveryRequestEnds == \A j \in Jobs : future[j] = "waiting" ~> future[j] # "waiting"

=============================================================================
