---------------------------- MODULE ExternalEffect ----------------------------
(***************************************************************************)
(* One external-effect slot (organization, execution, node invocation,     *)
(* effect sequence) of the workflow engine, the durable attempt row that   *)
(* guards it and the task deliveries that run ExternalEffectExecutor       *)
(* .execute for it.  Slots share nothing, so one slot is the whole state.  *)
(*                                                                         *)
(* Time is the database clock.  The row keeps two deadlines and the code   *)
(* only ever compares them with "now", so the model stores what is left of *)
(* them: lease = claim_expires_at - now and window = replay_deadline_at -  *)
(* now, both floored at zero.  "expired" is lease = 0.                     *)
(***************************************************************************)
EXTENDS Naturals

CONSTANTS
    Workers,      \* deliveries of the task of one logical execution
    Contracts,    \* provider contract profiles a deployed worker may carry
    Supported,    \* those whose provider replay capability is "supported"
    Reusable,     \* those whose result reuse capability is "supported"
    Keys,         \* idempotency key versions an operator may make active
    NoKey,        \* the key of a slot whose contract takes none
    NoContract,   \* a delivery that has not selected its profile yet
    ClaimTTL,     \* claim_ttl
    Retention,    \* retention of a supported contract
    MaxRetries    \* Celery's max_retries of the task

ASSUME ContractAssumption == Supported \subseteq Contracts /\ Reusable \subseteq Contracts
ASSUME NullAssumption == NoContract \notin Contracts /\ NoKey \notin Keys
ASSUME TimeAssumption == ClaimTTL \in Nat \ {0} /\ Retention \in Nat \ {0}
ASSUME RetryAssumption == MaxRetries \in Nat

VARIABLES
    row,       \* the attempt row; status "absent" before the first claim commits
    pc,        \* where each delivery stands in execute
    retries,   \* request.retries of each delivery
    spec,      \* the profile each delivery prepared its request under
    claim,     \* the generation and key of the record acquire returned to it
    answer,    \* what a delivery is about to record with finish
    output,    \* the call whose output a delivery handed to its node
    call       \* what happened to the provider call of each execute

vars == <<row, pc, retries, spec, claim, answer, output, call>>

-----------------------------------------------------------------------------
(* An execute call is identified by its delivery and retry number: the     *)
(* claim owner is a fresh uuid per execute, so it is modelled by that pair. *)
Tokens == Workers \X (0 .. MaxRetries)
NoToken == <<>>
Token(w) == <<w, retries[w]>>

Statuses == {"absent", "prepared", "in_flight", "terminal"}
Outcomes == {"succeeded", "failed_before_effect", "effect_outcome_unknown"}
Reopenable == {"retry_before_effect", "replay_same_key"}
Final == {"reuse_result", "result_unavailable", "stop"}
Decisions == Reopenable \cup Final
None == "none"

(* The provider's side of a call: marked in the row, on the wire, applied  *)
(* by the provider, or certain never to be applied.                        *)
CallStates == {"none", "marked", "sent", "applied", "refused"}
MayTakeEffect == {"marked", "sent", "applied"}

Holding == {"claimed", "in_flight", "calling", "finishing"}
Ended == {"returned", "failed", "crashed"}
PCs == {"ready", "found", "waiting", "stopping", "retry"} \cup Holding \cup Ended

NoAnswer == [outcome |-> None, decision |-> None, result |-> NoToken]
NoClaim == [gen |-> 0, key |-> NoKey]
NoCall == [state |-> "none", key |-> NoKey]

AbsentRow ==
    [status |-> "absent", contract |-> NoContract, owner |-> NoToken, gen |-> 0,
     lease |-> 0, window |-> 0, started |-> FALSE, outcome |-> None,
     decision |-> None, result |-> NoToken, key |-> NoKey]

AllowRetry(w) == retries[w] < MaxRetries
Expired == row.lease = 0
WindowOpen == row.contract \in Supported /\ row.window > 0

(* decide_replay of an unknown outcome: replay only under the provider's   *)
(* own promise and only before the frozen deadline.                        *)
UnknownDecision == IF WindowOpen THEN "replay_same_key" ELSE "stop"

(* A retry decision is only left standing for a delivery that can retry.   *)
Affordable(w, d) == IF d \in Reopenable /\ ~AllowRetry(w) THEN "stop" ELSE d

(* The compare-and-set every write of a claim holder goes through.         *)
HoldsClaim(w) ==
    /\ row.owner = Token(w)
    /\ row.gen = claim[w].gen
    /\ ~Expired

-----------------------------------------------------------------------------
(* How a step leaves execute.                                              *)

Goto(w, state) == pc' = [pc EXCEPT ![w] = state]

(* _raise_repository_retry: a retry signal while retries last, else an error *)
RaiseRetry(w) == Goto(w, IF AllowRetry(w) THEN "retry" ELSE "failed")

(* _terminal_result: the stored result, a retry signal, or an error.       *)
TerminalResult(w, decision, result) ==
    \/ /\ decision = "reuse_result"
       /\ Goto(w, "returned")
       /\ output' = [output EXCEPT ![w] = result]
    \/ /\ decision \in Reopenable
       /\ Goto(w, "retry")
       /\ UNCHANGED output
    \/ /\ decision \notin Reopenable \cup {"reuse_result"}
       /\ Goto(w, "failed")
       /\ UNCHANGED output

-----------------------------------------------------------------------------
(* Rows the repository writes.                                             *)

NewRow(w, key) ==
    [AbsentRow EXCEPT
        !.status = "prepared", !.contract = spec[w], !.owner = Token(w), !.gen = 1,
        !.lease = ClaimTTL, !.key = key,
        !.window = IF spec[w] \in Supported THEN Retention ELSE 0]

ClaimedBy(w) ==
    [row EXCEPT !.owner = Token(w), !.lease = ClaimTTL, !.gen = @ + 1]

(* Mutant: reopening keeps the previous call's start mark.                 *)
ReopenedStillStarted(w) ==
    [ClaimedBy(w) EXCEPT
        !.status = "prepared", !.outcome = None, !.decision = None, !.result = NoToken]

(* Mutant: reopening takes the key that is active now.                     *)
ReopenedRekeyed(w) ==
    [ClaimedBy(w) EXCEPT
        !.status = "prepared", !.outcome = None, !.decision = None,
        !.result = NoToken, !.started = FALSE,
        !.key = IF @ \in Keys THEN CHOOSE k \in Keys : Keys # {@} => k # @ ELSE @]

ReopenedBy(w) ==
    [ClaimedBy(w) EXCEPT
        !.status = "prepared", !.outcome = None, !.decision = None,
        !.result = NoToken, !.started = FALSE]

Closed(outcome, decision, result) ==
    [row EXCEPT
        !.status = "terminal", !.owner = NoToken, !.lease = 0,
        !.outcome = outcome, !.decision = decision, !.result = result]

-----------------------------------------------------------------------------
Init ==
    /\ row = AbsentRow
    /\ pc = [w \in Workers |-> "ready"]
    /\ retries \in [Workers -> 0 .. MaxRetries]
    /\ spec = [w \in Workers |-> NoContract]
    /\ claim = [w \in Workers |-> NoClaim]
    /\ answer = [w \in Workers |-> NoAnswer]
    /\ output = [w \in Workers |-> NoToken]
    /\ call = [t \in Tokens |-> NoCall]

(* find_by_slot without a lock, then prepare_effect: an existing row's     *)
(* frozen contract wins over the deployed one.                             *)
FindBySlot(w) ==
    /\ pc[w] = "ready"
    /\ \E c \in Contracts :
          /\ row.status # "absent" => c = row.contract
          /\ spec' = [spec EXCEPT ![w] = c]
    /\ Goto(w, "found")
    /\ UNCHANGED <<row, retries, claim, answer, output, call>>

(* prepare_effect or the adapter's identity is refused before any claim.   *)
PrepareFails(w) ==
    /\ pc[w] = "ready"
    /\ Goto(w, "failed")
    /\ UNCHANGED <<row, retries, spec, claim, answer, output, call>>

(* acquire ends in CLAIMED; its commit may reach the database although the *)
(* call raises in the worker.                                              *)
Claim(w, claimed) ==
    /\ row' = claimed
    /\ \/ /\ claim' = [claim EXCEPT ![w] = [gen |-> claimed.gen, key |-> claimed.key]]
          /\ Goto(w, "claimed")
       \/ RaiseRetry(w) /\ UNCHANGED claim
    /\ UNCHANGED <<retries, spec, answer, output, call>>

AcquireNew(w) ==
    /\ pc[w] = "found"
    /\ row.status = "absent"
    /\ \E key \in IF spec[w] \in Supported THEN Keys ELSE {NoKey} :
          Claim(w, NewRow(w, key))

Acquiring(w) ==
    /\ pc[w] = "found"
    /\ row.status # "absent"
    /\ row.contract = spec[w]

AcquireConflict(w) ==
    /\ pc[w] = "found"
    /\ row.status # "absent"
    /\ row.contract # spec[w]
    /\ Goto(w, "failed")
    /\ UNCHANGED <<row, retries, spec, claim, answer, output, call>>

MayReopen(w) ==
    /\ row.decision \in Reopenable
    /\ AllowRetry(w)
    /\ row.decision = "replay_same_key" => WindowOpen

AcquireReopen(w) ==
    /\ Acquiring(w)
    /\ row.status = "terminal"
    /\ MayReopen(w)
    /\ Claim(w, ReopenedBy(w))

(* A terminal row that may not be reopened: a retry decision nobody may    *)
(* follow any more is turned into stop.                                    *)
AcquireTerminal(w) ==
    /\ Acquiring(w)
    /\ row.status = "terminal"
    /\ ~MayReopen(w)
    /\ LET decision == IF row.decision \in Reopenable THEN "stop" ELSE row.decision
       IN  /\ row' = [row EXCEPT !.decision = decision]
           /\ \/ TerminalResult(w, decision, row.result)
              \/ RaiseRetry(w) /\ UNCHANGED output
    /\ UNCHANGED <<retries, spec, claim, answer, call>>

(* The owner vanished after the point of no return: its outcome is unknown. *)
AcquireLostInFlight(w) ==
    /\ Acquiring(w)
    /\ row.status = "in_flight"
    /\ Expired
    /\ LET decision == Affordable(w, UnknownDecision)
       IN  /\ row' = Closed("effect_outcome_unknown", decision, NoToken)
           /\ \/ TerminalResult(w, decision, NoToken)
              \/ RaiseRetry(w) /\ UNCHANGED output
    /\ UNCHANGED <<retries, spec, claim, answer, call>>

(* Mutant: an expired claim is taken over also when its call may be out.   *)
AcquireTakeoverInFlight(w) ==
    /\ Acquiring(w)
    /\ row.status \in {"prepared", "in_flight"}
    /\ Expired
    /\ Claim(w, [ClaimedBy(w) EXCEPT !.status = "prepared", !.started = FALSE])

(* The owner vanished before the provider could have been called.          *)
AcquireTakeover(w) ==
    /\ Acquiring(w)
    /\ row.status = "prepared"
    /\ Expired
    /\ Claim(w, ClaimedBy(w))

AcquireWait(w) ==
    /\ Acquiring(w)
    /\ row.status \in {"prepared", "in_flight"}
    /\ ~Expired
    /\ Goto(w, "waiting")
    /\ UNCHANGED <<row, retries, spec, claim, answer, output, call>>

Acquire(w) ==
    \/ AcquireNew(w) \/ AcquireConflict(w) \/ AcquireReopen(w) \/ AcquireTerminal(w)
    \/ AcquireLostInFlight(w) \/ AcquireTakeover(w) \/ AcquireWait(w)

-----------------------------------------------------------------------------
(* wait_for_resolution polls without a lock.  A delivery out of retries    *)
(* that reads a retry decision goes on to stop_retry in a second session.  *)
WaitResolved(w) ==
    /\ pc[w] = "waiting"
    /\ row.status = "terminal"
    /\ IF row.decision \in Reopenable /\ ~AllowRetry(w)
       THEN /\ Goto(w, "stopping")
            /\ claim' = [claim EXCEPT ![w] = [gen |-> row.gen, key |-> row.key]]
            /\ UNCHANGED output
       ELSE /\ TerminalResult(w, row.decision, row.result)
            /\ UNCHANGED claim
    /\ UNCHANGED <<row, retries, spec, answer, call>>

(* Mutant: the wait only looks at the expiry of a prepared claim.          *)
WaitExpiredPrepared(w) ==
    /\ pc[w] = "waiting"
    /\ row.status = "prepared"
    /\ Expired
    /\ RaiseRetry(w)
    /\ UNCHANGED <<row, retries, spec, claim, answer, output, call>>

WaitExpired(w) ==
    /\ pc[w] = "waiting"
    /\ row.status # "terminal"
    /\ Expired
    /\ RaiseRetry(w)
    /\ UNCHANGED <<row, retries, spec, claim, answer, output, call>>

(* The deadline of the task ends the wait before the row is resolved.      *)
WaitTimeout(w) ==
    /\ pc[w] = "waiting"
    /\ row.status # "terminal"
    /\ ~Expired
    /\ RaiseRetry(w)
    /\ UNCHANGED <<row, retries, spec, claim, answer, output, call>>

(* stop_retry: compare-and-set on generation and decision; a row that has  *)
(* moved on is reported as it is now.                                      *)
StopRetry(w) ==
    /\ pc[w] = "stopping"
    /\ IF row.status = "terminal" /\ row.decision \in Reopenable /\ row.gen = claim[w].gen
       THEN row' = [row EXCEPT !.decision = "stop"] /\ TerminalResult(w, "stop", NoToken)
       ELSE row' = row /\ TerminalResult(w, row.decision, row.result)
    /\ UNCHANGED <<retries, spec, claim, answer, call>>

-----------------------------------------------------------------------------
Settle(w, outcome, decision, result) ==
    /\ answer' = [answer EXCEPT ![w] =
                    [outcome |-> outcome, decision |-> decision, result |-> result]]
    /\ Goto(w, "finishing")

(* The prepared request carries an error, or the key of the row cannot be  *)
(* rebuilt from this worker's keyring, or the final call is malformed.     *)
FinalizeFails(w) ==
    /\ pc[w] = "claimed"
    /\ Settle(w, "failed_before_effect", "stop", NoToken)
    /\ UNCHANGED <<row, retries, spec, claim, output, call>>

(* mark_in_flight: the commit that allows the provider call.  When the     *)
(* commit lands but the worker sees an error it does not call.             *)
MarkInFlight(w) ==
    /\ pc[w] = "claimed"
    /\ row.status = "prepared" /\ HoldsClaim(w)
    /\ row' = [row EXCEPT !.status = "in_flight", !.started = TRUE]
    /\ \/ /\ Goto(w, "in_flight")
          /\ call' = [call EXCEPT ![Token(w)].state = "marked"]
       \/ RaiseRetry(w) /\ UNCHANGED call
    /\ UNCHANGED <<retries, spec, claim, answer, output>>

MarkStale(w) ==
    /\ pc[w] = "claimed"
    /\ ~(row.status = "prepared" /\ HoldsClaim(w))
    /\ RaiseRetry(w)
    /\ UNCHANGED <<row, retries, spec, claim, answer, output, call>>

(* invoke_effect puts the request on the wire; nothing rechecks the claim  *)
(* or the deadline here.                                                   *)
InvokeEffect(w) ==
    /\ pc[w] = "in_flight"
    /\ call' = [call EXCEPT ![Token(w)] =
                  [state |-> "sent", key |-> claim[w].key]]
    /\ Goto(w, "calling")
    /\ UNCHANGED <<row, retries, spec, claim, answer, output>>

(* The provider, at any time after the request left, whatever became of    *)
(* the worker that sent it.                                                *)
ProviderApplies(t) ==
    /\ call[t].state = "sent"
    /\ call' = [call EXCEPT ![t].state = "applied"]
    /\ UNCHANGED <<row, pc, retries, spec, claim, answer, output>>

ProviderRefuses(t) ==
    /\ call[t].state = "sent"
    /\ call' = [call EXCEPT ![t].state = "refused"]
    /\ UNCHANGED <<row, pc, retries, spec, claim, answer, output>>

(* A complete answer; replay_projection may still fail.                    *)
AnswerSucceeded(w) ==
    /\ pc[w] = "calling"
    /\ call[Token(w)].state = "applied"
    /\ \/ /\ spec[w] \in Reusable
          /\ Settle(w, "succeeded", "reuse_result", Token(w))
       \/ Settle(w, "succeeded", "result_unavailable", NoToken)
    /\ UNCHANGED <<row, retries, spec, claim, output, call>>

(* Mutant: an answer that never came is taken for a refusal.               *)
AnswerRefusedOrLost(w) ==
    /\ pc[w] = "calling"
    /\ call[Token(w)].state # "applied"
    /\ \E decision \in {"retry_before_effect", "stop"} :
          Settle(w, "failed_before_effect", Affordable(w, decision), NoToken)
    /\ UNCHANGED <<row, retries, spec, claim, output, call>>

(* The adapter proves that the provider made no effect.                    *)
AnswerRefused(w) ==
    /\ pc[w] = "calling"
    /\ call[Token(w)].state = "refused"
    /\ \E decision \in {"retry_before_effect", "stop"} :
          Settle(w, "failed_before_effect", Affordable(w, decision), NoToken)
    /\ UNCHANGED <<row, retries, spec, claim, output, call>>

(* Timeouts, disconnects, malformed answers, untyped exceptions.  The      *)
(* worker's own clock may read the deadline as passed when it is not.      *)
AnswerUnknown(w) ==
    /\ pc[w] = "calling"
    /\ \E decision \in {"stop"} \cup (IF spec[w] \in Supported THEN {"replay_same_key"} ELSE {}) :
          Settle(w, "effect_outcome_unknown", Affordable(w, decision), NoToken)
    /\ UNCHANGED <<row, retries, spec, claim, output, call>>

(* finish decides a replay again with the database clock.                  *)
Recorded(w) ==
    IF answer[w].decision = "replay_same_key" THEN UnknownDecision ELSE answer[w].decision

(* finish: the verdict is committed before anything is returned.           *)
Finish(w) ==
    /\ pc[w] = "finishing"
    /\ row.status \in {"prepared", "in_flight"} /\ HoldsClaim(w)
    /\ row' = Closed(answer[w].outcome, Recorded(w), answer[w].result)
    /\ \/ /\ answer[w].outcome = "succeeded"
          /\ Goto(w, "returned")
          /\ output' = [output EXCEPT ![w] = Token(w)]
       \/ /\ answer[w].outcome # "succeeded"
          /\ TerminalResult(w, Recorded(w), NoToken)
       \/ RaiseRetry(w) /\ UNCHANGED output
    /\ UNCHANGED <<retries, spec, claim, answer, call>>

(* Mutant: the output is returned although the verdict was not committed.  *)
FinishStaleReturns(w) ==
    /\ pc[w] = "finishing"
    /\ ~(row.status \in {"prepared", "in_flight"} /\ HoldsClaim(w))
    /\ answer[w].outcome = "succeeded"
    /\ Goto(w, "returned")
    /\ output' = [output EXCEPT ![w] = Token(w)]
    /\ UNCHANGED <<row, retries, spec, claim, answer, call>>

FinishStale(w) ==
    /\ pc[w] = "finishing"
    /\ ~(row.status \in {"prepared", "in_flight"} /\ HoldsClaim(w))
    /\ RaiseRetry(w)
    /\ UNCHANGED <<row, retries, spec, claim, answer, output, call>>

-----------------------------------------------------------------------------
(* A repository call that fails without committing.                        *)
RepositoryUnavailable(w) ==
    /\ pc[w] \in {"ready", "found", "waiting", "claimed", "finishing", "stopping"}
    /\ IF pc[w] = "stopping" THEN Goto(w, "failed") ELSE RaiseRetry(w)
    /\ UNCHANGED <<row, retries, spec, claim, answer, output, call>>

(* Celery runs the task again, or gives up a retry signal it cannot serve. *)
CeleryRetry(w) ==
    /\ pc[w] = "retry"
    /\ IF AllowRetry(w)
       THEN /\ Goto(w, "ready")
            /\ retries' = [retries EXCEPT ![w] = @ + 1]
       ELSE Goto(w, "failed") /\ UNCHANGED retries
    /\ spec' = [spec EXCEPT ![w] = NoContract]
    /\ claim' = [claim EXCEPT ![w] = NoClaim]
    /\ answer' = [answer EXCEPT ![w] = NoAnswer]
    /\ UNCHANGED <<row, output, call>>

(* The worker process is lost: time limit, kill, or host failure.          *)
Crash(w) ==
    /\ pc[w] \notin Ended
    /\ Goto(w, "crashed")
    /\ UNCHANGED <<row, retries, spec, claim, answer, output, call>>

(* The database clock moves on.                                            *)
Tick ==
    /\ row.lease > 0 \/ row.window > 0
    /\ row' = [row EXCEPT !.lease = IF @ > 0 THEN @ - 1 ELSE 0,
                          !.window = IF @ > 0 THEN @ - 1 ELSE 0]
    /\ UNCHANGED <<pc, retries, spec, claim, answer, output, call>>

Provider(t) == ProviderApplies(t) \/ ProviderRefuses(t)

(* What a delivery does by itself, without failing.                        *)
Progress(w) ==
    \/ FindBySlot(w) \/ Acquire(w)
    \/ WaitResolved(w) \/ WaitExpired(w) \/ StopRetry(w)
    \/ MarkInFlight(w) \/ MarkStale(w) \/ InvokeEffect(w)
    \/ AnswerSucceeded(w) \/ AnswerRefused(w) \/ AnswerUnknown(w)
    \/ Finish(w) \/ FinishStale(w) \/ CeleryRetry(w)

Failure(w) ==
    \/ PrepareFails(w) \/ FinalizeFails(w) \/ WaitTimeout(w)
    \/ RepositoryUnavailable(w) \/ Crash(w)

Next ==
    \/ \E w \in Workers : Progress(w) \/ Failure(w)
    \/ \E t \in Tokens : Provider(t)
    \/ Tick

Spec == Init /\ [][Next]_vars

FairSpec == Spec /\ WF_vars(Tick) /\ \A w \in Workers : WF_vars(Progress(w))

-----------------------------------------------------------------------------
(* Types.                                                                  *)

RowType ==
    [status : Statuses, contract : Contracts \cup {NoContract},
     owner : Tokens \cup {NoToken}, gen : Nat, lease : 0 .. ClaimTTL,
     window : 0 .. Retention, started : BOOLEAN, outcome : Outcomes \cup {None},
     decision : Decisions \cup {None}, result : Tokens \cup {NoToken},
     key : Keys \cup {NoKey}]

(* Every variable stays in its type.                                       *)
TypeOK ==
    /\ row \in RowType
    /\ pc \in [Workers -> PCs]
    /\ retries \in [Workers -> 0 .. MaxRetries]
    /\ spec \in [Workers -> Contracts \cup {NoContract}]
    /\ claim \in [Workers -> [gen : Nat, key : Keys \cup {NoKey}]]
    /\ answer \in [Workers -> [outcome : Outcomes \cup {None},
                               decision : Decisions \cup {None},
                               result : Tokens \cup {NoToken}]]
    /\ output \in [Workers -> Tokens \cup {NoToken}]
    /\ call \in [Tokens -> [state : CallStates, key : Keys \cup {NoKey}]]

(* The CHECK constraints of workflow_node_effect_attempts: no path through *)
(* claim, reopen, expiry, finish and stop_retry leaves a row the database  *)
(* would reject.                                                           *)
RowShape ==
    \/ row = AbsentRow
    \/ /\ row.status = "prepared"
       /\ row.owner # NoToken /\ ~row.started
       /\ row.outcome = None /\ row.decision = None /\ row.result = NoToken
    \/ /\ row.status = "in_flight"
       /\ row.owner # NoToken /\ row.started
       /\ row.outcome = None /\ row.decision = None /\ row.result = NoToken
    \/ /\ row.status = "terminal"
       /\ row.owner = NoToken
       /\ \/ /\ row.outcome = "succeeded" /\ row.started
             /\ row.decision \in {"reuse_result", "result_unavailable"}
          \/ /\ row.outcome = "failed_before_effect"
             /\ row.decision \in {"retry_before_effect", "stop"}
          \/ /\ row.outcome = "effect_outcome_unknown" /\ row.started
             /\ row.decision \in {"replay_same_key", "stop"}
       /\ row.decision = "replay_same_key" => row.contract \in Supported
       /\ row.decision = "reuse_result" <=> row.result # NoToken

Settled == row.status = "terminal" /\ row.decision \in Final

(* A provider that does not deduplicate is called at most once with        *)
(* possible effect, over every delivery, retry, crash and expired claim;   *)
(* calls a dead worker left on the wire count.                             *)
AtMostOneEffect ==
    row.contract \notin Supported =>
        \A t, u \in Tokens :
            call[t].state \in MayTakeEffect /\ call[u].state \in MayTakeEffect => t = u

(* Every call of the slot carries the key the first claim froze, whatever  *)
(* key version later deliveries have active.                               *)
OneKey ==
    \A t \in Tokens : call[t].state \in {"sent", "applied", "refused"} => call[t].key = row.key

(* A node gets output only when the success is committed, only from a call *)
(* the provider applied, and all deliveries get that of one call.          *)
OneCommittedAnswer ==
    /\ \A w \in Workers : output[w] # NoToken =>
          /\ row.status = "terminal" /\ row.outcome = "succeeded"
          /\ call[output[w]].state = "applied"
    /\ \A v, w \in Workers :
          output[v] # NoToken /\ output[w] # NoToken => output[v] = output[w]

(* "failed_before_effect" is a promise that nothing happened: for a        *)
(* provider without replay no call of the slot can still take effect.      *)
VerdictIsTrue ==
    row.outcome = "failed_before_effect" /\ row.contract \notin Supported =>
        \A t \in Tokens : call[t].state \notin MayTakeEffect

(* No delivery that is not killed waits for ever, also behind a dead owner. *)
EveryDeliveryEnds == \A w \in Workers : <>(pc[w] \in Ended)

-----------------------------------------------------------------------------
(* The slot's promise, and the mapping of a row onto it.                   *)
Winner ==
    IF row.result # NoToken THEN row.result
    ELSE IF \E w \in Workers : output[w] # NoToken
         THEN output[CHOOSE w \in Workers : output[w] # NoToken]
         ELSE NoToken

Slot == INSTANCE EffectSlot WITH
    Readers <- Workers,
    Calls <- Tokens,
    NoCall <- NoToken,
    mode <- IF row.status = "absent" THEN "open"
            ELSE IF row.contract \in Supported THEN "dedup" ELSE "single",
    state <- [t \in Tokens |-> call[t].state],
    verdict <- IF ~Settled THEN "pending"
               ELSE IF row.outcome = "succeeded" THEN "succeeded" ELSE "abandoned",
    winner <- Winner,
    told <- output

(* The row protocol implements the slot's promise.                         *)
KeepsPromise == Slot!Spec

(* What a document says of the replay deadline, and the code does not do:  *)
(* once the deadline has come, nothing that may have been called before    *)
(* becomes callable again.                                                 *)
NoReopenAfterDeadline ==
    [][ row.status = "terminal" /\ row'.status = "prepared"
        /\ (\E t \in Tokens : call[t].state \in MayTakeEffect)
        => row.window > 0 ]_vars
=============================================================================
