---------------------- MODULE ExternalEffectSlot_proofs ----------------------

(***************************************************************************)
(* Two results about ExternalEffect that go beyond IInv: the rows written  *)
(* satisfy the table's CHECK constraints, and the protocol of rows, claims *)
(* and retries implements the promise stated in EffectSlot.                *)
(***************************************************************************)
EXTENDS ExternalEffect_proofs

(* Who can own a row after a step: its old owner, nobody, or a delivery    *)
(* that has just acquired it.                                              *)
LEMMA OwnerStep ==
  ASSUME IInv, [Next]_vars
  PROVE  \/ row'.owner = row.owner /\ (row'.status = row.status \/ row'.status = "in_flight")
         \/ row'.owner = NoToken
         \/ \E w \in Workers : pc[w] = "found" /\ row'.owner = Token(w)
  <1>0. row \in RowType /\ RowInv
    BY DEF IInv, TypeOK
  <1>1. ASSUME NEW w \in Workers, Quiet(w) \/ WaitResolved(w) \/ InvokeEffect(w) PROVE row' = row
    BY <1>1, QuietStutters DEF WaitResolved, InvokeEffect
  <1>2. ASSUME NEW w \in Workers, AcquireNew(w) \/ AcquireReopen(w) \/ AcquireTakeover(w)
        PROVE  pc[w] = "found" /\ row'.owner = Token(w)
    <2>1. pc[w] = "found"
      BY <1>2 DEF AcquireNew, AcquireReopen, AcquireTakeover, Acquiring
    <2>2. CASE AcquireNew(w)
      <3>1. PICK key : row' = NewRow(w, key)
        BY <2>2 DEF AcquireNew, Claim
      <3> QED
        BY <2>1, <3>1 DEF NewRow, AbsentRow
    <2>3. CASE AcquireReopen(w) \/ AcquireTakeover(w)
      BY <1>0, <2>1, <2>3 DEF AcquireReopen, AcquireTakeover, Claim, ReopenedBy, ClaimedBy, RowType
    <2> QED
      BY <1>2, <2>1, <2>2, <2>3
  <1>3. ASSUME NEW w \in Workers, AcquireTerminal(w) \/ StopRetry(w)
        PROVE  row'.owner = row.owner /\ row'.status = row.status
    BY <1>0, <1>3 DEF AcquireTerminal, StopRetry, RowType
  <1>4. ASSUME NEW w \in Workers, AcquireLostInFlight(w) \/ Finish(w) PROVE row'.owner = NoToken
    BY <1>0, <1>4 DEF AcquireLostInFlight, Finish, Closed, RowType
  <1>5. ASSUME NEW w \in Workers, MarkInFlight(w)
        PROVE  row'.owner = row.owner /\ row'.status = "in_flight"
    BY <1>0, <1>5 DEF MarkInFlight, RowType
  <1>6. ASSUME NEW t \in Tokens, Provider(t) PROVE row' = row
    BY <1>6 DEF Provider, ProviderApplies, ProviderRefuses
  <1>7. CASE Tick
    BY <1>0, <1>7 DEF Tick, RowType
  <1>8. CASE UNCHANGED vars
    BY <1>8 DEF vars
  <1> QED
    BY <1>1, <1>2, <1>3, <1>4, <1>5, <1>6, <1>7, <1>8, StepCases

(* Only mark_in_flight makes a delivery one that has marked the row.       *)
LEMMA MarkedStep ==
  ASSUME IInv, [Next]_vars, NEW v \in Workers, HasMarked(v)'
  PROVE  \/ HasMarked(v) /\ Token(v)' = Token(v)
         \/ row'.status = "in_flight"
  <1>0. TypeOK /\ row \in RowType
    BY DEF IInv, TypeOK
  <1>1. CASE pc'[v] = pc[v] /\ answer'[v] = answer[v] /\ retries'[v] = retries[v]
    BY <1>1 DEF HasMarked, Token
  <1>2. ASSUME Progress(v) \/ Failure(v)
        PROVE (HasMarked(v) /\ Token(v)' = Token(v)) \/ row'.status = "in_flight"
    <2>1. CASE MarkInFlight(v)
      BY <1>0, <2>1 DEF MarkInFlight, RowType
    <2>2. CASE InvokeEffect(v) \/ AnswerSucceeded(v) \/ AnswerRefused(v) \/ AnswerUnknown(v)
      BY <2>2 DEF InvokeEffect, AnswerSucceeded, AnswerRefused, AnswerUnknown, HasMarked, Token
    <2>3. CASE FinalizeFails(v)
      BY <1>0, <2>3 DEF FinalizeFails, Settle, Goto, HasMarked, TypeOK
    <2>4. CASE FindBySlot(v) \/ AcquireNew(v) \/ AcquireReopen(v) \/ AcquireTakeover(v)
      BY <1>0, <2>4 DEF FindBySlot, AcquireNew, AcquireReopen, AcquireTakeover, Acquiring, Claim,
         RaiseRetry, Goto, HasMarked, TypeOK
    <2>5. CASE \/ PrepareFails(v) \/ AcquireConflict(v) \/ AcquireWait(v) \/ AcquireTerminal(v)
               \/ AcquireLostInFlight(v) \/ WaitResolved(v) \/ WaitExpired(v) \/ WaitTimeout(v)
               \/ StopRetry(v) \/ MarkStale(v) \/ Finish(v) \/ FinishStale(v)
               \/ RepositoryUnavailable(v) \/ CeleryRetry(v) \/ Crash(v)
      <3>1. pc'[v] \notin {"in_flight", "calling", "finishing"}
        BY <1>0, <2>5 DEF PrepareFails, AcquireConflict, AcquireWait, AcquireTerminal,
           AcquireLostInFlight, WaitResolved, WaitExpired, WaitTimeout, StopRetry, MarkStale, Finish,
           FinishStale, RepositoryUnavailable, CeleryRetry, Crash, TerminalResult, RaiseRetry, Goto,
           TypeOK
      <3> QED
        BY <3>1 DEF HasMarked
    <2> QED
      BY <1>2, <2>1, <2>2, <2>3, <2>4, <2>5 DEF Progress, Failure, Acquire
  <1>3. ASSUME NEW w \in Workers, w # v, Progress(w) \/ Failure(w)
        PROVE pc'[v] = pc[v] /\ answer'[v] = answer[v] /\ retries'[v] = retries[v]
    BY <1>0, <1>3, OthersStay
  <1>4. CASE (\E t \in Tokens : Provider(t)) \/ Tick \/ UNCHANGED vars
    BY <1>1, <1>4 DEF Provider, ProviderApplies, ProviderRefuses, Tick, vars
  <1> QED
    BY <1>1, <1>2, <1>3, <1>4 DEF Next

LEMMA StartedStep ==
  ASSUME IInv, StartedInv, [Next]_vars
  PROVE  StartedInv'
  <1> SUFFICES ASSUME NEW v \in Workers, HasMarked(v)', row'.owner = Token(v)'
               PROVE  row'.status = "in_flight"
    BY DEF StartedInv
  <1> SUFFICES ASSUME HasMarked(v), Token(v)' = Token(v)
               PROVE  row'.status = "in_flight"
    BY MarkedStep
  <1>1. TypeOK /\ Token(v) # NoToken
    BY TokenType DEF IInv
  <1>2. \A w \in Workers : pc[w] = "found" => Token(w) # Token(v)
    BY DEF HasMarked, Token
  <1> QED
    BY <1>1, <1>2, OwnerStep DEF StartedInv

(* A retry decision turned into stop leaves the row in shape.              *)
LEMMA StoppedShape ==
  ASSUME IInv, RowShape, row.status = "terminal", row.decision \in Reopenable,
         row' = [row EXCEPT !.decision = "stop"]
  PROVE  RowShape'
  <1>1. row \in RowType
    BY DEF IInv, TypeOK
  <1>2. /\ row'.status = "terminal" /\ row'.owner = row.owner /\ row'.outcome = row.outcome
        /\ row'.started = row.started /\ row'.decision = "stop" /\ row'.result = row.result
    BY <1>1 DEF RowType
  <1>3. row # AbsentRow
    BY DEF AbsentRow
  <1> QED
    BY <1>2, <1>3 DEF RowShape, Reopenable

(* Each verdict with a decision that goes with it, over a started row      *)
(* unless the verdict is that nothing happened.                            *)
LEMMA ClosedShape ==
  ASSUME IInv, NEW o, NEW d, NEW r, row' = Closed(o, d, r),
         \/ o = "succeeded" /\ row.started /\ d \in {"reuse_result", "result_unavailable"}
         \/ o = "failed_before_effect" /\ d \in {"retry_before_effect", "stop"}
         \/ /\ o = "effect_outcome_unknown" /\ row.started
            /\ d \in {"replay_same_key", "stop"}
            /\ d = "replay_same_key" => row.contract \in Supported,
         d = "reuse_result" <=> r # NoToken
  PROVE  RowShape'
  <1>1. row \in RowType
    BY DEF IInv, TypeOK
  <1>2. /\ row'.status = "terminal" /\ row'.owner = NoToken /\ row'.outcome = o
        /\ row'.started = row.started /\ row'.decision = d /\ row'.result = r
        /\ row'.contract = row.contract
    BY <1>1 DEF RowType, Closed
  <1> QED
    BY <1>2 DEF RowShape

LEMMA FinishShape ==
  ASSUME ShapeInv, NEW w \in Workers, Finish(w)
  PROVE  RowShape'
  <1>1. /\ row.owner = Token(w) /\ AnswerFits(w) /\ row.status \in {"prepared", "in_flight"}
    BY FinishFacts DEF ShapeInv
  <1>2. row' = Closed(answer[w].outcome, Recorded(w), answer[w].result) /\ pc[w] = "finishing"
    BY DEF Finish
  <1>3. answer[w].outcome # "failed_before_effect" => row.started
    <2>1. SUFFICES ASSUME answer[w].outcome # "failed_before_effect" PROVE row.started
      OBVIOUS
    <2>2. row.status = "in_flight"
      BY <1>1, <1>2, <2>1 DEF ShapeInv, StartedInv, HasMarked
    <2>3. row # AbsentRow
      BY <2>2 DEF AbsentRow
    <2> QED
      BY <2>2, <2>3 DEF ShapeInv, RowShape
  <1>4. Token(w) # NoToken
    BY TokenType DEF ShapeInv, IInv
  <1>5. /\ answer[w].decision = "replay_same_key" =>
             /\ Recorded(w) \in {"replay_same_key", "stop"}
             /\ Recorded(w) = "replay_same_key" => row.contract \in Supported
        /\ answer[w].decision # "replay_same_key" => Recorded(w) = answer[w].decision
    BY DEF Recorded, UnknownDecision, WindowOpen
  <1> DEFINE o == answer[w].outcome
             r == answer[w].result
             d == Recorded(w)
  <1>6. /\ \/ o = "succeeded" /\ row.started /\ d \in {"reuse_result", "result_unavailable"}
           \/ o = "failed_before_effect" /\ d \in {"retry_before_effect", "stop"}
           \/ /\ o = "effect_outcome_unknown" /\ row.started
              /\ d \in {"replay_same_key", "stop"}
              /\ d = "replay_same_key" => row.contract \in Supported
        /\ d = "reuse_result" <=> r # NoToken
    BY <1>1, <1>3, <1>4, <1>5 DEF AnswerFits, Outcomes
  <1>7. row' = Closed(o, d, r) /\ IInv
    BY <1>2 DEF ShapeInv
  <1> HIDE DEF o, r, d
  <1> QED
    BY <1>6, <1>7, ClosedShape

(* No write of the repository breaks a CHECK constraint of the table.      *)
LEMMA ShapeStep ==
  ASSUME ShapeInv, [Next]_vars
  PROVE  RowShape'
  <1>0. row \in RowType /\ RowInv /\ RowShape /\ IInv
    BY DEF ShapeInv, IInv, TypeOK
  <1>1. ASSUME row' = row PROVE RowShape'
    BY <1>0, <1>1 DEF RowShape
  <1>2. ASSUME NEW w \in Workers, Quiet(w) \/ WaitResolved(w) \/ InvokeEffect(w) PROVE row' = row
    BY <1>2, QuietStutters DEF WaitResolved, InvokeEffect
  <1>3. ASSUME NEW w \in Workers, AcquireNew(w) PROVE RowShape'
    <2>1. PICK key : row' = NewRow(w, key)
      BY <1>3 DEF AcquireNew, Claim
    <2>2. Token(w) # NoToken
      BY <1>0, TokenType DEF IInv
    <2> QED
      BY <2>1, <2>2 DEF NewRow, AbsentRow, RowShape
  <1>4. ASSUME NEW w \in Workers, AcquireReopen(w) PROVE RowShape'
    BY <1>0, <1>4, TokenType DEF AcquireReopen, Claim, ReopenedBy, ClaimedBy, RowType, RowShape, IInv
  <1>5. ASSUME NEW w \in Workers, AcquireTakeover(w) PROVE RowShape'
    <2>1. row.status = "prepared" /\ row' = ClaimedBy(w) /\ Token(w) # NoToken
      BY <1>0, <1>5, TokenType DEF AcquireTakeover, Claim, IInv
    <2>2. row # AbsentRow
      BY <2>1 DEF AbsentRow
    <2> QED
      BY <1>0, <2>1, <2>2 DEF RowShape, ClaimedBy, RowType
  <1>6. ASSUME NEW w \in Workers, AcquireTerminal(w) \/ StopRetry(w) PROVE RowShape'
    <2>1. \/ row' = row
          \/ /\ row.status = "terminal" /\ row.decision \in Reopenable
             /\ row' = [row EXCEPT !.decision = "stop"]
      BY <1>0, <1>6 DEF AcquireTerminal, StopRetry, RowType
    <2> QED
      BY <1>0, <1>1, <2>1, StoppedShape
  <1>7. ASSUME NEW w \in Workers, AcquireLostInFlight(w) PROVE RowShape'
    <2> DEFINE d == Affordable(w, UnknownDecision)
    <2>1. row.status = "in_flight" /\ row' = Closed("effect_outcome_unknown", d, NoToken)
      BY <1>7 DEF AcquireLostInFlight
    <2>2. row # AbsentRow
      BY <2>1 DEF AbsentRow
    <2>3. row.started
      BY <1>0, <2>1, <2>2 DEF RowShape
    <2>4. d \in {"replay_same_key", "stop"} /\ (d = "replay_same_key" => row.contract \in Supported)
      BY DEF Affordable, UnknownDecision, WindowOpen
    <2> HIDE DEF d
    <2> QED
      BY <1>0, <2>1, <2>3, <2>4, ClosedShape
  <1>8. ASSUME NEW w \in Workers, MarkInFlight(w) PROVE RowShape'
    <2>1. row.status = "prepared" /\ row' = [row EXCEPT !.status = "in_flight", !.started = TRUE]
      BY <1>8 DEF MarkInFlight
    <2>2. row # AbsentRow
      BY <2>1 DEF AbsentRow
    <2> QED
      BY <1>0, <2>1, <2>2 DEF RowShape, RowType
  <1>9. ASSUME NEW w \in Workers, Finish(w) PROVE RowShape'
    BY <1>9, FinishShape
  <1>10. ASSUME NEW t \in Tokens, Provider(t) PROVE row' = row
    BY <1>10 DEF Provider, ProviderApplies, ProviderRefuses
  <1>11. CASE Tick
    <2>1. row.lease > 0 \/ row.window > 0
      BY <1>11 DEF Tick
    <2>2. row # AbsentRow
      BY <2>1 DEF AbsentRow
    <2> QED
      BY <1>0, <1>11, <2>2 DEF Tick, RowShape, RowType
  <1>12. CASE UNCHANGED vars
    BY <1>1, <1>12 DEF vars
  <1> QED
    BY <1>1, <1>2, <1>3, <1>4, <1>5, <1>6, <1>7, <1>8, <1>9, <1>10, <1>11, <1>12, StepCases

LEMMA ShapeInvariance == Spec => []ShapeInv
  <1>1. Init => ShapeInv
    BY InitIInv DEF Init, ShapeInv, RowShape, StartedInv, HasMarked
  <1>2. ShapeInv /\ [Next]_vars => ShapeInv'
    BY Inductive, StartedStep, ShapeStep DEF ShapeInv
  <1> QED
    BY <1>1, <1>2, PTL DEF Spec

(* No path through claim, reopen, expiry, finish and stop_retry leaves a   *)
(* row that the CHECK constraints of workflow_node_effect_attempts reject. *)
THEOREM ConstraintsHold == Spec => []RowShape
  <1>1. ShapeInv => RowShape
    BY DEF ShapeInv
  <1> QED
    BY <1>1, ShapeInvariance, PTL

(***************************************************************************)
(* The refinement.  Mode, Verdict, State and WinnerOf name what KeepsPromise *)
(* substitutes for the variables of EffectSlot, and one lemma per action   *)
(* of EffectSlot says when a step of the protocol is that action.          *)
(***************************************************************************)
Mode ==
    IF row.status = "absent" THEN "open"
    ELSE IF row.contract \in Supported THEN "dedup" ELSE "single"

Verdict ==
    IF ~Settled THEN "pending" ELSE IF row.outcome = "succeeded" THEN "succeeded" ELSE "abandoned"

State == [t \in Tokens |-> call[t].state]

WinnerOf(result, told) ==
    IF result # NoToken THEN result
    ELSE IF \E w \in Workers : told[w] # NoToken
         THEN told[CHOOSE w \in Workers : told[w] # NoToken]
         ELSE NoToken

LEMMA WinnerByDef == Winner = WinnerOf(row.result, output)
  BY DEF Winner, WinnerOf

LEMMA WinnerByDefNext == Winner' = WinnerOf(row'.result, output')
  BY DEF Winner, WinnerOf

(* Whatever a delivery was told is the winner.                             *)
LEMMA WinnerTold ==
  ASSUME NEW r, NEW o, NEW w \in Workers, o[w] # NoToken,
         r # NoToken => o[w] = r,
         \A u, v \in Workers : o[u] # NoToken /\ o[v] # NoToken => o[u] = o[v]
  PROVE  WinnerOf(r, o) = o[w]
  <1>1. CASE r # NoToken
    BY <1>1 DEF WinnerOf
  <1>2. CASE r = NoToken
    <2> DEFINE u == CHOOSE v \in Workers : o[v] # NoToken
    <2>1. u \in Workers /\ o[u] # NoToken
      OBVIOUS
    <2>2. WinnerOf(r, o) = o[u]
      BY <1>2 DEF WinnerOf
    <2> HIDE DEF u
    <2> QED
      BY <2>1, <2>2
  <1> QED
    BY <1>1, <1>2

LEMMA WinnerUntold ==
  ASSUME NEW r, NEW o, \A w \in Workers : o[w] = NoToken
  PROVE  WinnerOf(r, o) = r
  BY DEF WinnerOf

(* What a step that the slot does not see leaves alone.                    *)
Frame == Mode' = Mode /\ Verdict' = Verdict /\ State' = State /\ Winner' = Winner /\ output' = output

LEMMA ToStutter ==
  ASSUME Frame
  PROVE  UNCHANGED Slot!vars
  BY DEF Frame, Slot!vars, Mode, Verdict, State

LEMMA ToFreeze ==
  ASSUME Mode = "open", Mode' \in {"dedup", "single"}, Verdict' = Verdict, State' = State,
         Winner' = Winner, output' = output
  PROVE  Slot!Freeze
  BY DEF Slot!Freeze, Mode, Verdict, State

LEMMA ToLicense ==
  ASSUME NEW c \in Tokens, Mode # "open", Verdict = "pending", State[c] = "none",
         Mode = "single" => \A d \in Tokens : State[d] \notin MayTakeEffect,
         State' = [State EXCEPT ![c] = "marked"],
         Mode' = Mode, Verdict' = Verdict, Winner' = Winner, output' = output
  PROVE  Slot!License(c)
  BY DEF Slot!License, Slot!MayTakeEffect, MayTakeEffect, Mode, Verdict, State

LEMMA ToSend ==
  ASSUME NEW c \in Tokens, State[c] = "marked", State' = [State EXCEPT ![c] = "sent"],
         Mode' = Mode, Verdict' = Verdict, Winner' = Winner, output' = output
  PROVE  Slot!Send(c)
  BY DEF Slot!Send, Mode, Verdict, State

LEMMA ToDecide ==
  ASSUME NEW c \in Tokens, State[c] = "sent", NEW s \in {"applied", "refused"},
         State' = [State EXCEPT ![c] = s],
         Mode' = Mode, Verdict' = Verdict, Winner' = Winner, output' = output
  PROVE  Slot!Decide(c)
  BY DEF Slot!Decide, Mode, Verdict, State

LEMMA ToAbandon ==
  ASSUME Verdict = "pending", Verdict' = "abandoned",
         Mode' = Mode, State' = State, Winner' = Winner, output' = output
  PROVE  Slot!Abandon
  BY DEF Slot!Abandon, Mode, Verdict, State

LEMMA ToRead ==
  ASSUME Verdict = "succeeded", Mode' = Mode, State' = State, Winner' = Winner, Verdict' = Verdict,
         output' \in [Workers -> {Winner', NoToken}],
         \A w \in Workers : output[w] # NoToken => output'[w] = output[w]
  PROVE  Slot!Read
  BY DEF Slot!Read, Slot!Tell, Mode, Verdict, State

LEMMA ToSucceed ==
  ASSUME NEW c \in Tokens, Verdict = "pending", State[c] = "applied", Verdict' = "succeeded",
         Winner' \in {c, NoToken}, Mode' = Mode, State' = State,
         output' \in [Workers -> {Winner', NoToken}],
         \A w \in Workers : output[w] # NoToken => output'[w] = output[w]
  PROVE  Slot!Succeed(c)
  BY DEF Slot!Succeed, Slot!Tell, Mode, Verdict, State

(* What the provider sees of a step.                                       *)
LEMMA StateSame ==
  ASSUME call' = call
  PROVE  State' = State
  BY DEF State

LEMMA StateStep ==
  ASSUME TypeOK, NEW t \in Tokens, NEW s, NEW k,
         \/ call' = [call EXCEPT ![t].state = s]
         \/ call' = [call EXCEPT ![t] = [state |-> s, key |-> k]]
  PROVE  State' = [State EXCEPT ![t] = s]
  <1>1. \A u \in Tokens : call'[u].state = IF u = t THEN s ELSE call[u].state
    BY DEF TypeOK
  <1>2. State' = [u \in Tokens |-> call'[u].state]
    BY DEF State
  <1> QED
    BY <1>1, <1>2 DEF State

(* A step on which the columns the slot looks at stay.                     *)
LEMMA SameColumns ==
  ASSUME row'.status = row.status, row'.contract = row.contract, row'.outcome = row.outcome,
         row'.decision = row.decision, row'.result = row.result, output' = output
  PROVE  Mode' = Mode /\ Verdict' = Verdict /\ Winner' = Winner
  BY WinnerByDef, WinnerByDefNext DEF Mode, Verdict, Settled

LEMMA SameWinner ==
  ASSUME row'.result = row.result, output' = output
  PROVE  Winner' = Winner
  BY WinnerByDef, WinnerByDefNext

LEMMA SameMode ==
  ASSUME row'.contract = row.contract, row.status # "absent", row'.status # "absent"
  PROVE  Mode' = Mode /\ Mode # "open"
  BY DEF Mode

LEMMA FreezeStep ==
  ASSUME IInv, NEW w \in Workers, AcquireNew(w)
  PROVE  Slot!Freeze
  <1>1. PICK key : row' = NewRow(w, key)
    BY DEF AcquireNew, Claim
  <1>2. row = AbsentRow /\ row.status = "absent" /\ call' = call /\ output' = output
    BY DEF AcquireNew, Claim, IInv, AbsentInv
  <1>3. row'.status = "prepared" /\ row'.result = NoToken /\ row.result = NoToken
    BY <1>1, <1>2 DEF NewRow, AbsentRow
  <1>4. Mode = "open" /\ Mode' \in {"dedup", "single"} /\ Verdict = "pending" /\ Verdict' = "pending"
    BY <1>2, <1>3 DEF Mode, Verdict, Settled
  <1>5. Winner' = Winner /\ State' = State
    BY <1>2, <1>3, SameWinner, StateSame
  <1> QED
    BY <1>2, <1>4, <1>5, ToFreeze

LEMMA ClaimStutters ==
  ASSUME IInv, NEW w \in Workers, AcquireReopen(w) \/ AcquireTakeover(w)
  PROVE  Frame
  <1>0. row \in RowType /\ RowInv
    BY DEF IInv, TypeOK
  <1>1. /\ call' = call /\ output' = output /\ row.status \in {"terminal", "prepared"}
        /\ row.status = "terminal" => row.decision \in Reopenable
    BY DEF AcquireReopen, AcquireTakeover, MayReopen, Claim
  <1>2. row'.status = "prepared" /\ row'.contract = row.contract
    BY <1>0, ZenonT(30) DEF AcquireReopen, AcquireTakeover, Claim, ReopenedBy, ClaimedBy, RowType
  <1>3. row.result = NoToken
    BY <1>0, <1>1 DEF RowInv, Reopenable
  <1>4. row'.result = NoToken
    BY <1>0, <1>3 DEF AcquireReopen, AcquireTakeover, Claim, ReopenedBy, ClaimedBy, RowType
  <1>5. Verdict = "pending" /\ Verdict' = "pending"
    BY <1>1, <1>2 DEF Verdict, Settled, Reopenable, Final
  <1> QED
    BY <1>1, <1>2, <1>3, <1>4, <1>5, SameMode, SameWinner, StateSame DEF Frame

(* Reading a settled row: the stored result, or nothing.                   *)
LEMMA ReadStep ==
  ASSUME IInv, NEW w \in Workers, row' = row, call' = call, row.status = "terminal",
         row.decision = "reuse_result", output' = [output EXCEPT ![w] = row.result]
  PROVE  Slot!Read
  <1>1. /\ row.outcome = "succeeded" /\ row.result # NoToken
        /\ output \in [Workers -> Tokens \cup {NoToken}]
        /\ \A v \in Workers : output[v] # NoToken => output[v] = row.result
    BY DEF IInv, RowInv, OutputInv, TypeOK
  <1>2. Winner = row.result /\ Winner' = row.result
    BY <1>1, WinnerByDef, WinnerByDefNext DEF WinnerOf
  <1>3. Verdict = "succeeded" /\ Verdict' = Verdict /\ Mode' = Mode
    BY <1>1 DEF Verdict, Settled, Final, Mode
  <1>4. State' = State
    BY StateSame
  <1>5. /\ output' \in [Workers -> {Winner', NoToken}]
        /\ \A v \in Workers : output[v] # NoToken => output'[v] = output[v]
    BY <1>1, <1>2
  <1> QED
    BY <1>2, <1>3, <1>4, <1>5, ToRead

LEMMA SameRow ==
  ASSUME row' = row, call' = call, output' = output
  PROVE  Frame
  BY SameColumns, StateSame DEF Frame

LEMMA ReadOrStutter ==
  ASSUME IInv, NEW w \in Workers, row' = row, call' = call, row.status = "terminal",
         \/ output' = output
         \/ TerminalResult(w, row.decision, row.result)
  PROVE  Slot!Read \/ Frame
  BY ReadStep, SameRow DEF TerminalResult

(* A pending slot is closed over to a decision nobody follows up.          *)
LEMMA StopStep ==
  ASSUME IInv, NEW w \in Workers, row.status = "terminal", row.decision \in Reopenable,
         row' = [row EXCEPT !.decision = "stop"], call' = call, output' = output
  PROVE  Slot!Abandon
  <1>0. row \in RowType /\ RowInv
    BY DEF IInv, TypeOK
  <1>1. /\ row'.status = "terminal" /\ row'.decision = "stop" /\ row'.outcome = row.outcome
        /\ row'.contract = row.contract /\ row'.result = row.result
    BY <1>0 DEF RowType
  <1>2. row.outcome # "succeeded"
    BY <1>0 DEF RowInv, Reopenable
  <1>3. Verdict = "pending" /\ Verdict' = "abandoned"
    BY <1>1, <1>2 DEF Verdict, Settled, Reopenable, Final
  <1> QED
    BY <1>1, <1>3, SameMode, SameWinner, StateSame, ToAbandon

LEMMA TerminalStep ==
  ASSUME IInv, NEW w \in Workers, AcquireTerminal(w) \/ StopRetry(w) \/ WaitResolved(w)
  PROVE  Slot!Abandon \/ Slot!Read \/ Frame
  <1>0. row \in RowType /\ RowInv /\ call' = call
    BY DEF IInv, TypeOK, AcquireTerminal, StopRetry, WaitResolved
  <1>1. CASE AcquireTerminal(w) /\ row.decision \in Reopenable
    <2>1. row.status = "terminal" /\ row' = [row EXCEPT !.decision = "stop"]
      BY <1>1 DEF AcquireTerminal
    <2>2. output' = output
      BY <1>1 DEF AcquireTerminal, TerminalResult, Reopenable
    <2> QED
      BY <1>0, <1>1, <2>1, <2>2, StopStep
  <1>2. CASE AcquireTerminal(w) /\ row.decision \notin Reopenable
    <2>1. /\ row.status = "terminal" /\ row' = row
          /\ TerminalResult(w, row.decision, row.result) \/ output' = output
      BY <1>0, <1>2 DEF AcquireTerminal, RowType
    <2> QED
      BY <1>0, <2>1, ReadOrStutter
  <1>3. CASE StopRetry(w)
    <2>1. CASE row.status = "terminal" /\ row.decision \in Reopenable /\ row.gen = claim[w].gen
      <3>1. row' = [row EXCEPT !.decision = "stop"] /\ output' = output
        BY <1>3, <2>1 DEF StopRetry, TerminalResult, Reopenable
      <3> QED
        BY <1>0, <2>1, <3>1, StopStep
    <2>2. CASE ~(row.status = "terminal" /\ row.decision \in Reopenable /\ row.gen = claim[w].gen)
      <3>1. row' = row /\ TerminalResult(w, row.decision, row.result)
        BY <1>3, <2>2 DEF StopRetry
      <3>2. CASE row.status = "terminal"
        BY <1>0, <3>1, <3>2, ReadOrStutter
      <3>3. CASE row.status # "terminal"
        <4>1. row.decision # "reuse_result"
          BY <1>0, <3>3 DEF IInv, RowInv, AbsentInv, AbsentRow, RowType, Statuses, None
        <4>2. output' = output
          BY <3>1, <4>1 DEF TerminalResult
        <4> QED
          BY <1>0, <3>1, <4>2, SameRow
      <3> QED
        BY <3>2, <3>3
    <2> QED
      BY <2>1, <2>2
  <1>4. CASE WaitResolved(w)
    <2>1. /\ row.status = "terminal" /\ row' = row
          /\ TerminalResult(w, row.decision, row.result) \/ output' = output
      BY <1>4 DEF WaitResolved
    <2> QED
      BY <1>0, <2>1, ReadOrStutter
  <1> QED
    BY <1>1, <1>2, <1>3, <1>4

LEMMA LostStep ==
  ASSUME IInv, NEW w \in Workers, AcquireLostInFlight(w)
  PROVE  Slot!Abandon \/ Frame
  <1> DEFINE d == Affordable(w, UnknownDecision)
  <1>0. row \in RowType /\ RowInv /\ call' = call /\ row.status = "in_flight"
    BY DEF IInv, TypeOK, AcquireLostInFlight
  <1>1. row' = Closed("effect_outcome_unknown", d, NoToken)
    BY DEF AcquireLostInFlight
  <1>2. d \in {"replay_same_key", "stop"}
    BY DEF Affordable, UnknownDecision
  <1>3. TerminalResult(w, d, NoToken) \/ output' = output
    BY DEF AcquireLostInFlight
  <1> HIDE DEF d
  <1>4. output' = output
    BY <1>2, <1>3 DEF TerminalResult
  <1>5. /\ row'.status = "terminal" /\ row'.decision = d /\ row'.outcome = "effect_outcome_unknown"
        /\ row'.result = NoToken /\ row.result = NoToken /\ row'.contract = row.contract
    BY <1>0, <1>1 DEF Closed, RowType, RowInv
  <1>6. Verdict = "pending"
    BY <1>0 DEF Verdict, Settled
  <1>7. /\ d = "replay_same_key" => Verdict' = "pending"
        /\ d = "stop" => Verdict' = "abandoned"
    BY <1>5 DEF Verdict, Settled, Final
  <1>8. Mode' = Mode /\ Winner' = Winner /\ State' = State
    BY <1>0, <1>4, <1>5, SameMode, SameWinner, StateSame
  <1> QED
    BY <1>2, <1>4, <1>6, <1>7, <1>8, ToAbandon DEF Frame

(* mark_in_flight licenses the call.                                       *)
LEMMA LicenseStep ==
  ASSUME IInv, NEW w \in Workers, MarkInFlight(w)
  PROVE  (\E t \in Tokens : Slot!License(t)) \/ Frame
  <1>0. row \in RowType /\ RowInv /\ TypeOK /\ row.status = "prepared" /\ output' = output
        /\ Token(w) \in Tokens
    BY TokenType DEF IInv, TypeOK, MarkInFlight
  <1> PICK t \in Tokens : t = Token(w)
    BY <1>0
  <1>1. /\ row'.status = "in_flight" /\ row'.contract = row.contract /\ row'.result = row.result
        /\ Verdict = "pending" /\ Verdict' = "pending"
    BY <1>0 DEF MarkInFlight, RowType, Verdict, Settled
  <1>2. Mode' = Mode /\ Mode # "open" /\ Winner' = Winner
    BY <1>0, <1>1, SameMode, SameWinner
  <1>3. CASE call' = call
    BY <1>0, <1>1, <1>2, <1>3, StateSame DEF Frame
  <1>4. CASE call' = [call EXCEPT ![Token(w)].state = "marked"]
    <2>1. State' = [State EXCEPT ![t] = "marked"]
      BY <1>0, <1>4, StateStep
    <2>2. State[t] = "none"
      BY <1>0 DEF IInv, FreshInv, MarkInFlight, State
    <2>3. Mode = "single" => \A c \in Tokens : State[c] \notin MayTakeEffect
      BY <1>0 DEF Mode, IInv, WireInv, Live, State
    <2> QED
      BY <1>0, <1>1, <1>2, <2>1, <2>2, <2>3, ToLicense
  <1> QED
    BY <1>3, <1>4 DEF MarkInFlight

LEMMA SendStep ==
  ASSUME IInv, NEW w \in Workers, InvokeEffect(w)
  PROVE  \E t \in Tokens : Slot!Send(t)
  <1>0. /\ TypeOK /\ Token(w) \in Tokens /\ row' = row /\ output' = output
        /\ call' = [call EXCEPT ![Token(w)] = [state |-> "sent", key |-> claim[w].key]]
    BY TokenType DEF IInv, InvokeEffect
  <1> PICK t \in Tokens : t = Token(w)
    BY <1>0
  <1>1. State' = [State EXCEPT ![t] = "sent"]
    BY <1>0, StateStep
  <1>2. State[t] = "marked"
    BY <1>0 DEF IInv, HolderInv, HolderFits, InvokeEffect, State
  <1> QED
    BY <1>0, <1>1, <1>2, SameColumns, ToSend

LEMMA DecideStep ==
  ASSUME IInv, NEW t \in Tokens, Provider(t)
  PROVE  Slot!Decide(t)
  <1>0. TypeOK /\ row' = row /\ output' = output
    BY DEF IInv, Provider, ProviderApplies, ProviderRefuses
  <1>1. PICK s \in {"applied", "refused"} : call' = [call EXCEPT ![t].state = s]
    BY DEF Provider, ProviderApplies, ProviderRefuses
  <1>2. State' = [State EXCEPT ![t] = s]
    BY <1>0, <1>1, StateStep
  <1>3. State[t] = "sent"
    BY DEF Provider, ProviderApplies, ProviderRefuses, State
  <1> QED
    BY <1>0, <1>2, <1>3, SameColumns, ToDecide

(* finish settles the slot, or leaves it open to another attempt.          *)
LEMMA SettleStep ==
  ASSUME IInv, NEW w \in Workers, Finish(w)
  PROVE  (\E t \in Tokens : Slot!Succeed(t)) \/ Slot!Abandon \/ Frame
  <1>0. /\ TypeOK /\ row \in RowType /\ RowInv /\ Token(w) \in Tokens /\ Token(w) # NoToken
        /\ row.status \in {"prepared", "in_flight"} /\ row.result = NoToken
    BY TokenType DEF IInv, TypeOK, RowInv, Finish
  <1>1. /\ AnswerFits(w) /\ call' = call
        /\ row'.status = "terminal" /\ row'.contract = row.contract
        /\ row'.outcome = answer[w].outcome /\ row'.result = answer[w].result
        /\ row'.decision = Recorded(w)
    BY FinishFacts
  <1>2. \A v \in Workers : output[v] = NoToken
    BY <1>0, NothingTold
  <1>3. Mode' = Mode /\ State' = State /\ Verdict = "pending"
    BY <1>0, <1>1, SameMode, StateSame DEF Verdict, Settled
  <1> PICK t \in Tokens : t = Token(w)
    BY <1>0
  <1>4. CASE answer[w].outcome = "succeeded"
    <2>1. /\ row'.decision \in {"reuse_result", "result_unavailable"}
          /\ row'.result \in {t, NoToken} /\ State[t] = "applied"
      BY <1>1, <1>4 DEF AnswerFits, Recorded, State
    <2>2. Verdict' = "succeeded"
      BY <1>1, <1>4, <2>1 DEF Verdict, Settled, Final
    <2>3. CASE output' = [output EXCEPT ![w] = t]
      <3>1. /\ output' \in [Workers -> {t, NoToken}] /\ output'[w] = t
            /\ \A u, v \in Workers :
                  output'[u] # NoToken /\ output'[v] # NoToken => output'[u] = output'[v]
        BY <1>0, <1>2, <2>3 DEF TypeOK
      <3>2. Winner' = t
        BY <1>0, <2>1, <3>1, WinnerTold, WinnerByDefNext
      <3>3. \A v \in Workers : output[v] # NoToken => output'[v] = output[v]
        BY <1>2
      <3> QED
        BY <1>3, <2>1, <2>2, <3>1, <3>2, <3>3, ToSucceed
    <2>4. CASE output' = output
      <3>1. Winner' = row'.result
        BY <1>2, <2>4, WinnerUntold, WinnerByDefNext
      <3>2. output' \in [Workers -> {Winner', NoToken}]
        BY <1>0, <1>2, <2>4 DEF TypeOK
      <3>3. \A v \in Workers : output[v] # NoToken => output'[v] = output[v]
        BY <1>2
      <3>4. Winner' \in {t, NoToken}
        BY <2>1, <3>1
      <3> QED
        BY <1>3, <2>1, <2>2, <3>2, <3>3, <3>4, ToSucceed
    <2> QED
      BY <1>4, <2>3, <2>4 DEF Finish
  <1>5. CASE answer[w].outcome # "succeeded"
    <2>1. /\ row'.outcome # "succeeded" /\ row'.result = NoToken
          /\ row'.decision \in {"retry_before_effect", "replay_same_key", "stop"}
      BY <1>1, <1>5 DEF AnswerFits, Recorded, UnknownDecision, Outcomes
    <2>2. output' = output
      BY <1>1, <1>5, <2>1 DEF Finish, TerminalResult
    <2>3. Verdict' = "pending" \/ Verdict' = "abandoned"
      BY <1>1, <2>1 DEF Verdict
    <2>4. Winner' = Winner
      BY <1>0, <2>1, <2>2, SameWinner
    <2> QED
      BY <1>3, <2>2, <2>3, <2>4, ToAbandon DEF Frame
  <1> QED
    BY <1>4, <1>5

LEMMA InitRefines == Init => Slot!Init
  <1> SUFFICES ASSUME Init PROVE Slot!Init
    OBVIOUS
  <1>1. /\ row.status = "absent" /\ row.result = NoToken
        /\ \A w \in Workers : output[w] = NoToken
        /\ output = [w \in Workers |-> NoToken]
        /\ \A t \in Tokens : call[t].state = "none"
    BY DEF Init, AbsentRow, NoCall
  <1>2. Winner = NoToken
    BY <1>1, WinnerUntold, WinnerByDef
  <1> QED
    BY <1>1, <1>2 DEF Slot!Init, Settled

(* Every step of the protocol is a step of the slot or leaves it alone.    *)
LEMMA StepRefines ==
  ASSUME IInv, [Next]_vars
  PROVE  [Slot!Next]_Slot!vars
  <1>0. row \in RowType
    BY DEF IInv, TypeOK
  <1>1. ASSUME NEW w \in Workers, Quiet(w) PROVE Frame
    BY <1>1, QuietStutters, SameRow
  <1>2. ASSUME Tick PROVE Frame
    <2>1. /\ row'.status = row.status /\ row'.contract = row.contract
          /\ row'.outcome = row.outcome /\ row'.decision = row.decision
          /\ row'.result = row.result /\ output' = output /\ call' = call
      BY <1>0, <1>2 DEF Tick, RowType
    <2> QED
      BY <2>1, SameColumns, StateSame DEF Frame
  <1>3. ASSUME UNCHANGED vars PROVE Frame
    BY <1>3, SameRow DEF vars
  <1> DEFINE Call == \E t \in Tokens :
                        Slot!License(t) \/ Slot!Send(t) \/ Slot!Decide(t) \/ Slot!Succeed(t)
  <1>4. ASSUME NEW w \in Workers, AcquireNew(w) PROVE Slot!Freeze
    BY <1>4, FreezeStep
  <1>5. ASSUME NEW w \in Workers, AcquireReopen(w) \/ AcquireTakeover(w) PROVE Frame
    BY <1>5, ClaimStutters
  <1>6. ASSUME NEW w \in Workers, AcquireTerminal(w) \/ StopRetry(w) \/ WaitResolved(w)
        PROVE  Slot!Abandon \/ Slot!Read \/ Frame
    BY <1>6, TerminalStep
  <1>7. ASSUME NEW w \in Workers, AcquireLostInFlight(w) PROVE Slot!Abandon \/ Frame
    BY <1>7, LostStep
  <1>8. ASSUME NEW w \in Workers, MarkInFlight(w) PROVE Call \/ Frame
    BY <1>8, LicenseStep
  <1>9. ASSUME NEW w \in Workers, InvokeEffect(w) PROVE Call
    BY <1>9, SendStep
  <1>10. ASSUME NEW t \in Tokens, Provider(t) PROVE Call
    BY <1>10, DecideStep
  <1>11. ASSUME NEW w \in Workers, Finish(w) PROVE Call \/ Slot!Abandon \/ Frame
    BY <1>11, SettleStep
  <1>12. Call => Slot!Next
    BY DEF Slot!Next
  <1>13. Slot!Freeze \/ Slot!Abandon \/ Slot!Read => Slot!Next
    BY DEF Slot!Next
  <1> HIDE DEF Call
  <1>14. Frame \/ Call \/ Slot!Freeze \/ Slot!Abandon \/ Slot!Read
    BY <1>1, <1>2, <1>3, <1>4, <1>5, <1>6, <1>7, <1>8, <1>9, <1>10, <1>11, StepCases
  <1> QED
    BY <1>12, <1>13, <1>14, ToStutter

(* The rows, claims, leases and retries of execute and its repository keep *)
(* the slot's promise: a call is licensed before it is sent, a provider    *)
(* without replay is licensed again only when no earlier call can take     *)
(* effect, the slot is settled at most once, and only the output of a      *)
(* settled success is ever handed to a node.                               *)
THEOREM Implements == Spec => KeepsPromise
  <1>1. Spec => []IInv
    BY Invariance
  <1>2. Init => Slot!Init
    BY InitRefines
  <1>3. IInv /\ [Next]_vars => [Slot!Next]_Slot!vars
    BY StepRefines
  <1> QED
    BY <1>1, <1>2, <1>3, PTL DEF KeepsPromise, Spec, Slot!Spec
=============================================================================
