------------------------ MODULE ExternalEffect_proofs ------------------------

(* Machine-checked proofs of ExternalEffect's safety, for every set of     *)
(* deliveries, contracts and keys and every lease, retention and budget.   *)
EXTENDS ExternalEffectInv, TLAPS

LEMMA NoTokenFresh == NoToken \notin Tokens
  BY DEF NoToken, Tokens

LEMMA TokenType ==
  ASSUME TypeOK, NEW w \in Workers
  PROVE  Token(w) \in Tokens /\ Token(w) # NoToken
  BY NoTokenFresh DEF TypeOK, Token, Tokens

LEMMA InitIInv == Init => IInv
  <1> SUFFICES ASSUME Init PROVE IInv
    OBVIOUS
  <1>1. TypeOK
    BY ContractAssumption, TimeAssumption, RetryAssumption
       DEF Init, TypeOK, RowType, AbsentRow, NoClaim, NoAnswer, NoCall, Statuses, PCs, CallStates,
           Holding, Ended
  <1>2. AbsentInv /\ RowInv /\ WireInv /\ OutputInv /\ OneKey
    BY DEF Init, AbsentInv, RowInv, WireInv, OutputInv, OneKey, AbsentRow, NoCall, Live, MayTakeEffect
  <1>3. FreshInv /\ HolderInv
    BY RetryAssumption DEF Init, FreshInv, HolderInv, HolderFits, Token, Tokens, NoCall, Holding
  <1> QED
    BY <1>1, <1>2, <1>3 DEF IInv

LEMMA RowParts ==
  ASSUME NEW r \in RowType
  PROVE /\ r.gen \in Nat /\ r.key \in Keys \cup {NoKey} /\ r.gen + 1 \in Nat
        /\ r.contract \in Contracts \cup {NoContract}
        /\ r.decision \in Decisions \cup {None}
        /\ r.result \in Tokens \cup {NoToken}
        /\ r.lease \in 0 .. ClaimTTL /\ r.window \in 0 .. Retention
  BY DEF RowType

LEMMA Bounds ==
  /\ 0 \in 0 .. ClaimTTL /\ ClaimTTL \in 0 .. ClaimTTL
  /\ 0 \in 0 .. Retention /\ Retention \in 0 .. Retention
  /\ 0 \in Nat /\ 1 \in Nat
  BY TimeAssumption

(* The rows the repository writes are rows.                                *)
LEMMA ClosedType ==
  ASSUME row \in RowType, NEW o \in Outcomes, NEW d \in Decisions, NEW r \in Tokens \cup {NoToken}
  PROVE  Closed(o, d, r) \in RowType
  BY Bounds DEF RowType, Closed, Statuses

LEMMA NewRowType ==
  ASSUME NEW w \in Workers, NEW key \in Keys \cup {NoKey},
         spec[w] \in Contracts \cup {NoContract}, Token(w) \in Tokens
  PROVE  NewRow(w, key) \in RowType
  BY Bounds DEF RowType, NewRow, AbsentRow, Statuses

LEMMA ClaimedType ==
  ASSUME row \in RowType, NEW w \in Workers, Token(w) \in Tokens
  PROVE  ClaimedBy(w) \in RowType
  <1> DEFINE g == row.gen + 1
  <1>1. g \in Nat BY RowParts
  <1> QED BY <1>1, Bounds DEF RowType, ClaimedBy

LEMMA ReopenedType ==
  ASSUME row \in RowType, NEW w \in Workers, Token(w) \in Tokens
  PROVE  ReopenedBy(w) \in RowType
  BY ClaimedType DEF RowType, ReopenedBy, Statuses

LEMMA DecisionType ==
  ASSUME NEW r \in RowType, NEW d \in Decisions \cup {None}
  PROVE  [r EXCEPT !.decision = d] \in RowType
  BY DEF RowType

LEMMA MarkedType ==
  ASSUME NEW r \in RowType
  PROVE  [r EXCEPT !.status = "in_flight", !.started = TRUE] \in RowType
  BY DEF RowType, Statuses

LEMMA TickType ==
  ASSUME row \in RowType, Tick
  PROVE  row' \in RowType
  <1> DEFINE l == IF row.lease > 0 THEN row.lease - 1 ELSE 0
             v == IF row.window > 0 THEN row.window - 1 ELSE 0
  <1>1. l \in 0 .. ClaimTTL /\ v \in 0 .. Retention
    BY RowParts, TimeAssumption
  <1>2. row' = [row EXCEPT !.lease = l, !.window = v]
    BY DEF Tick
  <1> HIDE DEF l, v
  <1> QED
    BY <1>1, <1>2 DEF RowType

(* The ways a step ends.                                                   *)
LEMMA SettleType ==
  ASSUME TypeOK, NEW w \in Workers, NEW o \in Outcomes, NEW d \in Decisions,
         NEW r \in Tokens \cup {NoToken}, Settle(w, o, d, r)
  PROVE  /\ answer' \in [Workers -> [outcome : Outcomes \cup {None},
                                    decision : Decisions \cup {None},
                                    result : Tokens \cup {NoToken}]]
         /\ pc' \in [Workers -> PCs]
  BY DEF TypeOK, Settle, Goto, PCs, Holding

LEMMA TerminalResultType ==
  ASSUME TypeOK, NEW w \in Workers, NEW d, NEW r \in Tokens \cup {NoToken},
         TerminalResult(w, d, r)
  PROVE  output' \in [Workers -> Tokens \cup {NoToken}] /\ pc' \in [Workers -> PCs]
  <1>1. output \in [Workers -> Tokens \cup {NoToken}] /\ pc \in [Workers -> PCs]
    BY DEF TypeOK
  <1>2. output' = output \/ output' = [output EXCEPT ![w] = r]
    BY DEF TerminalResult
  <1>3. PICK state \in {"returned", "retry", "failed"} : pc' = [pc EXCEPT ![w] = state]
    BY DEF TerminalResult, Goto
  <1>4. state \in PCs
    BY DEF PCs, Ended
  <1> QED
    BY <1>1, <1>2, <1>3, <1>4

LEMMA RaiseType ==
  ASSUME TypeOK, NEW w \in Workers, RaiseRetry(w)
  PROVE  pc' \in [Workers -> PCs]
  BY DEF TypeOK, RaiseRetry, Goto, PCs, Ended

LEMMA ClaimType ==
  ASSUME TypeOK, NEW w \in Workers, NEW r \in RowType, Claim(w, r)
  PROVE  TypeOK'
  <1>1. claim' \in [Workers -> [gen : Nat, key : Keys \cup {NoKey}]]
    BY RowParts DEF Claim, TypeOK
  <1>2. pc' \in [Workers -> PCs]
    BY RaiseType DEF TypeOK, Claim, Goto, PCs, Holding
  <1> QED
    BY <1>1, <1>2 DEF TypeOK, Claim

LEMMA CallType ==
  ASSUME TypeOK, NEW t \in Tokens, NEW s \in CallStates, call' = [call EXCEPT ![t].state = s]
  PROVE  call' \in [Tokens -> [state : CallStates, key : Keys \cup {NoKey}]]
  BY DEF TypeOK

LEMMA DecisionTypes ==
  /\ UnknownDecision \in Decisions
  /\ \A w \in Workers : \A d \in Decisions : Affordable(w, d) \in Decisions
  /\ \A d \in Reopenable \cup Final : d \in Decisions
  BY DEF UnknownDecision, Affordable, Decisions, Reopenable, Final

(* Every step keeps the types.                                             *)
LEMMA TypeStep ==
  ASSUME TypeOK, AbsentInv, RowInv, FreshInv, HolderInv, [Next]_vars
  PROVE  TypeOK'
  <1>0. row \in RowType
    BY DEF TypeOK
  <1>1. CASE UNCHANGED vars
    BY <1>1 DEF TypeOK, vars
  <1>2. ASSUME NEW w \in Workers, FindBySlot(w) PROVE TypeOK'
    BY <1>2 DEF FindBySlot, TypeOK, Goto, PCs
  <1>3. ASSUME NEW w \in Workers,
               PrepareFails(w) \/ AcquireConflict(w) \/ AcquireWait(w) \/ Crash(w)
        PROVE TypeOK'
    BY <1>3 DEF PrepareFails, AcquireConflict, AcquireWait, Crash, TypeOK, Goto, PCs, Ended
  <1>4. ASSUME NEW w \in Workers,
               WaitExpired(w) \/ WaitTimeout(w) \/ MarkStale(w) \/ FinishStale(w)
        PROVE TypeOK'
    BY <1>4, RaiseType DEF WaitExpired, WaitTimeout, MarkStale, FinishStale, TypeOK
  <1>5. ASSUME NEW w \in Workers, RepositoryUnavailable(w) PROVE TypeOK'
    BY <1>5, RaiseType DEF RepositoryUnavailable, TypeOK, Goto, PCs, Ended
  <1>6. ASSUME NEW w \in Workers, AcquireNew(w) PROVE TypeOK'
    <2>1. PICK key \in Keys \cup {NoKey} : Claim(w, NewRow(w, key))
      BY <1>6 DEF AcquireNew
    <2>2. spec[w] \in Contracts \cup {NoContract}
      BY DEF TypeOK
    <2>3. NewRow(w, key) \in RowType
      BY <2>2, TokenType, NewRowType
    <2> QED
      BY <2>1, <2>3, ClaimType
  <1>7. ASSUME NEW w \in Workers, AcquireReopen(w) PROVE TypeOK'
    BY <1>7, <1>0, TokenType, ReopenedType, ClaimType DEF AcquireReopen
  <1>8. ASSUME NEW w \in Workers, AcquireTakeover(w) PROVE TypeOK'
    BY <1>8, <1>0, TokenType, ClaimedType, ClaimType DEF AcquireTakeover
  <1>9. ASSUME NEW w \in Workers, AcquireTerminal(w) PROVE TypeOK'
    <2> DEFINE d == IF row.decision \in Reopenable THEN "stop" ELSE row.decision
    <2>1. d \in Decisions \cup {None} /\ row.result \in Tokens \cup {NoToken}
      BY <1>0, RowParts DEF Decisions, Final
    <2>2. /\ row' = [row EXCEPT !.decision = d]
          /\ TerminalResult(w, d, row.result) \/ (RaiseRetry(w) /\ UNCHANGED output)
          /\ UNCHANGED <<retries, spec, claim, answer, call>>
      BY <1>9 DEF AcquireTerminal
    <2> HIDE DEF d
    <2> QED
      BY <1>0, <2>1, <2>2, DecisionType, TerminalResultType, RaiseType DEF TypeOK
  <1>10. ASSUME NEW w \in Workers, AcquireLostInFlight(w) PROVE TypeOK'
    <2> DEFINE d == Affordable(w, UnknownDecision)
    <2>1. d \in Decisions /\ "effect_outcome_unknown" \in Outcomes
      BY DecisionTypes DEF Outcomes
    <2>2. /\ row' = Closed("effect_outcome_unknown", d, NoToken)
          /\ TerminalResult(w, d, NoToken) \/ (RaiseRetry(w) /\ UNCHANGED output)
          /\ UNCHANGED <<retries, spec, claim, answer, call>>
      BY <1>10 DEF AcquireLostInFlight
    <2> HIDE DEF d
    <2> QED
      BY <1>0, <2>1, <2>2, ClosedType, TerminalResultType, RaiseType DEF TypeOK
  <1>11. ASSUME NEW w \in Workers, WaitResolved(w) PROVE TypeOK'
    <2>1. /\ row.result \in Tokens \cup {NoToken}
          /\ [gen |-> row.gen, key |-> row.key] \in [gen : Nat, key : Keys \cup {NoKey}]
      BY <1>0, RowParts
    <2>2. CASE row.decision \in Reopenable /\ ~AllowRetry(w)
      <3>1. claim' \in [Workers -> [gen : Nat, key : Keys \cup {NoKey}]]
        BY <1>11, <2>1, <2>2 DEF WaitResolved, TypeOK
      <3> QED
        BY <1>11, <2>2, <3>1 DEF WaitResolved, TypeOK, Goto, PCs
    <2>3. CASE ~(row.decision \in Reopenable /\ ~AllowRetry(w))
      BY <1>11, <2>1, <2>3, TerminalResultType DEF WaitResolved, TypeOK
    <2> QED
      BY <2>2, <2>3
  <1>12. ASSUME NEW w \in Workers, StopRetry(w) PROVE TypeOK'
    <2>1. row.result \in Tokens \cup {NoToken} /\ NoToken \in Tokens \cup {NoToken}
      BY <1>0, RowParts
    <2>2. row' \in RowType
      BY <1>0, <1>12, DecisionType, DecisionTypes DEF StopRetry, Final
    <2>3. \E d, r : r \in Tokens \cup {NoToken} /\ TerminalResult(w, d, r)
      BY <1>12, <2>1 DEF StopRetry
    <2> QED
      BY <1>12, <2>2, <2>3, TerminalResultType DEF StopRetry, TypeOK
  <1>13. ASSUME NEW w \in Workers, FinalizeFails(w) PROVE TypeOK'
    BY <1>13, SettleType, DecisionTypes DEF FinalizeFails, TypeOK, Outcomes, Final
  <1>14. ASSUME NEW w \in Workers, MarkInFlight(w) PROVE TypeOK'
    <2>1. row' \in RowType
      BY <1>0, <1>14, MarkedType DEF MarkInFlight
    <2>2. call' \in [Tokens -> [state : CallStates, key : Keys \cup {NoKey}]]
      BY <1>14, TokenType, CallType DEF MarkInFlight, CallStates, TypeOK
    <2>3. pc' \in [Workers -> PCs]
      BY <1>14, RaiseType DEF MarkInFlight, TypeOK, Goto, PCs, Holding
    <2> QED
      BY <1>14, <2>1, <2>2, <2>3 DEF MarkInFlight, TypeOK
  <1>15. ASSUME NEW w \in Workers, InvokeEffect(w) PROVE TypeOK'
    <2>1. call' \in [Tokens -> [state : CallStates, key : Keys \cup {NoKey}]]
      BY <1>15, TokenType DEF InvokeEffect, CallStates, TypeOK
    <2> QED
      BY <1>15, <2>1 DEF InvokeEffect, TypeOK, Goto, PCs, Holding
  <1>16. ASSUME NEW w \in Workers, AnswerSucceeded(w) PROVE TypeOK'
    BY <1>16, TokenType, SettleType, DecisionTypes DEF AnswerSucceeded, TypeOK, Outcomes, Final
  <1>17. ASSUME NEW w \in Workers, AnswerRefused(w) PROVE TypeOK'
    BY <1>17, SettleType, DecisionTypes
       DEF AnswerRefused, TypeOK, Outcomes, Final, Reopenable
  <1>18. ASSUME NEW w \in Workers, AnswerUnknown(w) PROVE TypeOK'
    BY <1>18, SettleType, DecisionTypes
       DEF AnswerUnknown, TypeOK, Outcomes, Final, Reopenable
  <1>19. ASSUME NEW w \in Workers, Finish(w) PROVE TypeOK'
    <2>1. /\ answer[w].outcome \in Outcomes
          /\ answer[w].decision \in Decisions
          /\ answer[w].result \in Tokens \cup {NoToken}
      BY <1>19 DEF Finish, HolderInv, HolderFits, AnswerFits, TypeOK
    <2>2. Recorded(w) \in Decisions
      BY <2>1, DecisionTypes DEF Recorded
    <2>3. row' \in RowType
      BY <1>0, <1>19, <2>1, <2>2, ClosedType DEF Finish
    <2>4. output' \in [Workers -> Tokens \cup {NoToken}] /\ pc' \in [Workers -> PCs]
      BY <1>19, TokenType, TerminalResultType, RaiseType, ZenonT(30) DEF Finish, TypeOK, Goto, PCs, Ended
    <2> QED
      BY <1>19, <2>3, <2>4 DEF Finish, TypeOK
  <1>20. ASSUME NEW w \in Workers, CeleryRetry(w) PROVE TypeOK'
    <2>1. retries' \in [Workers -> 0 .. MaxRetries]
      BY <1>20, RetryAssumption DEF CeleryRetry, AllowRetry, TypeOK
    <2>2. pc' \in [Workers -> PCs]
      BY <1>20 DEF CeleryRetry, TypeOK, Goto, PCs, Ended
    <2> QED
      BY <1>20, <2>1, <2>2 DEF CeleryRetry, TypeOK, NoClaim, NoAnswer
  <1>21. ASSUME NEW t \in Tokens, Provider(t) PROVE TypeOK'
    BY <1>21, CallType DEF Provider, ProviderApplies, ProviderRefuses, CallStates, TypeOK
  <1>22. CASE Tick
    BY <1>0, <1>22, TickType DEF Tick, TypeOK
  <1> QED
    BY <1>1, <1>2, <1>3, <1>4, <1>5, <1>6, <1>7, <1>8, <1>9, <1>10, <1>11, <1>12, <1>13,
       <1>14, <1>15, <1>16, <1>17, <1>18, <1>19, <1>20, <1>21, <1>22
       DEF Next, Progress, Failure, Acquire

(***************************************************************************)
(* The inductive invariant.  Quiet steps of a delivery change neither the  *)
(* row, nor a call, nor what was handed out; the others get a step each.   *)
(***************************************************************************)
Quiet(w) ==
    \/ FindBySlot(w) \/ PrepareFails(w) \/ AcquireConflict(w) \/ AcquireWait(w)
    \/ WaitExpired(w) \/ WaitTimeout(w) \/ FinalizeFails(w) \/ MarkStale(w)
    \/ AnswerSucceeded(w) \/ AnswerRefused(w) \/ AnswerUnknown(w)
    \/ FinishStale(w) \/ RepositoryUnavailable(w) \/ CeleryRetry(w) \/ Crash(w)

LEMMA QuietStutters ==
  ASSUME NEW w \in Workers, Quiet(w)
  PROVE  row' = row /\ call' = call /\ output' = output
  BY DEF Quiet, FindBySlot, PrepareFails, AcquireConflict, AcquireWait,
     WaitExpired, WaitTimeout, FinalizeFails, MarkStale, AnswerSucceeded, AnswerRefused,
     AnswerUnknown, FinishStale, RepositoryUnavailable, CeleryRetry, Crash

LEMMA StepCases ==
  ASSUME [Next]_vars
  PROVE  \/ UNCHANGED vars
         \/ \E w \in Workers :
              \/ Quiet(w) \/ AcquireNew(w) \/ AcquireReopen(w) \/ AcquireTakeover(w)
              \/ AcquireTerminal(w) \/ AcquireLostInFlight(w) \/ WaitResolved(w)
              \/ StopRetry(w) \/ MarkInFlight(w) \/ InvokeEffect(w) \/ Finish(w)
         \/ \E t \in Tokens : Provider(t)
         \/ Tick
  BY DEF Next, Progress, Failure, Acquire, Quiet

(* The row keeps the shape its status calls for.                           *)
LEMMA RowStep ==
  ASSUME IInv, [Next]_vars
  PROVE  RowInv'
  <1>0. row \in RowType /\ RowInv
    BY DEF IInv, TypeOK
  <1>1. CASE UNCHANGED vars
    BY <1>0, <1>1 DEF RowInv, vars
  <1>2. ASSUME NEW w \in Workers, Quiet(w) \/ WaitResolved(w) \/ InvokeEffect(w) PROVE RowInv'
    <2>1. row' = row
      BY <1>2, QuietStutters DEF WaitResolved, InvokeEffect
    <2> QED
      BY <1>0, <2>1 DEF RowInv
  <1>3. ASSUME NEW w \in Workers, AcquireNew(w) PROVE RowInv'
    <2>1. PICK key \in Keys \cup {NoKey} : row' = NewRow(w, key)
      BY <1>3 DEF AcquireNew, Claim
    <2>2. spec[w] \in Contracts
      BY <1>3 DEF IInv, HolderInv, HolderFits, AcquireNew
    <2> QED
      BY <2>1, <2>2, TokenType DEF NewRow, AbsentRow, RowInv, IInv
  <1>4. ASSUME NEW w \in Workers, AcquireReopen(w) PROVE RowInv'
    BY <1>0, <1>4, TokenType DEF AcquireReopen, Acquiring, Claim, ReopenedBy, ClaimedBy, RowInv, IInv, RowType
  <1>5. ASSUME NEW w \in Workers, AcquireTakeover(w) PROVE RowInv'
    BY <1>0, <1>5, TokenType DEF AcquireTakeover, Acquiring, Claim, ClaimedBy, RowInv, IInv, RowType
  <1>6. ASSUME NEW w \in Workers, AcquireTerminal(w) PROVE RowInv'
    <2> DEFINE d == IF row.decision \in Reopenable THEN "stop" ELSE row.decision
    <2>1. row' = [row EXCEPT !.decision = d]
      BY <1>6 DEF AcquireTerminal
    <2>2. row.status = "terminal"
      BY <1>6 DEF AcquireTerminal
    <2> QED
      BY <1>0, <2>1, <2>2 DEF RowInv, RowType, Reopenable, Final, Decisions
  <1>7. ASSUME NEW w \in Workers, AcquireLostInFlight(w) PROVE RowInv'
    BY <1>0, <1>7 DEF AcquireLostInFlight, Acquiring, Closed, RowInv, RowType, Reopenable, Final, Decisions,
       Affordable, UnknownDecision, Outcomes
  <1>8. ASSUME NEW w \in Workers, StopRetry(w) PROVE RowInv'
    BY <1>0, <1>8 DEF StopRetry, RowInv, RowType, Reopenable, Final, Decisions
  <1>9. ASSUME NEW w \in Workers, MarkInFlight(w) PROVE RowInv'
    BY <1>0, <1>9 DEF MarkInFlight, RowInv, RowType
  <1>10. ASSUME NEW w \in Workers, Finish(w) PROVE RowInv'
    <2>1. /\ row.status \in {"prepared", "in_flight"}
          /\ row' = Closed(answer[w].outcome, Recorded(w), answer[w].result)
          /\ pc[w] = "finishing"
      BY <1>10 DEF Finish
    <2> QED
     BY <1>0, <2>1, TokenType DEF IInv, HolderInv, HolderFits, AnswerFits, Closed, RowInv, RowType, Reopenable, Final, Decisions, Recorded,
       UnknownDecision, Outcomes
  <1>11. ASSUME NEW t \in Tokens, Provider(t) PROVE RowInv'
    BY <1>0, <1>11 DEF Provider, ProviderApplies, ProviderRefuses, RowInv
  <1>12. CASE Tick
    BY <1>0, <1>12 DEF Tick, RowInv, RowType
  <1> QED
    BY <1>1, <1>2, <1>3, <1>4, <1>5, <1>6, <1>7, <1>8, <1>9, <1>10, <1>11, <1>12, StepCases

(* No step undoes the first claim.                                         *)
LEMMA AbsentStep ==
  ASSUME IInv, [Next]_vars
  PROVE  AbsentInv'
  <1>0. row \in RowType /\ AbsentInv /\ RowInv
    BY DEF IInv, TypeOK
  <1>. SUFFICES ASSUME row'.status = "absent" PROVE AbsentInv'
    BY DEF AbsentInv
  <1>1. CASE UNCHANGED vars
    BY <1>0, <1>1 DEF AbsentInv, vars
  <1>2. ASSUME NEW w \in Workers, Quiet(w) PROVE AbsentInv'
    <2>1. row' = row /\ call' = call /\ output' = output
      BY <1>2, QuietStutters
    <2>2. /\ row = AbsentRow /\ row.status = "absent"
          /\ \A v \in Workers : pc[v] \in {"ready", "found", "retry"} \cup Ended
      BY <1>0, <2>1 DEF AbsentInv
    <2>3. \/ pc' = [pc EXCEPT ![w] = "found"] \/ pc' = [pc EXCEPT ![w] = "failed"]
          \/ pc' = [pc EXCEPT ![w] = "retry"] \/ pc' = [pc EXCEPT ![w] = "ready"]
          \/ pc' = [pc EXCEPT ![w] = "crashed"]
      BY <1>2, <2>2 DEF Quiet, FindBySlot, PrepareFails, AcquireConflict, AcquireWait, Acquiring,
         WaitExpired, WaitTimeout, FinalizeFails, MarkStale, AnswerSucceeded, AnswerRefused,
         AnswerUnknown, FinishStale, RepositoryUnavailable, CeleryRetry, Crash, Goto, RaiseRetry, Ended
    <2> QED
      BY <1>0, <2>1, <2>2, <2>3 DEF AbsentInv, Ended, IInv, TypeOK
  <1>3. ASSUME NEW w \in Workers,
               \/ AcquireNew(w) \/ AcquireReopen(w) \/ AcquireTakeover(w)
               \/ AcquireTerminal(w) \/ AcquireLostInFlight(w)
               \/ MarkInFlight(w) \/ Finish(w)
        PROVE AbsentInv'
    <2>0. CASE AcquireNew(w)
      <3>1. \A key : NewRow(w, key).status = "prepared"
        BY DEF NewRow, AbsentRow
      <3> QED
        BY <2>0, <3>1 DEF AcquireNew, Claim
    <2>1. CASE AcquireReopen(w)
      BY <1>0, <2>1 DEF AcquireReopen, Claim, ClaimedBy, ReopenedBy, RowType
    <2>2. CASE AcquireTakeover(w) \/ AcquireTerminal(w)
      BY <1>0, <2>2 DEF AcquireTakeover, AcquireTerminal, Acquiring, Claim, ClaimedBy, RowType
    <2>3. CASE AcquireLostInFlight(w) \/ MarkInFlight(w) \/ Finish(w)
      BY <1>0, <2>3 DEF AcquireLostInFlight, MarkInFlight, Finish, Closed, RowType
    <2> QED
      BY <1>3, <2>0, <2>1, <2>2, <2>3
  <1>4. ASSUME NEW w \in Workers, WaitResolved(w) \/ StopRetry(w) \/ InvokeEffect(w)
        PROVE AbsentInv'
    <2>1. row.status = "absent"
      BY <1>0, <1>4 DEF WaitResolved, StopRetry, InvokeEffect, RowType
    <2> QED
      BY <1>0, <1>4, <2>1 DEF AbsentInv, WaitResolved, StopRetry, InvokeEffect, Ended
  <1>5. ASSUME NEW t \in Tokens, Provider(t) PROVE AbsentInv'
    BY <1>0, <1>5 DEF AbsentInv, Provider, ProviderApplies, ProviderRefuses
  <1>6. CASE Tick
    BY <1>0, <1>6 DEF AbsentInv, Tick, AbsentRow, RowType
  <1> QED
    BY <1>1, <1>2, <1>3, <1>4, <1>5, <1>6, StepCases

(* The frozen key is the only one that reaches the provider.                *)
LEMMA KeyStep ==
  ASSUME IInv, [Next]_vars
  PROVE  OneKey'
  <1>0. row \in RowType /\ OneKey /\ AbsentInv /\ HolderInv /\ TypeOK
    BY DEF IInv, TypeOK
  <1>1. CASE UNCHANGED vars
    BY <1>0, <1>1 DEF OneKey, vars
  <1>2. ASSUME NEW w \in Workers, Quiet(w) PROVE OneKey'
    BY <1>0, <1>2, QuietStutters DEF OneKey
  <1>3. ASSUME NEW w \in Workers, AcquireNew(w) PROVE OneKey'
    BY <1>0, <1>3 DEF OneKey, AbsentInv, AcquireNew, Claim
  <1>4. ASSUME NEW w \in Workers,
               \/ AcquireReopen(w) \/ AcquireTakeover(w) \/ AcquireTerminal(w)
               \/ AcquireLostInFlight(w) \/ WaitResolved(w) \/ StopRetry(w) \/ Finish(w)
        PROVE OneKey'
    <2>1. row'.key = row.key /\ call' = call
      BY <1>0, <1>4 DEF AcquireReopen, AcquireTakeover, AcquireTerminal, AcquireLostInFlight,
         WaitResolved, StopRetry, Finish, Claim, ClaimedBy, ReopenedBy, Closed, RowType
    <2> QED
      BY <1>0, <2>1 DEF OneKey
  <1>5. ASSUME NEW w \in Workers, MarkInFlight(w) PROVE OneKey'
    <2>1. row'.key = row.key
      BY <1>0, <1>5 DEF MarkInFlight, RowType
    <2>2. \A t \in Tokens : call'[t] = call[t] \/ call'[t].state = "marked"
      BY <1>0, <1>5, TokenType DEF MarkInFlight, TypeOK
    <2> QED
      BY <1>0, <2>1, <2>2 DEF OneKey
  <1>6. ASSUME NEW w \in Workers, InvokeEffect(w) PROVE OneKey'
    <2>1. claim[w].key = row.key /\ row' = row
      BY <1>0, <1>6 DEF InvokeEffect, HolderInv, HolderFits, Holding
    <2>2. \A t \in Tokens : call'[t] = call[t] \/ call'[t].key = claim[w].key
      BY <1>0, <1>6, TokenType DEF InvokeEffect, TypeOK
    <2> QED
      BY <1>0, <2>1, <2>2 DEF OneKey
  <1>7. ASSUME NEW t \in Tokens, Provider(t) PROVE OneKey'
    <2>1. /\ call[t].state = "sent" /\ row' = row
          /\ \A u \in Tokens : call'[u].key = call[u].key /\ (u # t => call'[u] = call[u])
      BY <1>0, <1>7 DEF Provider, ProviderApplies, ProviderRefuses, TypeOK
    <2> QED
      BY <1>0, <2>1 DEF OneKey
  <1>8. CASE Tick
    BY <1>0, <1>8 DEF OneKey, Tick, RowType
  <1> QED
    BY <1>1, <1>2, <1>3, <1>4, <1>5, <1>6, <1>7, <1>8, StepCases

(* An execute calls only after it claimed.                                 *)
LEMMA FreshStep ==
  ASSUME IInv, [Next]_vars
  PROVE  FreshInv'
  <1>0. FreshInv /\ TypeOK /\ HolderInv /\ TypeOK'
    BY TypeStep DEF IInv
  <1>1. CASE UNCHANGED vars
    BY <1>0, <1>1 DEF FreshInv, vars, Token
  <1>2. ASSUME NEW w \in Workers,
               \/ FindBySlot(w) \/ PrepareFails(w) \/ AcquireConflict(w) \/ AcquireWait(w)
               \/ WaitExpired(w) \/ WaitTimeout(w) \/ FinalizeFails(w) \/ MarkStale(w)
               \/ AnswerSucceeded(w) \/ AnswerRefused(w) \/ AnswerUnknown(w)
               \/ FinishStale(w) \/ RepositoryUnavailable(w) \/ Crash(w)
               \/ AcquireNew(w) \/ AcquireReopen(w) \/ AcquireTakeover(w)
               \/ AcquireTerminal(w) \/ AcquireLostInFlight(w) \/ WaitResolved(w)
               \/ StopRetry(w) \/ Finish(w)
        PROVE FreshInv'
    <2>1. call' = call /\ retries' = retries
      BY <1>2 DEF FindBySlot, PrepareFails, AcquireConflict, AcquireWait,
         WaitExpired, WaitTimeout, FinalizeFails, MarkStale, AnswerSucceeded, AnswerRefused,
         AnswerUnknown, FinishStale, RepositoryUnavailable, Crash, AcquireNew, AcquireReopen,
         AcquireTakeover, AcquireTerminal, AcquireLostInFlight, WaitResolved, StopRetry, Finish, Claim
    <2>2. \A v \in Workers : pc'[v] \in {"ready", "found", "waiting", "stopping", "claimed"}
             => pc[v] \in {"ready", "found", "waiting", "stopping", "claimed"}
      BY <1>0, <1>2 DEF FindBySlot, PrepareFails, AcquireConflict, AcquireWait, Acquiring,
         WaitExpired, WaitTimeout, FinalizeFails, MarkStale, AnswerSucceeded, AnswerRefused,
         AnswerUnknown, FinishStale, RepositoryUnavailable, Crash, AcquireNew, AcquireReopen,
         AcquireTakeover, AcquireTerminal, AcquireLostInFlight, WaitResolved, StopRetry, Finish, Claim,
         Goto, RaiseRetry, Settle, TerminalResult, TypeOK
    <2> QED
      BY <1>0, <2>1, <2>2 DEF FreshInv, Token
  <1>3. ASSUME NEW w \in Workers, CeleryRetry(w) PROVE FreshInv'
    <2>1. CASE AllowRetry(w)
      <3>1. /\ retries[w] + 1 \in 0 .. MaxRetries /\ retries[w] \in 0 .. MaxRetries
            /\ retries' = [retries EXCEPT ![w] = retries[w] + 1] /\ call' = call
        BY <1>0, <1>3, <2>1, RetryAssumption DEF CeleryRetry, AllowRetry, TypeOK
      <3>2. \A v \in Workers : v # w => pc'[v] = pc[v] /\ retries'[v] = retries[v]
        BY <1>0, <1>3, <2>1 DEF CeleryRetry, Goto, TypeOK
      <3>3. \A n \in 0 .. MaxRetries : n > retries'[w] => n > retries[w]
        BY <1>0, <3>1, RetryAssumption DEF TypeOK
      <3>4. Token(w)' = <<w, retries[w] + 1>> /\ retries[w] + 1 > retries[w]
        BY <1>0, <3>1, RetryAssumption DEF Token, TypeOK
      <3>5. ASSUME NEW v \in Workers, v # w
            PROVE  /\ \A n \in 0 .. MaxRetries : n > retries'[v] => call'[<<v, n>>].state = "none"
                   /\ pc'[v] \in {"ready", "found", "waiting", "stopping", "claimed"} =>
                        call'[Token(v)'].state = "none"
        BY <1>0, <3>1, <3>2, <3>5 DEF FreshInv, Token
      <3>6. /\ \A n \in 0 .. MaxRetries : n > retries'[w] => call'[<<w, n>>].state = "none"
            /\ call'[Token(w)'].state = "none"
        BY <1>0, <3>1, <3>3, <3>4 DEF FreshInv
      <3> QED
        BY <3>5, <3>6 DEF FreshInv
    <2>2. CASE ~AllowRetry(w)
      BY <1>0, <1>3, <2>2 DEF CeleryRetry, FreshInv, Token, Goto, TypeOK
    <2> QED
      BY <2>1, <2>2
  <1>4. ASSUME NEW w \in Workers, MarkInFlight(w) \/ InvokeEffect(w) PROVE FreshInv'
    <2>1. retries' = retries /\ pc[w] \in {"claimed", "in_flight"}
      BY <1>4 DEF MarkInFlight, InvokeEffect
    <2>2. \A t \in Tokens : t # Token(w) => call'[t] = call[t]
      BY <1>0, <1>4 DEF MarkInFlight, InvokeEffect, TypeOK
    <2>3. \A v \in Workers : v # w => pc'[v] = pc[v]
      BY <1>0, <1>4 DEF MarkInFlight, InvokeEffect, TypeOK, Goto, RaiseRetry
    <2>4. pc'[w] \in {"in_flight", "calling", "retry", "failed"}
      BY <1>0, <1>4 DEF MarkInFlight, InvokeEffect, TypeOK, Goto, RaiseRetry
    <2>5. \A v \in Workers, n \in 0 .. MaxRetries :
             /\ <<v, n>> \in Tokens
             /\ v # w \/ n > retries[w] => call'[<<v, n>>] = call[<<v, n>>]
      <3>1. retries[w] \in 0 .. MaxRetries
        BY <1>0 DEF TypeOK
      <3> QED
        BY <2>2, <3>1, RetryAssumption DEF Token, Tokens
    <2>6. \A v \in Workers : retries[v] \in 0 .. MaxRetries
      BY <1>0 DEF TypeOK
    <2> QED
      BY <1>0, <2>1, <2>3, <2>4, <2>5, <2>6 DEF FreshInv, Token
  <1>5. ASSUME NEW t \in Tokens, Provider(t) PROVE FreshInv'
    <2>1. /\ call[t].state = "sent" /\ pc' = pc /\ retries' = retries
          /\ \A u \in Tokens : u # t => call'[u] = call[u]
      BY <1>0, <1>5 DEF Provider, ProviderApplies, ProviderRefuses, TypeOK
    <2>2. \A u \in Tokens : call[u].state = "none" => call'[u].state = "none"
      BY <2>1
    <2>3. \A v \in Workers : retries[v] \in 0 .. MaxRetries
      BY <1>0 DEF TypeOK
    <2> QED
      BY <1>0, <2>1, <2>2, <2>3 DEF FreshInv, Token, Tokens
  <1>6. CASE Tick
    BY <1>0, <1>6 DEF FreshInv, Tick, Token
  <1> QED
    BY <1>1, <1>2, <1>3, <1>4, <1>5, <1>6 DEF Next, Progress, Failure, Acquire

(* Contract and key are frozen when the row appears.                       *)
LEMMA RowFrozen ==
  ASSUME IInv, [Next]_vars, row.status # "absent"
  PROVE  row'.contract = row.contract /\ row'.key = row.key
  <1>0. row \in RowType
    BY DEF IInv, TypeOK
  <1>1. CASE UNCHANGED vars
    BY <1>1 DEF vars
  <1>2. ASSUME NEW w \in Workers, Quiet(w) \/ WaitResolved(w) \/ InvokeEffect(w)
        PROVE row' = row
    BY <1>2, QuietStutters DEF WaitResolved, InvokeEffect
  <1>3. ASSUME NEW w \in Workers, AcquireNew(w) PROVE FALSE
    BY <1>3 DEF AcquireNew
  <1>4. ASSUME NEW w \in Workers, AcquireReopen(w) \/ AcquireTakeover(w)
        PROVE row'.contract = row.contract /\ row'.key = row.key
    BY <1>0, <1>4, ZenonT(30) DEF AcquireReopen, AcquireTakeover, Claim, ClaimedBy, ReopenedBy, RowType
  <1>5. ASSUME NEW w \in Workers,
               \/ AcquireTerminal(w) \/ AcquireLostInFlight(w)
               \/ StopRetry(w) \/ MarkInFlight(w) \/ Finish(w)
        PROVE row'.contract = row.contract /\ row'.key = row.key
    BY <1>0, <1>5 DEF AcquireTerminal, AcquireLostInFlight, StopRetry, MarkInFlight, Finish, Closed, RowType
  <1>6. ASSUME NEW t \in Tokens, Provider(t) PROVE row' = row
    BY <1>6 DEF Provider, ProviderApplies, ProviderRefuses
  <1>7. CASE Tick
    BY <1>0, <1>7 DEF Tick, RowType
  <1> QED
    BY <1>1, <1>2, <1>3, <1>4, <1>5, <1>6, <1>7, StepCases

(* A delivery that does not move keeps what it knows.                      *)
LEMMA HolderFrame ==
  ASSUME IInv, [Next]_vars, NEW v \in Workers,
         pc'[v] = pc[v], retries'[v] = retries[v], spec'[v] = spec[v],
         claim'[v] = claim[v], answer'[v] = answer[v],
         \/ call'[Token(v)] = call[Token(v)]
         \/ call[Token(v)].state = "sent" /\ call'[Token(v)].state \in {"applied", "refused"}
  PROVE  HolderFits(v)'
  <1>0. AbsentInv /\ HolderFits(v)
    BY DEF IInv, HolderInv
  <1>1. Token(v)' = Token(v)
    BY DEF Token
  <1>2. pc[v] \in Holding => row.status # "absent"
    BY <1>0 DEF AbsentInv, Holding, Ended
  <1>3. pc[v] \in Holding => spec'[v] = row'.contract /\ claim'[v].key = row'.key
    BY <1>0, <1>2, RowFrozen DEF HolderFits
  <1>4. CASE call'[Token(v)] = call[Token(v)]
    <2>1. Live(Token(v))' = Live(Token(v))
      BY <1>1, <1>4 DEF Live
    <2>2. AnswerFits(v)' = AnswerFits(v)
      BY <1>1, <1>4, <2>1 DEF AnswerFits
    <2> QED
      BY <1>0, <1>1, <1>3, <1>4, <2>2 DEF HolderFits
  <1>5. CASE call[Token(v)].state = "sent" /\ call'[Token(v)].state \in {"applied", "refused"}
    <2>1. Live(Token(v))
      BY <1>5 DEF Live, MayTakeEffect
    <2>2. AnswerFits(v) => AnswerFits(v)'
      BY <1>1, <1>5, <2>1 DEF AnswerFits
    <2> QED
      BY <1>0, <1>1, <1>3, <1>5, <2>2 DEF HolderFits
  <1> QED
    BY <1>4, <1>5

(* A step of one delivery leaves the others and their calls alone.         *)
LEMMA OthersStay ==
  ASSUME TypeOK, NEW w \in Workers, Progress(w) \/ Failure(w)
  PROVE  \A v \in Workers : v # w =>
            /\ pc'[v] = pc[v] /\ retries'[v] = retries[v] /\ spec'[v] = spec[v]
            /\ claim'[v] = claim[v] /\ answer'[v] = answer[v]
            /\ call'[Token(v)] = call[Token(v)]
  <1> USE DEF TypeOK, Goto, RaiseRetry
  <1>0. \A v \in Workers : v # w => Token(v) # Token(w)
    BY DEF Token
  <1>1. CASE Acquire(w)
    BY <1>1 DEF Acquire, AcquireNew, AcquireConflict, AcquireReopen, AcquireTerminal,
       AcquireLostInFlight, AcquireTakeover, AcquireWait, Claim, TerminalResult
  <1>2. CASE FindBySlot(w) \/ WaitResolved(w) \/ WaitExpired(w) \/ StopRetry(w) \/ CeleryRetry(w)
    BY <1>2 DEF FindBySlot, WaitResolved, WaitExpired, StopRetry, CeleryRetry, TerminalResult
  <1>3. CASE MarkInFlight(w) \/ MarkStale(w) \/ InvokeEffect(w)
    <2>1. \A t \in Tokens : t # Token(w) => call'[t] = call[t]
      BY <1>3 DEF MarkInFlight, MarkStale, InvokeEffect
    <2> QED
      BY <1>3, <1>0, <2>1, TokenType DEF MarkInFlight, MarkStale, InvokeEffect
  <1>4. CASE AnswerSucceeded(w) \/ AnswerRefused(w) \/ AnswerUnknown(w) \/ FinalizeFails(w)
    BY <1>4 DEF AnswerSucceeded, AnswerRefused, AnswerUnknown, FinalizeFails, Settle
  <1>5. CASE Finish(w) \/ FinishStale(w)
    BY <1>5 DEF Finish, FinishStale, TerminalResult
  <1>6. CASE PrepareFails(w) \/ WaitTimeout(w) \/ RepositoryUnavailable(w) \/ Crash(w)
    BY <1>6 DEF PrepareFails, WaitTimeout, RepositoryUnavailable, Crash
  <1> QED
    BY <1>1, <1>2, <1>3, <1>4, <1>5, <1>6 DEF Progress, Failure

LEMMA HolderStep ==
  ASSUME IInv, [Next]_vars
  PROVE  HolderInv'
  <1>0. /\ row \in RowType /\ RowInv /\ FreshInv /\ HolderInv /\ AbsentInv
        /\ TypeOK /\ TypeOK'
    BY TypeStep DEF IInv, TypeOK
  <1>1. CASE UNCHANGED vars
    BY <1>1, HolderFrame DEF vars, HolderInv
  <1>2. CASE Tick
    BY <1>2, HolderFrame DEF Tick, HolderInv
  <1>3. ASSUME NEW t \in Tokens, Provider(t) PROVE HolderInv'
    <2>1. \A u \in Tokens : \/ call'[u] = call[u]
                            \/ call[u].state = "sent" /\ call'[u].state \in {"applied", "refused"}
      BY <1>0, <1>3 DEF Provider, ProviderApplies, ProviderRefuses, TypeOK
    <2> QED
      BY <1>0, <1>3, <2>1, HolderFrame, TokenType DEF Provider, ProviderApplies, ProviderRefuses, HolderInv
  <1>4. ASSUME NEW w \in Workers, Progress(w) \/ Failure(w) PROVE HolderInv'
    <2>1. SUFFICES HolderFits(w)'
      BY <1>0, <1>4, OthersStay, HolderFrame DEF HolderInv
    <2>2. Token(w) \in Tokens /\ HolderFits(w)
      BY <1>0, TokenType DEF HolderInv
    <2>3. CASE pc'[w] \notin Holding \cup {"found"}
      BY <2>3 DEF HolderFits, Holding
    <2>4. CASE FindBySlot(w)
      BY <1>0, <2>4 DEF FindBySlot, HolderFits, Holding, Goto, TypeOK
    <2>5. CASE AcquireNew(w)
      <3>1. CASE RaiseRetry(w)
        BY <1>0, <2>3, <3>1 DEF RaiseRetry, Goto, Holding, TypeOK
      <3>2. CASE ~RaiseRetry(w)
        <4>1. PICK key : row' = NewRow(w, key) /\ claim'[w].key = NewRow(w, key).key
                         /\ pc'[w] = "claimed" /\ spec'[w] = spec[w]
          BY <1>0, <2>5, <3>2 DEF AcquireNew, Claim, Goto, TypeOK
        <4>2. NewRow(w, key).contract = spec[w]
          BY DEF NewRow, AbsentRow
        <4> QED
          BY <4>1, <4>2 DEF HolderFits
      <3> QED
        BY <3>1, <3>2
    <2>6. CASE AcquireReopen(w) \/ AcquireTakeover(w)
      <3>1. row.status # "absent" /\ row.contract = spec[w] /\ \E r : Claim(w, r)
        BY <2>6 DEF AcquireReopen, AcquireTakeover, Acquiring
      <3>2. row'.contract = row.contract
        BY <3>1, RowFrozen
      <3>3. \/ pc'[w] \in {"retry", "failed"}
            \/ pc'[w] = "claimed" /\ claim'[w].key = row'.key /\ spec' = spec
        BY <1>0, <3>1 DEF Claim, RaiseRetry, Goto, TypeOK
      <3> QED
        BY <3>1, <3>2, <3>3, <2>3 DEF HolderFits, Holding
    <2>7. CASE \/ PrepareFails(w) \/ AcquireConflict(w) \/ AcquireWait(w) \/ AcquireTerminal(w)
               \/ AcquireLostInFlight(w) \/ WaitResolved(w) \/ WaitExpired(w) \/ WaitTimeout(w)
               \/ StopRetry(w) \/ MarkStale(w) \/ Finish(w) \/ FinishStale(w)
               \/ RepositoryUnavailable(w) \/ CeleryRetry(w) \/ Crash(w)
      <3>1. pc'[w] \notin Holding \cup {"found"}
        BY <1>0, <2>7 DEF PrepareFails, AcquireConflict, AcquireWait, AcquireTerminal,
           AcquireLostInFlight, WaitResolved, WaitExpired, WaitTimeout, StopRetry, MarkStale, Finish,
           FinishStale, RepositoryUnavailable, CeleryRetry, Crash, TerminalResult, RaiseRetry, Goto,
           Holding, TypeOK
      <3> QED
        BY <3>1, <2>3
    <2>8. CASE MarkInFlight(w)
      <3>1. /\ row'.contract = row.contract /\ row'.key = row.key /\ spec' = spec /\ claim' = claim
            /\ pc[w] = "claimed" /\ Token(w)' = Token(w)
            /\ \/ pc'[w] \in {"retry", "failed"}
               \/ pc'[w] = "in_flight" /\ call'[Token(w)].state = "marked"
        BY <1>0, <2>2, <2>8 DEF MarkInFlight, RaiseRetry, Goto, TypeOK, RowType, Token
      <3> QED
        BY <2>2, <3>1, <2>3 DEF HolderFits, Holding
    <2>9. CASE InvokeEffect(w)
      <3>1. /\ row' = row /\ spec' = spec /\ claim' = claim /\ Token(w)' = Token(w)
            /\ pc[w] = "in_flight" /\ pc'[w] = "calling" /\ call'[Token(w)].state = "sent"
        BY <1>0, <2>2, <2>9 DEF InvokeEffect, Goto, TypeOK, Token
      <3> QED
        BY <2>2, <3>1 DEF HolderFits, Holding
    <2>10. CASE FinalizeFails(w) \/ AnswerSucceeded(w) \/ AnswerRefused(w) \/ AnswerUnknown(w)
      <3>1. /\ row' = row /\ spec' = spec /\ claim' = claim /\ call' = call /\ Token(w)' = Token(w)
            /\ pc[w] \in {"claimed", "calling"} /\ pc'[w] = "finishing"
        BY <1>0, <2>10 DEF FinalizeFails, AnswerSucceeded, AnswerRefused, AnswerUnknown, Settle,
           Goto, TypeOK, Token
      <3>2. AnswerFits(w)'
        <4>1. Live(Token(w))' = Live(Token(w))
          BY <3>1 DEF Live
        <4>2. CASE FinalizeFails(w)
          <5>1. ~Live(Token(w))
            BY <1>0, <4>2 DEF FinalizeFails, FreshInv, Live, MayTakeEffect
          <5> QED
            BY <1>0, <3>1, <4>1, <4>2, <5>1 DEF FinalizeFails, Settle, AnswerFits, TypeOK, Outcomes, Decisions, Final
        <4>3. CASE AnswerSucceeded(w)
          BY <1>0, <3>1, <4>3 DEF AnswerSucceeded, Settle, AnswerFits, TypeOK, Outcomes, Decisions, Final
        <4>4. CASE AnswerRefused(w)
          <5>1. ~Live(Token(w))
            BY <4>4 DEF AnswerRefused, Live, MayTakeEffect
          <5> QED
            BY <1>0, <3>1, <4>1, <4>4, <5>1
               DEF AnswerRefused, Settle, AnswerFits, TypeOK, Outcomes, Decisions, Final, Reopenable, Affordable
        <4>5. CASE AnswerUnknown(w)
          BY <1>0, <3>1, <4>5
             DEF AnswerUnknown, Settle, AnswerFits, TypeOK, Outcomes, Decisions, Final, Reopenable, Affordable
        <4> QED
          BY <2>10, <4>2, <4>3, <4>4, <4>5
      <3> QED
        BY <2>2, <3>1, <3>2 DEF HolderFits, Holding
    <2> QED
      BY <1>4, <2>4, <2>5, <2>6, <2>7, <2>8, <2>9, <2>10 DEF Progress, Failure, Acquire
  <1> QED
    BY <1>1, <1>2, <1>3, <1>4 DEF Next

(* What a committed finish writes, and who committed it.                   *)
LEMMA FinishFacts ==
  ASSUME IInv, NEW w \in Workers, Finish(w)
  PROVE  /\ row.status \in {"prepared", "in_flight"} /\ row.owner = Token(w)
         /\ AnswerFits(w)
         /\ row'.status = "terminal" /\ row'.contract = row.contract
         /\ row'.outcome = answer[w].outcome /\ row'.result = answer[w].result
         /\ row'.decision = Recorded(w)
         /\ call' = call
  <1>0. row \in RowType
    BY DEF IInv, TypeOK
  <1>1. AnswerFits(w)
    BY DEF Finish, IInv, HolderInv, HolderFits
  <1> QED
    BY <1>0, <1>1 DEF Finish, HoldsClaim, Closed, RowType

(* A call the provider may still apply is always accounted for by the row. *)
LEMMA WireStep ==
  ASSUME IInv, [Next]_vars
  PROVE  WireInv'
  <1>0. /\ row \in RowType /\ RowInv /\ FreshInv /\ HolderInv /\ AbsentInv /\ WireInv
        /\ TypeOK
    BY DEF IInv, TypeOK
  <1> SUFFICES ASSUME row'.contract \notin Supported PROVE WireInv'
    BY DEF WireInv
  <1>a. row.status # "absent" => row.contract \notin Supported
    BY RowFrozen
  <1>b. ASSUME call' = call PROVE \A t : Live(t)' = Live(t)
    BY <1>b DEF Live
  <1>1. CASE UNCHANGED vars
    BY <1>0, <1>1 DEF WireInv, Live, vars
  <1>2. ASSUME NEW w \in Workers, Quiet(w) \/ WaitResolved(w) PROVE WireInv'
    <2>1. row' = row /\ call' = call
      BY <1>2, QuietStutters DEF WaitResolved
    <2> QED
      BY <1>0, <2>1 DEF WireInv, Live
  <1>3. ASSUME NEW w \in Workers, AcquireNew(w) PROVE WireInv'
    <2>1. \A t \in Tokens : ~Live(t)'
      BY <1>0, <1>3 DEF AcquireNew, Claim, AbsentInv, Live, MayTakeEffect
    <2>2. row'.status = "prepared"
      BY <1>3 DEF AcquireNew, Claim, NewRow, AbsentRow
    <2> QED
      BY <2>1, <2>2 DEF WireInv
  <1>4. ASSUME NEW w \in Workers, AcquireReopen(w) PROVE WireInv'
    <2>1. row.status = "terminal" /\ row.decision \in Reopenable /\ call' = call
      BY <1>4 DEF AcquireReopen, MayReopen, Claim
    <2>2. \A t \in Tokens : ~Live(t)
      BY <1>0, <1>a, <2>1 DEF WireInv, RowInv, Reopenable
    <2>3. row'.status = "prepared"
      BY <1>0, <1>4 DEF AcquireReopen, Claim, ReopenedBy, ClaimedBy, RowType
    <2> QED
      BY <2>1, <2>2, <2>3, <1>b DEF WireInv
  <1>5. ASSUME NEW w \in Workers, AcquireTakeover(w) PROVE WireInv'
    <2>1. row.status = "prepared" /\ call' = call /\ row'.status = "prepared"
      BY <1>0, <1>5 DEF AcquireTakeover, Claim, ClaimedBy, RowType
    <2> QED
      BY <1>0, <1>a, <1>b, <2>1 DEF WireInv
  <1>6. ASSUME NEW w \in Workers, AcquireTerminal(w) \/ StopRetry(w) PROVE WireInv'
    <2>1. /\ call' = call
          /\ row' = row \/ (row.status = "terminal" /\ row' = [row EXCEPT !.decision = "stop"])
      BY <1>0, <1>6 DEF AcquireTerminal, StopRetry, RowType
    <2>2. CASE row' = row
      BY <1>0, <1>b, <2>1, <2>2 DEF WireInv
    <2>3. CASE row.status = "terminal" /\ row' = [row EXCEPT !.decision = "stop"]
      <3>1. row'.status = "terminal" /\ row'.decision = "stop" /\ row'.outcome = row.outcome
        BY <1>0, <2>3 DEF RowType
      <3> QED
        BY <1>0, <1>a, <1>b, <2>1, <2>3, <3>1 DEF WireInv
    <2> QED
      BY <2>1, <2>2, <2>3
  <1>7. ASSUME NEW w \in Workers, AcquireLostInFlight(w) PROVE WireInv'
    <2>1. /\ row.status = "in_flight" /\ call' = call
          /\ row'.status = "terminal" /\ row'.outcome = "effect_outcome_unknown"
          /\ row'.decision = Affordable(w, UnknownDecision)
      BY <1>0, <1>7 DEF AcquireLostInFlight, Closed, RowType
    <2>2. Affordable(w, UnknownDecision) = "stop"
      BY <1>a, <2>1 DEF Affordable, UnknownDecision, WindowOpen, Reopenable
    <2> QED
      BY <1>0, <1>a, <1>b, <2>1, <2>2 DEF WireInv
  <1>8. ASSUME NEW w \in Workers, MarkInFlight(w) PROVE WireInv'
    <2>1. row.status = "prepared" /\ row.owner = Token(w)
      BY <1>8 DEF MarkInFlight, HoldsClaim
    <2>2. row'.status = "in_flight" /\ row'.owner = row.owner
      BY <1>0, <1>8 DEF MarkInFlight, RowType
    <2>3. \A t \in Tokens : t # Token(w) => call'[t] = call[t]
      BY <1>0, <1>8 DEF MarkInFlight, TypeOK
    <2> QED
      BY <1>0, <1>a, <2>1, <2>2, <2>3 DEF WireInv, Live
  <1>9. ASSUME NEW w \in Workers, InvokeEffect(w) PROVE WireInv'
    <2>1. row' = row /\ call[Token(w)].state = "marked" /\ call'[Token(w)].state = "sent"
          /\ \A t \in Tokens : t # Token(w) => call'[t] = call[t]
      BY <1>0, <1>9, TokenType DEF InvokeEffect, TypeOK, HolderInv, HolderFits
    <2>2. \A t \in Tokens : Live(t)' = Live(t)
      BY <2>1 DEF Live, MayTakeEffect
    <2> QED
      BY <1>0, <2>1, <2>2 DEF WireInv
  <1>10. ASSUME NEW w \in Workers, Finish(w) PROVE WireInv'
    <2>1. row.contract \notin Supported /\ row.status # "absent"
      BY <1>a, <1>10, FinishFacts
    <2>2. Recorded(w) # "replay_same_key"
      BY <2>1 DEF Recorded, UnknownDecision, WindowOpen
    <2>3. \A t \in Tokens : Live(t) => t = Token(w)
      BY <1>0, <1>10, <2>1, FinishFacts DEF WireInv
    <2>4. answer[w].outcome = "failed_before_effect" => ~Live(Token(w))
      BY <1>10, FinishFacts DEF AnswerFits
    <2> QED
      BY <1>10, <1>b, <2>2, <2>3, <2>4, FinishFacts DEF WireInv
  <1>11. ASSUME NEW t \in Tokens, Provider(t) PROVE WireInv'
    <2>1. row' = row /\ \A u \in Tokens : Live(u)' => Live(u)
      BY <1>0, <1>11 DEF Provider, ProviderApplies, ProviderRefuses, Live, MayTakeEffect, TypeOK
    <2> QED
      BY <1>0, <2>1 DEF WireInv
  <1>12. CASE Tick
    <2>1. /\ call' = call /\ row'.status = row.status /\ row'.owner = row.owner
          /\ row'.outcome = row.outcome /\ row'.decision = row.decision /\ row'.contract = row.contract
      BY <1>0, <1>12 DEF Tick, RowType
    <2> QED
      BY <1>0, <1>b, <2>1 DEF WireInv
  <1> QED
    BY <1>1, <1>2, <1>3, <1>4, <1>5, <1>6, <1>7, <1>8, <1>9, <1>10, <1>11, <1>12, StepCases

(* Telling one more delivery the stored result.                            *)
LEMMA Told ==
  ASSUME IInv, NEW w \in Workers, row.status = "terminal",
         row'.status = "terminal", row'.outcome = row.outcome, row'.result = row.result,
         call' = call,
         \/ output' = output
         \/ row.decision = "reuse_result" /\ output' = [output EXCEPT ![w] = row.result]
  PROVE  OutputInv'
  <1>0. RowInv /\ OutputInv /\ output \in [Workers -> Tokens \cup {NoToken}]
    BY DEF IInv, TypeOK
  <1>1. CASE output' = output
    BY <1>0, <1>1 DEF OutputInv
  <1>2. CASE row.decision = "reuse_result" /\ output' = [output EXCEPT ![w] = row.result]
    <2>1. row.outcome = "succeeded" /\ row.result # NoToken
      BY <1>0, <1>2 DEF RowInv
    <2>2. \A v \in Workers : output'[v] = output[v] \/ output'[v] = row.result
      BY <1>0, <1>2
    <2> QED
      BY <1>0, <2>1, <2>2 DEF OutputInv
  <1> QED
    BY <1>1, <1>2

(* Nothing was handed out while the row is open.                           *)
LEMMA NothingTold ==
  ASSUME IInv, row.status # "terminal" \/ row.outcome # "succeeded"
  PROVE  \A w \in Workers : output[w] = NoToken
  BY DEF IInv, OutputInv

LEMMA OutputStep ==
  ASSUME IInv, [Next]_vars
  PROVE  OutputInv'
  <1>0. /\ row \in RowType /\ RowInv /\ FreshInv /\ HolderInv /\ AbsentInv /\ OutputInv
        /\ TypeOK
    BY DEF IInv, TypeOK
  <1>a. ASSUME \A w \in Workers : output'[w] = NoToken, row'.result = NoToken
        PROVE OutputInv'
    BY <1>a DEF OutputInv
  <1>b. ASSUME row'.status = row.status, row'.outcome = row.outcome, row'.result = row.result,
               output' = output,
               \A t \in Tokens : call[t].state = "applied" => call'[t].state = "applied"
        PROVE OutputInv'
    BY <1>0, <1>b DEF OutputInv, RowType, TypeOK
  <1>1. CASE UNCHANGED vars
    BY <1>b, <1>1 DEF vars
  <1>2. ASSUME NEW w \in Workers, Quiet(w) PROVE OutputInv'
    BY <1>2, <1>b, QuietStutters
  <1>3. ASSUME NEW w \in Workers, AcquireNew(w) PROVE OutputInv'
    <2>1. row'.result = NoToken /\ output' = output
      BY <1>3 DEF AcquireNew, Claim, NewRow, AbsentRow
    <2>2. \A v \in Workers : output[v] = NoToken
      BY <1>0, <1>3 DEF AcquireNew, AbsentInv
    <2> QED
      BY <1>a, <2>1, <2>2
  <1>4. ASSUME NEW w \in Workers, AcquireReopen(w) \/ AcquireTakeover(w) PROVE OutputInv'
    <2>1. row'.result = NoToken /\ output' = output
      BY <1>0, <1>4 DEF AcquireReopen, AcquireTakeover, Claim, ReopenedBy, ClaimedBy, RowType, RowInv
    <2>2. row.status # "terminal" \/ row.outcome # "succeeded"
      BY <1>0, <1>4 DEF AcquireReopen, AcquireTakeover, MayReopen, RowInv, Reopenable
    <2> QED
      BY <1>a, <2>1, <2>2, NothingTold
  <1>5. ASSUME NEW w \in Workers, AcquireTerminal(w) PROVE OutputInv'
    <2> DEFINE d == IF row.decision \in Reopenable THEN "stop" ELSE row.decision
    <2>1. row.status = "terminal" /\ call' = call /\ row' = [row EXCEPT !.decision = d]
          /\ (TerminalResult(w, d, row.result) \/ output' = output)
      BY <1>5 DEF AcquireTerminal
    <2>2. row'.status = "terminal" /\ row'.outcome = row.outcome /\ row'.result = row.result
      BY <1>0, <2>1 DEF RowType
    <2>3. \/ output' = output
          \/ row.decision = "reuse_result" /\ output' = [output EXCEPT ![w] = row.result]
      BY <2>1 DEF TerminalResult
    <2> QED
      BY <2>1, <2>2, <2>3, Told
  <1>6. ASSUME NEW w \in Workers, WaitResolved(w) PROVE OutputInv'
    BY <1>6, Told DEF WaitResolved, TerminalResult
  <1>7. ASSUME NEW w \in Workers, StopRetry(w) PROVE OutputInv'
    <2>1. CASE row.status = "terminal" /\ row.decision \in Reopenable /\ row.gen = claim[w].gen
      <3>1. row' = [row EXCEPT !.decision = "stop"] /\ output' = output /\ call' = call
        BY <1>7, <2>1 DEF StopRetry, TerminalResult, Reopenable
      <3> QED
        BY <1>0, <1>b, <3>1 DEF RowType
    <2>2. CASE ~(row.status = "terminal" /\ row.decision \in Reopenable /\ row.gen = claim[w].gen)
      <3>1. row' = row /\ call' = call /\ TerminalResult(w, row.decision, row.result)
        BY <1>7, <2>2 DEF StopRetry
      <3>2. CASE row.decision = "reuse_result"
        <4>1. row.status = "terminal"
          BY <1>0, <3>2 DEF RowInv, AbsentInv, AbsentRow, RowType, Statuses, None
        <4> QED
          BY <3>1, <3>2, <4>1, Told DEF TerminalResult
      <3>3. CASE row.decision # "reuse_result"
        BY <1>b, <3>1, <3>3 DEF TerminalResult
      <3> QED
        BY <3>2, <3>3
    <2> QED
      BY <2>1, <2>2
  <1>8. ASSUME NEW w \in Workers, AcquireLostInFlight(w) PROVE OutputInv'
    <2>1. row.status = "in_flight" /\ row'.result = NoToken
      BY <1>0, <1>8 DEF AcquireLostInFlight, Closed, RowType
    <2>2. output' = output
      BY <1>8 DEF AcquireLostInFlight, TerminalResult, Affordable, UnknownDecision
    <2> QED
      BY <1>a, <2>1, <2>2, NothingTold
  <1>9. ASSUME NEW w \in Workers, MarkInFlight(w) PROVE OutputInv'
    <2>1. row.status = "prepared" /\ row'.result = row.result /\ output' = output
      BY <1>0, <1>9 DEF MarkInFlight, RowType
    <2> QED
      BY <1>0, <1>a, <2>1, NothingTold DEF RowInv
  <1>10. ASSUME NEW w \in Workers, InvokeEffect(w) PROVE OutputInv'
    <2>1. row' = row /\ output' = output /\ call[Token(w)].state = "marked"
          /\ \A t \in Tokens : t # Token(w) => call'[t] = call[t]
      BY <1>0, <1>10 DEF InvokeEffect, TypeOK, HolderInv, HolderFits
    <2> QED
      BY <1>b, <2>1
  <1>11. ASSUME NEW w \in Workers, Finish(w) PROVE OutputInv'
    <2>1. \A v \in Workers : output[v] = NoToken
      BY <1>11, FinishFacts, NothingTold
    <2>2. CASE answer[w].outcome = "succeeded"
      <3>1. /\ call'[Token(w)].state = "applied" /\ row'.outcome = "succeeded" /\ row'.status = "terminal"
            /\ row'.result \in {NoToken, Token(w)}
        BY <1>11, <2>2, FinishFacts DEF AnswerFits
      <3>2. \A v \in Workers : output'[v] = output[v] \/ output'[v] = Token(w)
        BY <1>0, <1>11, <2>2 DEF Finish, TypeOK
      <3> QED
        BY <2>1, <3>1, <3>2 DEF OutputInv
    <2>3. CASE answer[w].outcome # "succeeded"
      <3>1. row'.result = NoToken /\ Recorded(w) # "reuse_result"
        BY <1>11, <2>3, FinishFacts DEF AnswerFits, Recorded, UnknownDecision, Outcomes
      <3>2. output' = output
        BY <1>11, <2>3, <3>1 DEF Finish, TerminalResult
      <3> QED
        BY <1>a, <2>1, <3>1, <3>2
    <2> QED
      BY <2>2, <2>3
  <1>12. ASSUME NEW t \in Tokens, Provider(t) PROVE OutputInv'
    <2>1. row' = row /\ output' = output
          /\ \A u \in Tokens : call[u].state = "applied" => call'[u].state = "applied"
      BY <1>0, <1>12 DEF Provider, ProviderApplies, ProviderRefuses, TypeOK
    <2> QED
      BY <1>b, <2>1
  <1>13. CASE Tick
    BY <1>0, <1>13, <1>b DEF Tick, RowType
  <1> QED
    BY <1>1, <1>2, <1>3, <1>4, <1>5, <1>6, <1>7, <1>8, <1>9, <1>10, <1>11, <1>12, <1>13, StepCases

(* IInv is inductive.                                                      *)
LEMMA Inductive ==
  ASSUME IInv, [Next]_vars
  PROVE  IInv'
  <1>1. TypeOK'
    BY TypeStep DEF IInv
  <1> QED
    BY <1>1, AbsentStep, RowStep, FreshStep, HolderStep, KeyStep, WireStep, OutputStep DEF IInv

(* In every reachable state the row, the claims, the calls on the wire and *)
(* what was handed out agree with each other (the whole of execute and the *)
(* effect repository).                                                     *)
THEOREM Invariance == Spec => []IInv
  BY InitIInv, Inductive, PTL DEF Spec

(* Types hold throughout: every write of the repository is a legal row.    *)
THEOREM TypeCorrect == Spec => []TypeOK
  <1>1. IInv => TypeOK
    BY DEF IInv
  <1> QED
    BY <1>1, Invariance, PTL

(* However many deliveries, retries, crashes and expired claims there are, *)
(* a provider without replay gets at most one call that can take effect.   *)
THEOREM AtMostOnce == Spec => []AtMostOneEffect
  <1>1. IInv => AtMostOneEffect
    <2> SUFFICES ASSUME IInv, row.contract \notin Supported,
                        NEW t \in Tokens, NEW u \in Tokens, Live(t), Live(u)
                 PROVE  t = u
      BY DEF AtMostOneEffect, Live
    <2>1. row.status \in Statuses
      BY DEF IInv, TypeOK, RowType
    <2>2. row.status # "absent"
      BY DEF IInv, AbsentInv, Live, MayTakeEffect
    <2> QED
      BY <2>1, <2>2 DEF IInv, WireInv, Statuses
  <1> QED
    BY <1>1, Invariance, PTL

(* Every provider call of a slot carries the key frozen by the first claim. *)
THEOREM SameKey == Spec => []OneKey
  <1>1. IInv => OneKey
    BY DEF IInv
  <1> QED
    BY <1>1, Invariance, PTL

(* Output reaches a node only after its success is committed, and all      *)
(* deliveries get the output of one and the same applied call.             *)
THEOREM CommittedAnswer == Spec => []OneCommittedAnswer
  <1>1. IInv => OneCommittedAnswer
    BY DEF IInv, OutputInv, OneCommittedAnswer
  <1> QED
    BY <1>1, Invariance, PTL

(* failed_before_effect is true for a provider without replay: no call of  *)
(* the slot was or can still be applied.                                   *)
THEOREM TrueVerdict == Spec => []VerdictIsTrue
  <1>1. IInv => VerdictIsTrue
    <2> SUFFICES ASSUME IInv, row.outcome = "failed_before_effect", row.contract \notin Supported
                 PROVE  \A t \in Tokens : ~Live(t)
      BY DEF VerdictIsTrue, Live
    <2>1. row.status = "terminal"
      BY DEF IInv, TypeOK, RowType, RowInv, AbsentInv, AbsentRow, Statuses, None
    <2> QED
      BY <2>1 DEF IInv, WireInv
  <1> QED
    BY <1>1, Invariance, PTL

=============================================================================
