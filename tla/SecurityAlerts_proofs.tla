------------------------ MODULE SecurityAlerts_proofs ------------------------

(***************************************************************************)
(* Proofs about SecurityAlerts for any audits, rules' parameters, number   *)
(* of tasks and size of batches.                                           *)
(***************************************************************************)
EXTENDS SecurityAlertsInv, FiniteSetTheorems, WellFoundedInduction, TLAPS

(***************************************************************************)
(* Numbers, windows and thresholds.                                        *)
(***************************************************************************)
LEMMA MaxIs ==
  ASSUME NEW S \in SUBSET Int, NEW m \in S, \A y \in S : y <= m
  PROVE  Max(S) = m
  <1>1. \E x \in S : \A y \in S : x >= y
    OBVIOUS
  <1> DEFINE M == Max(S)
  <1>2. M \in S /\ \A y \in S : M >= y
    BY <1>1, Zenon DEF Max
  <1> HIDE DEF M
  <1>3. M = m
    BY <1>2
  <1> QED
    BY <1>3 DEF M

(* A set of naturals that is not empty has a least element.                *)
LEMMA NatMin ==
  ASSUME NEW S \in SUBSET Nat, S # {}
  PROVE  \E m \in S : \A y \in S : m <= y
  <1>1. PICK m \in S : \A y \in S : ~(<<y, m>> \in OpToRel(<, Nat))
    BY NatLessThanWellFounded, WFMin
  <1>2. \A y \in S : ~(y < m)
    BY <1>1 DEF OpToRel
  <1> QED
    BY <1>2

LEMMA AtNat == \A a \in Audits : At[a] \in Nat
  BY AlertsAssumption

LEMMA WindowFacts ==
  /\ MaxWindow \in Nat
  /\ \A r \in Rule : Window[r] \in Nat /\ Window[r] <= MaxWindow
  <1>1. \A r \in Rule : Window[r] \in Nat
    BY AlertsAssumption
  <1>2. {Window[r] : r \in Rule} = {Window["repeated"], Window["probe"]}
    BY DEF Rule
  <1>3. Window["repeated"] \in Nat /\ Window["probe"] \in Nat
    BY <1>1 DEF Rule
  <1>4. PICK m \in {Window["repeated"], Window["probe"]} :
           \A y \in {Window["repeated"], Window["probe"]} : y <= m
    <2>1. CASE Window["repeated"] <= Window["probe"]
      BY <1>3, <2>1
    <2>2. CASE Window["probe"] <= Window["repeated"]
      BY <1>3, <2>2
    <2> QED
      BY <1>3, <2>1, <2>2
  <1>5. MaxWindow = m
    <2> DEFINE W == {Window["repeated"], Window["probe"]}
    <2>1. W \in SUBSET Int /\ m \in W /\ \A y \in W : y <= m
      BY <1>3, <1>4
    <2> HIDE DEF W
    <2>2. Max(W) = m
      BY <2>1, MaxIs
    <2> QED
      BY <1>2, <2>2, Zenon DEF MaxWindow, W
  <1> QED
    BY <1>1, <1>3, <1>4, <1>5 DEF Rule

LEMMA CurrentIn ==
  ASSUME NEW t, t.todo \subseteq Audits, t.todo # {}
  PROVE  Current(t) \in t.todo /\ \A b \in t.todo : At[Current(t)] <= At[b]
  <1>1. {At[a] : a \in t.todo} \in SUBSET Nat /\ {At[a] : a \in t.todo} # {}
    BY AtNat
  <1>2. PICK m \in {At[a] : a \in t.todo} : \A y \in {At[a] : a \in t.todo} : m <= y
    BY <1>1, NatMin
  <1>3. \E a \in t.todo : \A b \in t.todo : At[a] <= At[b]
    BY <1>2
  <1> QED
    BY <1>3 DEF Current

(* The image of a finite set under a function.                             *)
LEMMA TargetsFinite ==
  ASSUME NEW S, IsFiniteSet(S)
  PROVE  IsFiniteSet({Target[a] : a \in S})
  <1> DEFINE T == {Target[a] : a \in S}
             f == [a \in S |-> Target[a]]
  <1>1. f \in Surjection(S, T)
    BY DEF Surjection
  <1> HIDE DEF T, f
  <1> QED
    BY <1>1, FS_Surjection DEF T

LEMMA ReachedMore ==
  ASSUME NEW r \in Rule, NEW S, NEW T, S \subseteq T, IsFiniteSet(T), Reached(r, S)
  PROVE  Reached(r, T)
  <1>1. Threshold[r] \in Nat
    BY AlertsAssumption
  <1>2. /\ IsFiniteSet(S) /\ Cardinality(S) <= Cardinality(T)
        /\ Cardinality(S) \in Nat /\ Cardinality(T) \in Nat
    BY FS_Subset, FS_CardinalityType
  <1> DEFINE X == {Target[a] : a \in S}
             Y == {Target[a] : a \in T}
  <1>3. IsFiniteSet(Y) /\ X \subseteq Y
    BY TargetsFinite
  <1> HIDE DEF X, Y
  <1>4. Cardinality(X) <= Cardinality(Y) /\ Cardinality(X) \in Nat /\ Cardinality(Y) \in Nat
    BY <1>3, FS_Subset, FS_CardinalityType
  <1>5. CASE r = "probe"
    BY <1>1, <1>4, <1>5 DEF Reached, X, Y
  <1>6. CASE r # "probe"
    BY <1>1, <1>2, <1>6 DEF Reached
  <1> QED
    BY <1>5, <1>6

LEMMA EmptyUnreached ==
  ASSUME NEW r \in Rule
  PROVE  ~Reached(r, {})
  <1>1. Threshold[r] \in Nat /\ Threshold[r] > 0
    BY AlertsAssumption
  <1>2. {Target[a] : a \in {}} = {} /\ Cardinality({}) = 0
    BY FS_EmptySet
  <1> QED
    BY <1>1, <1>2 DEF Reached

LEMMA MatchedFacts ==
  ASSUME NEW r \in Rule, NEW S \in SUBSET Audits, NEW a \in S
  PROVE  /\ a \in Matched(r, S, a)
         /\ Matched(r, S, a) \subseteq InWindow(S, a, Window[r])
         /\ Reached(r, InWindow(S, a, Window[r])) => Matched(r, S, a) = InWindow(S, a, Window[r])
         /\ \A b \in Matched(r, S, a) : b \in S /\ At[b] <= At[a]
  <1>1. a \in InWindow(S, a, Window[r])
    BY AtNat, WindowFacts DEF InWindow
  <1> QED
    BY <1>1 DEF Matched, InWindow

(***************************************************************************)
(* Linking evidence.                                                       *)
(***************************************************************************)

(* An alert of which the counters are right, or that is being opened for a.*)
Countable(alert, a) ==
    \/ Sound(alert)
    \/ alert.evidence = {} /\ alert.count = 0 /\ alert.last = At[a]

LEMMA LastAfterLink ==
  ASSUME NEW h \in Held, NEW S \in SUBSET Audits, NEW a \in S, \A b \in S : At[b] <= At[a],
         Countable(h.row, a)
  PROVE  LET m == Max({h.row.last} \cup {At[b] : b \in S \ h.row.evidence})
         IN  /\ m \in Nat
             /\ \E b \in h.row.evidence \cup S : m = At[b]
             /\ \A b \in h.row.evidence \cup S : At[b] <= m
  <1> DEFINE ev == h.row.evidence
             last == h.row.last
             D == S \ ev
             T == {last} \cup {At[b] : b \in D}
             n == IF a \in D /\ last < At[a] THEN At[a] ELSE last
  <1>1. /\ last \in Nat /\ ev \in SUBSET Audits /\ At[a] \in Nat
        /\ \A b \in S : At[b] \in Nat
    BY AtNat DEF Held, Alert
  <1>2. /\ \A b \in ev : At[b] <= last
        /\ (\E b \in ev : last = At[b]) \/ (last = At[a] /\ ev = {})
    BY <1>1 DEF Countable, Sound
  <1> HIDE DEF ev, last
  <1>3. T \in SUBSET Int /\ n \in T
    BY <1>1
  <1>4. \A y \in T : y <= n
    BY <1>1, <1>2
  <1>5. /\ n \in Nat
        /\ \E b \in ev \cup S : n = At[b]
        /\ \A b \in ev \cup S : At[b] <= n
    BY <1>1, <1>2, AtNat
  <1> HIDE DEF n
  <1>6. Max(T) = n
    BY <1>3, <1>4, MaxIs
  <1> QED
    BY <1>5, <1>6 DEF ev, last

LEMMA LinkFacts ==
  ASSUME NEW h \in Held, NEW S \in SUBSET Audits, IsFiniteSet(S), NEW a \in S,
         \A b \in S : At[b] <= At[a], Countable(h.row, a)
  PROVE  LET l == Link(h, S)
         IN  /\ l \in Held /\ l.at = h.at
             /\ l.row.status = h.row.status /\ l.row.resolvedAt = h.row.resolvedAt
             /\ l.row.evidence = h.row.evidence \cup S
             /\ Sound(l.row)
  <1> DEFINE ev == h.row.evidence
             D == S \ ev
             m == Max({h.row.last} \cup {At[b] : b \in D})
             c == h.row.count + Cardinality(D)
             row == [h.row EXCEPT !.count = c, !.last = m, !.evidence = ev \cup S]
  <1>1. m \in Nat /\ (\E b \in ev \cup S : m = At[b]) /\ (\A b \in ev \cup S : At[b] <= m)
    BY LastAfterLink
  <1>2. /\ h.row \in Alert /\ h.at \in Nat
        /\ h.row.count \in Nat /\ ev \in SUBSET Audits
    BY DEF Held, Alert
  <1>3. IsFiniteSet(ev) /\ h.row.count = Cardinality(ev)
    BY FS_EmptySet DEF Countable, Sound
  <1>4. IsFiniteSet(D) /\ Cardinality(D) \in Nat
    BY FS_Subset, FS_CardinalityType
  <1>5. IsFiniteSet(ev \cup S) /\ Cardinality(ev \cup S) = c
    <2>1. ev \cup D = ev \cup S /\ ev \cap D = {}
      OBVIOUS
    <2>2. Cardinality(ev \cap D) = 0 /\ Cardinality(ev) \in Nat
      BY <1>3, <2>1, FS_EmptySet, FS_CardinalityType
    <2> HIDE DEF ev, D
    <2>3. /\ IsFiniteSet(ev \cup D)
          /\ Cardinality(ev \cup D) = Cardinality(ev) + Cardinality(D) - Cardinality(ev \cap D)
      BY <1>3, <1>4, FS_Union
    <2>4. Cardinality(ev \cup D) = Cardinality(ev) + Cardinality(D)
      BY <1>4, <2>2, <2>3
    <2> QED
      BY <1>3, <2>1, <2>3, <2>4
  <1>6. Link(h, S) = [h EXCEPT !.row = row]
    BY <1>2 DEF Link, Held, Alert
  <1> HIDE DEF m, D, ev
  <1>a. c \in Nat /\ ev \cup S \in SUBSET Audits
    BY <1>2, <1>4
  <1> HIDE DEF c
  <1>7. /\ row \in Alert /\ row.status = h.row.status /\ row.resolvedAt = h.row.resolvedAt
        /\ row.evidence = ev \cup S /\ row.count = c /\ row.last = m
    BY <1>1, <1>2, <1>a DEF Alert
  <1>8. Sound(row)
    BY <1>1, <1>5, <1>7 DEF Sound
  <1> HIDE DEF row
  <1>9. /\ Link(h, S) \in Held /\ Link(h, S).at = h.at /\ Link(h, S).row = row
    BY <1>2, <1>6, <1>7 DEF Held
  <1> QED
    BY <1>7, <1>8, <1>9 DEF ev

(* A further episode is counted and nothing else of the alert changes.     *)
LEMMA EpisodeFacts ==
  ASSUME NEW h \in Held, Sound(h.row)
  PROVE  LET l == [h EXCEPT !.row.episodes = @ + 1]
         IN  /\ l \in Held /\ l.at = h.at
             /\ l.row.status = h.row.status /\ l.row.resolvedAt = h.row.resolvedAt
             /\ l.row.evidence = h.row.evidence
             /\ Sound(l.row)
  BY DEF Held, Alert, Sound

(***************************************************************************)
(* What a transaction holds, and what it has read.                         *)
(***************************************************************************)
GoodHold(p, r, h) ==
    /\ h \in Held /\ Sound(h.row)
    /\ h.row.status = "active" /\ h.row.resolvedAt = 0
    /\ Active(r) => h.at = Len(alerts[r]) /\ Last(alerts[r]).evidence \subseteq h.row.evidence
    /\ ~Active(r) => h.at = Len(alerts[r]) + 1
    /\ \A q \in Processes : q # p => ~Holds(q, r)

LEMMA ActiveFacts ==
  ASSUME TypeOK, NEW r \in Rule
  PROVE  /\ Len(alerts[r]) \in Nat /\ DOMAIN alerts[r] = 1 .. Len(alerts[r])
         /\ \A i \in 1 .. Len(alerts[r]) : alerts[r][i] \in Alert
         /\ Active(r) => /\ Len(alerts[r]) \in 1 .. Len(alerts[r])
                         /\ Last(alerts[r]) = alerts[r][Len(alerts[r])]
                         /\ Last(alerts[r]) \in Alert
                         /\ Last(alerts[r]).status = "active"
  <1>1. alerts[r] \in Seq(Alert)
    BY DEF TypeOK
  <1>2. Active(r) => Len(alerts[r]) # 0
    BY <1>1 DEF Active
  <1> QED
    BY <1>1, <1>2 DEF Active, Last

LEMMA HoldFacts ==
  ASSUME IInv, NEW p \in Processes, NEW r \in Rule, Holds(p, r)
  PROVE  GoodHold(p, r, tx[p].mine[r])
  <1>1. tx[p].mine[r] \in Held
    BY DEF IInv, LockedInv, TypeOK, TxType, Holds
  <1> QED
    BY <1>1 DEF GoodHold, IInv, LockedInv, LockInv, SoundInv

(* The lookup waits for the lock, so that what it returns nobody else has. *)
LEMMA FoundGood ==
  ASSUME IInv, NEW p \in Processes, NEW r \in Rule, Found(p, r) # NoAlert, Free(p, r)
  PROVE  GoodHold(p, r, Found(p, r))
  <1>1. CASE Holds(p, r)
    BY <1>1, HoldFacts DEF Found, Holds
  <1>2. CASE ~Holds(p, r)
    <2>1. Active(r) /\ Found(p, r) = [at |-> Len(alerts[r]), row |-> Last(alerts[r])]
      BY <1>2 DEF Found, Holds
    <2>2. /\ Len(alerts[r]) \in Nat /\ Last(alerts[r]) \in Alert
          /\ Len(alerts[r]) \in DOMAIN alerts[r]
          /\ Last(alerts[r]) = alerts[r][Len(alerts[r])] /\ Last(alerts[r]).status = "active"
      BY <2>1, ActiveFacts DEF IInv, LockedInv
    <2>3. Sound(Last(alerts[r])) /\ Last(alerts[r]).resolvedAt = 0
      BY <2>2 DEF IInv, LockedInv, SoundInv, KeyInv
    <2>4. \A q \in Processes : q # p => ~Holds(q, r)
      BY <2>1 DEF Free, Holds, IInv, LockedInv, LockInv
    <2> QED
      BY <2>1, <2>2, <2>3, <2>4 DEF GoodHold, Held
  <1> QED
    BY <1>1, <1>2

LEMMA LinkGood ==
  ASSUME NEW p \in Processes, NEW r \in Rule, NEW h, GoodHold(p, r, h),
         NEW S \in SUBSET Audits, IsFiniteSet(S), NEW a \in S, \A b \in S : At[b] <= At[a]
  PROVE  GoodHold(p, r, Link(h, S)) /\ Link(h, S).row.evidence = h.row.evidence \cup S
  <1>1. h \in Held /\ Countable(h.row, a)
    BY DEF GoodHold, Countable
  <1> DEFINE l == Link(h, S)
  <1>2. /\ l \in Held /\ l.at = h.at
        /\ l.row.status = h.row.status /\ l.row.resolvedAt = h.row.resolvedAt
        /\ l.row.evidence = h.row.evidence \cup S
        /\ Sound(l.row)
    BY <1>1, LinkFacts
  <1> HIDE DEF l
  <1>3. GoodHold(p, r, l) /\ l.row.evidence = h.row.evidence \cup S
    BY <1>2 DEF GoodHold
  <1> QED
    BY <1>3 DEF l

LEMMA EpisodeGood ==
  ASSUME NEW p \in Processes, NEW r \in Rule, NEW h, GoodHold(p, r, h)
  PROVE  LET l == [h EXCEPT !.row.episodes = @ + 1]
         IN  GoodHold(p, r, l) /\ l.row.evidence = h.row.evidence
  <1> DEFINE l == [h EXCEPT !.row.episodes = @ + 1]
  <1>1. /\ l \in Held /\ l.at = h.at
        /\ l.row.status = h.row.status /\ l.row.resolvedAt = h.row.resolvedAt
        /\ l.row.evidence = h.row.evidence
        /\ Sound(l.row)
    BY EpisodeFacts DEF GoodHold
  <1> HIDE DEF l
  <1>2. GoodHold(p, r, l) /\ l.row.evidence = h.row.evidence
    BY <1>1 DEF GoodHold
  <1> QED
    BY <1>2 DEF l

(* An alert that is opened where none is active.                           *)
LEMMA OpenGood ==
  ASSUME IInv, NEW p \in Processes, NEW r \in Rule, ~Holds(p, r), ~Active(r), Unclaimed(p, r),
         NEW S \in SUBSET Audits, IsFiniteSet(S), NEW a \in S, \A b \in S : At[b] <= At[a],
         NEW h, h = [at  |-> Len(alerts[r]) + 1,
                     row |-> [status |-> "active", count |-> 0, last |-> At[a],
                              episodes |-> 1, resolvedAt |-> 0, evidence |-> {}]]
  PROVE  GoodHold(p, r, Link(h, S)) /\ Link(h, S).row.evidence = S
  <1>1. Len(alerts[r]) \in Nat /\ At[a] \in Nat
    BY ActiveFacts, AtNat DEF IInv, LockedInv
  <1>2. h \in Held /\ Countable(h.row, a)
    BY <1>1 DEF Held, Alert, Countable
  <1> DEFINE l == Link(h, S)
  <1>3. /\ l \in Held /\ l.at = h.at
        /\ l.row.status = h.row.status /\ l.row.resolvedAt = h.row.resolvedAt
        /\ l.row.evidence = h.row.evidence \cup S
        /\ Sound(l.row)
    BY <1>2, LinkFacts
  <1> HIDE DEF l
  <1>4. l.at = Len(alerts[r]) + 1 /\ l.row.status = "active" /\ l.row.resolvedAt = 0 /\ l.row.evidence = S
    BY <1>3
  <1>5. \A q \in Processes : q # p => ~Holds(q, r)
    BY <1>1 DEF Unclaimed, Holds, IInv, LockedInv, LockInv
  <1>6. GoodHold(p, r, l) /\ l.row.evidence = S
    BY <1>3, <1>4, <1>5 DEF GoodHold
  <1> QED
    BY <1>6 DEF l

(***************************************************************************)
(* Steps of a transaction that write nothing.                              *)
(***************************************************************************)
LEMMA CurrentSame ==
  ASSUME NEW t, NEW u, u.todo = t.todo
  PROVE  Current(u) = Current(t)
  BY DEF Current

LEMMA LoadFacts ==
  ASSUME TypeOK, NEW t \in TxType, t.todo # {}, t.todo \subseteq log
  PROVE  /\ Load(t) \in TxType /\ ReadFits(Load(t))
         /\ Load(t).mine = t.mine /\ Load(t).batch = t.batch /\ Load(t).todo = t.todo
         /\ Load(t).step = "find" /\ Load(t).rule = "repeated"
         /\ Load(t).seen = InWindow(log, Current(t), MaxWindow)
  <1> DEFINE S == InWindow(log, Current(t), MaxWindow)
             u == [t EXCEPT !.step = "find", !.rule = "repeated", !.seen = S]
  <1>1. Current(t) \in t.todo /\ t.todo \in SUBSET Audits /\ log \in SUBSET Audits
    BY CurrentIn DEF TypeOK
  <1>2. Current(t) \in S /\ S \subseteq log
    BY <1>1, AtNat, WindowFacts DEF InWindow
  <1> HIDE DEF S
  <1>3. /\ u \in TxType /\ u.mine = t.mine /\ u.batch = t.batch /\ u.todo = t.todo
        /\ u.step = "find" /\ u.rule = "repeated" /\ u.seen = S
    BY <1>1, <1>2 DEF TxType, Steps, Rule
  <1>4. Load(t) = u
    BY DEF Load, S
  <1> HIDE DEF u
  <1>5. Current(u) = Current(t)
    BY <1>3, CurrentSame
  <1>6. ReadFits(u)
    BY <1>2, <1>3, <1>5 DEF ReadFits
  <1> QED
    BY <1>3, <1>4, <1>6 DEF S

LEMMA AdvanceFacts ==
  ASSUME TypeOK, NEW t \in TxType, t.todo # {}, t.todo \subseteq log,
         Current(t) \in t.seen, t.seen \subseteq log
  PROVE  /\ Advance(t) \in TxType /\ ReadFits(Advance(t))
         /\ Advance(t).mine = t.mine /\ Advance(t).batch = t.batch
         /\ \/ /\ t.rule = "repeated"
               /\ Advance(t).step = "find" /\ Advance(t).rule = "probe"
               /\ Advance(t).todo = t.todo /\ Advance(t).seen = t.seen
            \/ /\ t.rule = "probe" /\ t.todo # {Current(t)}
               /\ Advance(t).step = "find" /\ Advance(t).rule = "repeated"
               /\ Advance(t).todo = t.todo \ {Current(t)}
               /\ Advance(t).seen = InWindow(log, Current(Advance(t)), MaxWindow)
            \/ /\ t.rule = "probe" /\ t.todo = {Current(t)}
               /\ Advance(t).step = "commit" /\ Advance(t).todo = t.todo
  <1> DEFINE A == Advance(t)
  <1>0. t.rule \in {"repeated", "probe"}
    BY DEF TxType, Rule
  <1>1. CASE t.rule = "repeated"
    <2> DEFINE u == [t EXCEPT !.step = "find", !.rule = "probe"]
    <2>1. A = u
      BY <1>1 DEF Advance
    <2>2. /\ u \in TxType /\ u.mine = t.mine /\ u.batch = t.batch /\ u.todo = t.todo
          /\ u.step = "find" /\ u.rule = "probe" /\ u.seen = t.seen
      BY DEF TxType, Steps, Rule
    <2> HIDE DEF u
    <2>3. Current(u) = Current(t)
      BY <2>2, CurrentSame
    <2>4. ReadFits(u)
      BY <2>2, <2>3 DEF ReadFits
    <2> QED
      BY <1>1, <2>1, <2>2, <2>4
  <1>2. CASE t.rule = "probe" /\ t.todo # {Current(t)}
    <2> DEFINE u == [t EXCEPT !.todo = @ \ {Current(t)}]
    <2>1. A = Load(u)
      BY <1>2 DEF Advance
    <2>2. /\ u \in TxType /\ u.mine = t.mine /\ u.batch = t.batch
          /\ u.todo = t.todo \ {Current(t)}
      BY DEF TxType
    <2> HIDE DEF u
    <2>3. u.todo # {} /\ u.todo \subseteq log
      BY <1>2, <2>2
    <2>4. /\ Load(u) \in TxType /\ ReadFits(Load(u))
          /\ Load(u).mine = u.mine /\ Load(u).batch = u.batch /\ Load(u).todo = u.todo
          /\ Load(u).step = "find" /\ Load(u).rule = "repeated"
          /\ Load(u).seen = InWindow(log, Current(u), MaxWindow)
      BY <2>2, <2>3, LoadFacts
    <2>5. Current(Load(u)) = Current(u)
      BY <2>4, CurrentSame
    <2> QED
      BY <1>2, <2>1, <2>2, <2>4, <2>5
  <1>3. CASE t.rule = "probe" /\ t.todo = {Current(t)}
    <2> DEFINE u == [t EXCEPT !.step = "commit", !.seen = {}]
    <2>1. A = u
      BY <1>3 DEF Advance
    <2>2. /\ u \in TxType /\ u.mine = t.mine /\ u.batch = t.batch /\ u.todo = t.todo
          /\ u.step = "commit"
      BY DEF TxType, Steps
    <2> HIDE DEF u
    <2>3. ReadFits(u)
      BY <2>2 DEF ReadFits
    <2> QED
      BY <1>3, <2>1, <2>2, <2>3
  <1> QED
    BY <1>0, <1>1, <1>2, <1>3

(* What is asked of the new state t of a transaction p, for everything but *)
(* the batch to hold afterwards.                                           *)
TxOnly(p, t) ==
    /\ tx' = [tx EXCEPT ![p] = t]
    /\ alerts' = alerts /\ log' = log /\ receipt' = receipt /\ generation' = generation

LEMMA SameAlerts ==
  ASSUME alerts' = alerts
  PROVE  \A r : /\ ResolvedAt(r)' = ResolvedAt(r) /\ Active(r)' = Active(r)
                /\ Last(alerts[r])' = Last(alerts[r])
  BY DEF ResolvedAt, Active

LEMMA TxStep ==
  ASSUME IInv, NEW p \in Processes, NEW t \in TxType, TxOnly(p, t),
         ReadFits(t),
         \A r \in Rule : t.mine[r] # NoAlert => GoodHold(p, r, t.mine[r]),
         p = Reconciler => BatchFits(t)
  PROVE  IInv'
  <1>0. TypeOK /\ tx \in [Processes -> TxType]
    BY DEF IInv, LockedInv, TypeOK
  <1>a. /\ tx'[p] = t /\ \A q \in Processes : q # p => tx'[q] = tx[q]
        /\ alerts' = alerts /\ log' = log /\ receipt' = receipt /\ generation' = generation
    BY <1>0 DEF TxOnly
  <1>b. \A r : /\ ResolvedAt(r)' = ResolvedAt(r) /\ Active(r)' = Active(r)
               /\ Last(alerts[r])' = Last(alerts[r])
    BY <1>a, SameAlerts
  <1>1. TypeOK'
    BY <1>0, <1>a DEF TypeOK, TxOnly
  <1>2. KeyInv'
    BY <1>a, <1>b DEF IInv, LockedInv, KeyInv
  <1>3. LockInv'
    BY <1>a, <1>b DEF IInv, LockedInv, LockInv, GoodHold, Holds
  <1>4. SoundInv'
    BY <1>a DEF IInv, SoundInv, GoodHold, Holds
  <1>6. ReadInv'
    <2> SUFFICES ASSUME NEW q \in Processes PROVE ReadFits(tx[q])'
      BY DEF ReadInv
    <2>1. CASE q = p
      BY <1>a, <2>1 DEF ReadFits, ResolvedAt
    <2>2. CASE q # p
      <3>1. ReadFits(tx[q]) /\ tx'[q] = tx[q]
        BY <1>a, <2>2 DEF IInv, ReadInv
      <3> QED
        BY <1>a, <3>1 DEF ReadFits, ResolvedAt
    <2> QED
      BY <2>1, <2>2
  <1>7. ReceiptInv'
    BY <1>a DEF IInv, ReceiptInv
  <1>8. CoverInv'
    BY <1>a, <1>b DEF IInv, CoverInv, Evaluated, Wanted
  <1>9. BatchInv'
    <2>1. (tx'[Reconciler] = t /\ BatchFits(t)) \/ tx'[Reconciler] = tx[Reconciler]
      BY <1>a DEF Processes
    <2>2. PICK u : u = tx'[Reconciler] /\ BatchFits(u)
      BY <2>1 DEF IInv, BatchInv
    <2>3. Known(u.batch)' = Known(u.batch)
      BY <1>a DEF Known
    <2>4. ASSUME NEW r \in Rule, NEW a \in u.batch, Done(u, r, a)
          PROVE  Vouched(tx[Reconciler], r, a)'
      <3>1. Vouched(u, r, a)
        BY <2>2, <2>4 DEF BatchFits
      <3>2. Wanted(r, Known(tx[Reconciler].batch), a)' = Wanted(r, Known(u.batch), a)
        BY <1>a, <1>b, <2>2 DEF Wanted, Known
      <3> QED
        BY <2>2, <3>1, <3>2 DEF Vouched
    <2>5. /\ u.batch \subseteq log /\ u.todo \subseteq u.batch
          /\ u.step \in {"find", "create"} =>
                InWindow(Known(u.batch), Current(u), MaxWindow) \subseteq u.seen
      BY <2>2 DEF BatchFits
    <2> QED
      BY <1>a, <2>2, <2>4, <2>5 DEF BatchInv, BatchFits, Known, Done
  <1> QED
    BY <1>1, <1>2, <1>3, <1>4, <1>6, <1>7, <1>8, <1>9 DEF IInv, LockedInv

(* The batch goes on, once the rule at hand has been evaluated for its     *)
(* current audit.                                                          *)
LEMMA AdvanceBatch ==
  ASSUME TypeOK, NEW t \in TxType, t.todo # {}, t.todo \subseteq log,
         Current(t) \in t.seen, t.seen \subseteq log,
         t.step \in {"find", "create"}, t.batch \subseteq log, t.todo \subseteq t.batch,
         InWindow(Known(t.batch), Current(t), MaxWindow) \subseteq t.seen,
         \A r \in Rule : \A a \in t.batch : Done(t, r, a) => Vouched(t, r, a),
         Vouched(t, t.rule, Current(t))
  PROVE  BatchFits(Advance(t))
  <1> DEFINE u == Advance(t)
  <1>1. /\ u.mine = t.mine /\ u.batch = t.batch
        /\ \/ /\ t.rule = "repeated"
              /\ u.step = "find" /\ u.rule = "probe"
              /\ u.todo = t.todo /\ u.seen = t.seen
           \/ /\ t.rule = "probe" /\ t.todo # {Current(t)}
              /\ u.step = "find" /\ u.rule = "repeated"
              /\ u.todo = t.todo \ {Current(t)}
              /\ u.seen = InWindow(log, Current(u), MaxWindow)
           \/ /\ t.rule = "probe" /\ t.todo = {Current(t)}
              /\ u.step = "commit" /\ u.todo = t.todo
    BY AdvanceFacts
  <1> SUFFICES BatchFits(u)
    OBVIOUS
  <1> HIDE DEF u
  <1>2. \A r, a : Vouched(t, r, a) => Vouched(u, r, a)
    BY <1>1 DEF Vouched
  <1>3. u.batch \subseteq log /\ u.todo \subseteq u.batch
    BY <1>1
  <1>4. Known(u.batch) \subseteq log
    BY DEF Known
  <1>5. CASE t.rule = "repeated"
    <2>1. /\ u.step = "find" /\ u.rule = "probe" /\ u.todo = t.todo /\ u.seen = t.seen
      BY <1>1, <1>5
    <2>2. Current(u) = Current(t)
      BY <2>1, CurrentSame
    <2>3. ASSUME NEW r \in Rule, NEW a \in u.batch, Done(u, r, a) PROVE Vouched(u, r, a)
      BY <1>1, <1>2, <1>5, <2>1, <2>2, <2>3 DEF Done
    <2> QED
      BY <1>1, <1>3, <2>1, <2>2, <2>3 DEF BatchFits
  <1>6. CASE t.rule = "probe" /\ t.todo # {Current(t)}
    <2>1. /\ u.step = "find" /\ u.rule = "repeated" /\ u.todo = t.todo \ {Current(t)}
          /\ u.seen = InWindow(log, Current(u), MaxWindow)
      BY <1>1, <1>6
    <2>2. ASSUME NEW r \in Rule, NEW a \in u.batch, Done(u, r, a) PROVE Vouched(u, r, a)
      BY <1>1, <1>2, <1>6, <2>1, <2>2 DEF Done, Rule
    <2>3. InWindow(Known(u.batch), Current(u), MaxWindow) \subseteq u.seen
      BY <1>4, <2>1 DEF InWindow
    <2> QED
      BY <1>3, <2>1, <2>2, <2>3 DEF BatchFits
  <1>7. CASE t.rule = "probe" /\ t.todo = {Current(t)}
    <2>1. u.step = "commit" /\ u.todo = t.todo
      BY <1>1, <1>7
    <2>2. ASSUME NEW r \in Rule, NEW a \in u.batch PROVE Vouched(u, r, a)
      BY <1>1, <1>2, <1>7, <2>2 DEF Done, Rule
    <2> QED
      BY <1>3, <2>1, <2>2 DEF BatchFits
  <1> QED
    BY <1>1, <1>5, <1>6, <1>7

LEMMA BusyFacts ==
  ASSUME IInv, NEW p \in Processes, tx[p].step \in {"find", "create"}
  PROVE  LET t == tx[p]
         IN  /\ TypeOK /\ t \in TxType /\ t.rule \in Rule
             /\ t.todo # {} /\ t.todo \subseteq log /\ log \in SUBSET Audits /\ IsFiniteSet(log)
             /\ Current(t) \in t.seen /\ t.seen \subseteq log /\ Current(t) \in t.todo
  <1>1. /\ TypeOK /\ tx[p] \in TxType /\ ReadFits(tx[p])
    BY DEF IInv, LockedInv, TypeOK, ReadInv
  <1>2. /\ tx[p].todo # {} /\ tx[p].todo \subseteq log /\ log \in SUBSET Audits
        /\ IsFiniteSet(log)
    BY <1>1 DEF ReadFits, TypeOK
  <1> QED
    BY <1>1, <1>2, CurrentIn DEF ReadFits, TxType

(* An alert is kept for the rule at hand.                                  *)
LEMMA KeepStep ==
  ASSUME IInv, NEW p \in Processes, tx[p].step \in {"find", "create"},
         NEW h, Keep(p, h), GoodHold(p, tx[p].rule, h),
         UNCHANGED <<log, alerts, receipt, generation>>,
         Holds(p, tx[p].rule) => tx[p].mine[tx[p].rule].row.evidence \subseteq h.row.evidence,
         p = Reconciler =>
            LET W == Wanted(tx[p].rule, Known(tx[p].batch), Current(tx[p]))
            IN  Reached(tx[p].rule, W) => W \subseteq h.row.evidence
  PROVE  IInv'
  <1> DEFINE u == [tx[p] EXCEPT !.mine[tx[p].rule] = h, !.fresh = {}]
  <1>1. /\ TypeOK /\ tx[p] \in TxType /\ tx[p].rule \in Rule
        /\ tx[p].todo # {} /\ tx[p].todo \subseteq log
        /\ Current(tx[p]) \in tx[p].seen /\ tx[p].seen \subseteq log
        /\ Current(tx[p]) \in tx[p].todo
    BY BusyFacts
  <1>2. h \in Held /\ h # NoAlert
    BY NoAlertAssumption DEF GoodHold
  <1>3. /\ u \in TxType /\ u.step = tx[p].step /\ u.rule = tx[p].rule /\ u.todo = tx[p].todo
        /\ u.batch = tx[p].batch /\ u.seen = tx[p].seen
        /\ u.mine[u.rule] = h
        /\ \A r \in Rule : r # u.rule => u.mine[r] = tx[p].mine[r]
    BY <1>1, <1>2 DEF TxType
  <1>4. tx' = [tx EXCEPT ![p] = Advance(u)]
    BY DEF Keep
  <1> HIDE DEF u
  <1>5. Current(u) = Current(tx[p])
    BY <1>3, CurrentSame
  <1>6. Advance(u) \in TxType /\ ReadFits(Advance(u)) /\ Advance(u).mine = u.mine
    BY <1>1, <1>3, <1>5, AdvanceFacts
  <1>7. \A r \in Rule : Advance(u).mine[r] # NoAlert => GoodHold(p, r, Advance(u).mine[r])
    BY <1>3, <1>6, HoldFacts DEF Holds
  <1>8. ASSUME p = Reconciler PROVE BatchFits(Advance(u))
    <2>1. BatchFits(tx[p])
      BY <1>8 DEF IInv, BatchInv
    <2>2. ASSUME NEW r \in Rule, NEW a, Vouched(tx[p], r, a) PROVE Vouched(u, r, a)
      BY <1>2, <1>3, <2>2 DEF Vouched, Holds
    <2>3. \A r \in Rule : \A a \in u.batch : Done(u, r, a) => Vouched(u, r, a)
      BY <1>3, <1>5, <2>1, <2>2 DEF BatchFits, Done
    <2>4. Vouched(u, u.rule, Current(u))
      BY <1>2, <1>3, <1>5, <1>8 DEF Vouched
    <2>5. /\ u.batch \subseteq log /\ u.todo \subseteq u.batch
          /\ InWindow(Known(u.batch), Current(u), MaxWindow) \subseteq u.seen
      BY <1>3, <1>5, <2>1 DEF BatchFits
    <2> QED
      BY <1>1, <1>3, <1>5, <2>3, <2>4, <2>5, AdvanceBatch
  <1>9. TxOnly(p, Advance(u))
    BY <1>4 DEF TxOnly
  <1> QED
    BY <1>6, <1>7, <1>8, <1>9, TxStep

(* What the current window of a batch still wants has been read.           *)
LEMMA WantedRead ==
  ASSUME IInv, tx[Reconciler].step \in {"find", "create"},
         NEW t, t = tx[Reconciler], NEW W, W = Wanted(t.rule, Known(t.batch), Current(t)),
         Reached(t.rule, W)
  PROVE  /\ \A b \in W : b \in Matched(t.rule, t.seen, Current(t)) /\ At[b] > ResolvedAt(t.rule)
         /\ IsFiniteSet(Matched(t.rule, t.seen, Current(t)))
  <1>1. /\ TypeOK /\ t \in TxType /\ t.rule \in Rule /\ IsFiniteSet(log) /\ log \in SUBSET Audits
        /\ Current(t) \in t.seen /\ t.seen \subseteq log
    BY BusyFacts DEF Processes
  <1>2. InWindow(Known(t.batch), Current(t), MaxWindow) \subseteq t.seen
    BY DEF IInv, BatchInv, BatchFits
  <1>3. InWindow(Known(t.batch), Current(t), Window[t.rule]) \subseteq InWindow(t.seen, Current(t), Window[t.rule])
    <2> SUFFICES ASSUME NEW b \in InWindow(Known(t.batch), Current(t), Window[t.rule])
                 PROVE  b \in InWindow(t.seen, Current(t), Window[t.rule])
      OBVIOUS
    <2>1. /\ b \in Known(t.batch) /\ At[b] <= At[Current(t)]
          /\ At[Current(t)] - Window[t.rule] <= At[b]
      BY DEF InWindow
    <2>2. b \in Audits /\ Current(t) \in Audits
      BY <1>1, <2>1 DEF Known
    <2>3. At[Current(t)] - MaxWindow <= At[b]
      BY <1>1, <2>1, <2>2, AtNat, WindowFacts
    <2> QED
      BY <1>2, <2>1, <2>3 DEF InWindow
  <1>4. W \subseteq InWindow(t.seen, Current(t), Window[t.rule])
    BY <1>3 DEF Wanted
  <1>5. IsFiniteSet(InWindow(t.seen, Current(t), Window[t.rule]))
    BY <1>1, FS_Subset DEF InWindow
  <1>6. Reached(t.rule, InWindow(t.seen, Current(t), Window[t.rule]))
    BY <1>1, <1>4, <1>5, ReachedMore
  <1>7. Matched(t.rule, t.seen, Current(t)) = InWindow(t.seen, Current(t), Window[t.rule])
    BY <1>6 DEF Matched
  <1> QED
    BY <1>4, <1>5, <1>7 DEF Wanted

(* The audits a transaction matches, whatever the rule.                    *)
LEMMA BusyMatch ==
  ASSUME IInv, NEW p \in Processes, tx[p].step \in {"find", "create"},
         NEW S, S = Matched(tx[p].rule, tx[p].seen, Current(tx[p]))
  PROVE  /\ S \in SUBSET Audits /\ IsFiniteSet(S) /\ Current(tx[p]) \in S
         /\ \A b \in S : b \in tx[p].seen /\ At[b] <= At[Current(tx[p])]
  <1>1. /\ tx[p].rule \in Rule /\ tx[p].seen \subseteq log /\ log \in SUBSET Audits
        /\ IsFiniteSet(log) /\ Current(tx[p]) \in tx[p].seen
    BY BusyFacts
  <1>2. tx[p].seen \in SUBSET Audits
    BY <1>1
  <1>3. /\ Current(tx[p]) \in S
        /\ \A b \in S : b \in tx[p].seen /\ At[b] <= At[Current(tx[p])]
    BY <1>1, <1>2, MatchedFacts
  <1>4. S \in SUBSET log
    BY <1>1, <1>3
  <1>5. IsFiniteSet(S)
    BY <1>1, <1>4, FS_Subset
  <1> QED
    BY <1>1, <1>3, <1>4, <1>5

LEMMA FindActiveStep ==
  ASSUME IInv, NEW p \in Processes, FindActive(p)
  PROVE  IInv'
  <1> DEFINE r == tx[p].rule
             a == Current(tx[p])
             S == Matched(r, tx[p].seen, a)
             alert == Found(p, r)
             W == Wanted(r, Known(tx[p].batch), a)
  <1>1. /\ tx[p].step = "find" /\ Free(p, r) /\ alert # NoAlert
        /\ UNCHANGED <<log, alerts, receipt, generation>>
        /\ \/ Keep(p, Link(alert, S))
           \/ Keep(p, [Link(alert, S) EXCEPT !.row.episodes = @ + 1])
           \/ Keep(p, alert) /\ (~Reached(r, S) \/ S \subseteq alert.row.evidence)
    BY DEF FindActive
  <1>2. r \in Rule
    BY <1>1, BusyFacts
  <1>3. /\ S \in SUBSET Audits /\ IsFiniteSet(S) /\ a \in S
        /\ \A b \in S : b \in tx[p].seen /\ At[b] <= At[a]
    BY <1>1, BusyMatch
  <1>4. GoodHold(p, r, alert)
    BY <1>1, <1>2, FoundGood
  <1>5. Holds(p, r) => alert = tx[p].mine[r]
    BY DEF Found, Holds
  <1>6. p = Reconciler /\ Reached(r, W) => W \subseteq S
    <2>1. SUFFICES ASSUME p = Reconciler, Reached(r, W) PROVE \A b \in W : b \in S
      OBVIOUS
    <2> QED
      BY <1>1, <2>1, WantedRead
  <1> HIDE DEF S, alert, W
  <1>7. GoodHold(p, r, Link(alert, S)) /\ Link(alert, S).row.evidence = alert.row.evidence \cup S
    BY <1>2, <1>3, <1>4, LinkGood
  <1>8. ASSUME NEW h, Keep(p, h), GoodHold(p, r, h), alert.row.evidence \subseteq h.row.evidence,
               Reached(r, S) => S \subseteq h.row.evidence
        PROVE  IInv'
    <2>1. p = Reconciler => (Reached(r, W) => W \subseteq h.row.evidence)
      BY <1>2, <1>3, <1>6, <1>8, ReachedMore
    <2>2. Holds(p, r) => tx[p].mine[r].row.evidence \subseteq h.row.evidence
      BY <1>5, <1>8
    <2> QED
      BY <1>1, <1>8, <2>1, <2>2, KeepStep DEF W
  <1>9. CASE Keep(p, Link(alert, S))
    BY <1>7, <1>8, <1>9
  <1>10. CASE Keep(p, [Link(alert, S) EXCEPT !.row.episodes = @ + 1])
    <2> DEFINE h == [Link(alert, S) EXCEPT !.row.episodes = @ + 1]
    <2>1. GoodHold(p, r, h) /\ h.row.evidence = Link(alert, S).row.evidence
      BY <1>2, <1>7, EpisodeGood
    <2>2. Keep(p, h)
      BY <1>10
    <2> HIDE DEF h
    <2> QED
      BY <1>7, <1>8, <2>1, <2>2
  <1>11. CASE Keep(p, alert) /\ (~Reached(r, S) \/ S \subseteq alert.row.evidence)
    BY <1>4, <1>8, <1>11
  <1> QED
    BY <1>1, <1>9, <1>10, <1>11 DEF S, alert

LEMMA FindNoneStep ==
  ASSUME IInv, NEW p \in Processes, FindNone(p)
  PROVE  IInv'
  <1> DEFINE t == tx[p]
             r == t.rule
             a == Current(t)
             S == Matched(r, t.seen, a)
             fresh == {b \in S : At[b] > ResolvedAt(r)}
             W == Wanted(r, Known(t.batch), a)
  <1>1. /\ t.step = "find" /\ Found(p, r) = NoAlert
        /\ UNCHANGED <<log, alerts, receipt, generation>>
        /\ tx' = [tx EXCEPT ![p] = IF Reached(r, fresh)
                                   THEN [t EXCEPT !.step = "create", !.fresh = fresh]
                                   ELSE Advance(t)]
    BY DEF FindNone
  <1>2. /\ TypeOK /\ t \in TxType /\ r \in Rule /\ t.todo # {} /\ t.todo \subseteq log
        /\ a \in t.seen /\ t.seen \subseteq log /\ a \in t.todo
    BY <1>1, BusyFacts
  <1>3. /\ S \in SUBSET Audits /\ IsFiniteSet(S) /\ a \in S
        /\ \A b \in S : b \in t.seen /\ At[b] <= At[a]
    BY <1>1, BusyMatch
  <1>4. t.mine[r] = NoAlert
    BY <1>1 DEF Found
  <1>5. \A q \in Rule : t.mine[q] # NoAlert => GoodHold(p, q, t.mine[q])
    BY HoldFacts DEF Holds
  <1>6. p = Reconciler => BatchFits(t)
    BY DEF IInv, BatchInv
  <1>7. CASE Reached(r, fresh)
    <2> DEFINE u == [t EXCEPT !.step = "create", !.fresh = fresh]
    <2>1. fresh \in SUBSET Audits /\ fresh \in SUBSET S
      BY <1>3
    <2>2. PICK b \in S : At[b] > ResolvedAt(r)
      BY <1>2, <1>7, EmptyUnreached
    <2>3. At[a] > ResolvedAt(r)
      <3>1. ResolvedAt(r) \in Nat /\ At[a] \in Nat /\ At[b] \in Nat /\ At[b] <= At[a]
        BY <1>2, <1>3, AtNat DEF IInv, LockedInv, KeyInv
      <3> QED
        BY <2>2, <3>1
    <2>4. a \in fresh
      BY <1>3, <2>3
    <2>5. fresh \subseteq InWindow(t.seen, a, Window[r])
      BY <1>2, MatchedFacts DEF TypeOK
    <2>6. \A c \in S : At[c] > ResolvedAt(r) => c \in fresh
      OBVIOUS
    <2> HIDE DEF fresh
    <2>7. /\ u \in TxType /\ u.step = "create" /\ u.rule = r /\ u.todo = t.todo
          /\ u.batch = t.batch /\ u.seen = t.seen /\ u.mine = t.mine /\ u.fresh = fresh
      BY <1>2, <2>1 DEF TxType, Steps
    <2>8. tx' = [tx EXCEPT ![p] = u]
      BY <1>1, <1>7
    <2> HIDE DEF u
    <2>9. Current(u) = a
      BY <2>7, CurrentSame
    <2>10. ReadFits(u)
      BY <1>2, <1>4, <2>4, <2>5, <2>6, <2>7, <2>9 DEF ReadFits
    <2>11. p = Reconciler => BatchFits(u)
      BY <1>1, <1>6, <2>7, <2>9 DEF BatchFits, Done, Vouched
    <2>12. TxOnly(p, u)
      BY <1>1, <2>8 DEF TxOnly
    <2> QED
      BY <1>5, <2>7, <2>10, <2>11, <2>12, TxStep
  <1>8. CASE ~Reached(r, fresh)
    <2>1. TxOnly(p, Advance(t))
      BY <1>1, <1>8 DEF TxOnly
    <2>2. Advance(t) \in TxType /\ ReadFits(Advance(t)) /\ Advance(t).mine = t.mine
      BY <1>2, AdvanceFacts
    <2>3. p = Reconciler => Vouched(t, r, a)
      <3>1. SUFFICES ASSUME p = Reconciler PROVE ~Reached(r, W)
        BY DEF Vouched
      <3>2. SUFFICES ASSUME Reached(r, W) PROVE FALSE
        OBVIOUS
      <3>3. \A b \in W : b \in S /\ At[b] > ResolvedAt(r)
        BY <1>1, <3>1, <3>2, WantedRead
      <3>4. W \subseteq fresh
        BY <3>3
      <3>5. IsFiniteSet(fresh)
        BY <1>3, FS_Subset
      <3> HIDE DEF W, fresh
      <3> QED
        BY <1>2, <1>8, <3>2, <3>4, <3>5, ReachedMore
    <2>4. p = Reconciler => BatchFits(Advance(t))
      BY <1>1, <1>2, <1>6, <2>3, AdvanceBatch DEF BatchFits
    <2> QED
      BY <1>5, <2>1, <2>2, <2>4, TxStep
  <1> QED
    BY <1>7, <1>8

LEMMA CreateStep ==
  ASSUME IInv, NEW p \in Processes, Create(p)
  PROVE  IInv'
  <1> DEFINE t == tx[p]
             r == t.rule
             a == Current(t)
             W == Wanted(r, Known(t.batch), a)
             new == [at  |-> Len(alerts[r]) + 1,
                     row |-> [status |-> "active", count |-> 0, last |-> At[a],
                              episodes |-> 1, resolvedAt |-> 0, evidence |-> {}]]
  <1>1. /\ t.step = "create" /\ ~Active(r) /\ Unclaimed(p, r)
        /\ Keep(p, Link(new, t.fresh))
        /\ UNCHANGED <<log, alerts, receipt, generation>>
    BY DEF Create
  <1>2. /\ r \in Rule /\ a \in t.seen /\ t.seen \subseteq log /\ log \in SUBSET Audits
        /\ IsFiniteSet(log) /\ ReadFits(t)
    BY <1>1, BusyFacts DEF IInv, ReadInv
  <1>3. /\ ~Holds(p, r) /\ a \in t.fresh /\ t.fresh \subseteq InWindow(t.seen, a, Window[r])
        /\ \A b \in Matched(r, t.seen, a) : At[b] > ResolvedAt(r) => b \in t.fresh
    BY <1>1, <1>2 DEF ReadFits, Holds
  <1>4. t.fresh \in SUBSET log /\ \A b \in t.fresh : At[b] <= At[a]
    BY <1>2, <1>3 DEF InWindow
  <1>5. IsFiniteSet(t.fresh) /\ t.fresh \in SUBSET Audits
    BY <1>2, <1>4, FS_Subset
  <1>6. GoodHold(p, r, Link(new, t.fresh)) /\ Link(new, t.fresh).row.evidence = t.fresh
    BY <1>1, <1>2, <1>3, <1>4, <1>5, OpenGood DEF IInv
  <1>7. p = Reconciler => (Reached(r, W) => W \subseteq t.fresh)
    <2>1. SUFFICES ASSUME p = Reconciler, Reached(r, W) PROVE \A b \in W : b \in t.fresh
      OBVIOUS
    <2>2. \A b \in W : b \in Matched(r, t.seen, a) /\ At[b] > ResolvedAt(r)
      BY <1>1, <2>1, WantedRead
    <2> HIDE DEF W
    <2> QED
      BY <1>3, <2>2
  <1> DEFINE h == Link(new, t.fresh)
  <1>8. /\ GoodHold(p, r, h) /\ Keep(p, h)
        /\ p = Reconciler => (Reached(r, W) => W \subseteq h.row.evidence)
    BY <1>1, <1>6, <1>7
  <1> HIDE DEF h
  <1> QED
    BY <1>1, <1>3, <1>8, KeepStep

LEMMA ConflictStep ==
  ASSUME IInv, NEW p \in Processes, CreateConflicts(p)
  PROVE  IInv'
  <1> DEFINE t == tx[p]
             r == t.rule
             a == Current(t)
             S == Matched(r, t.seen, a)
             alert == Found(p, r)
             W == Wanted(r, Known(t.batch), a)
  <1>1. /\ t.step = "create" /\ Active(r) /\ Free(p, r)
        /\ Keep(p, Link(alert, S))
        /\ UNCHANGED <<log, alerts, receipt, generation>>
    BY DEF CreateConflicts
  <1>2. r \in Rule /\ ReadFits(t)
    BY <1>1, BusyFacts DEF IInv, ReadInv
  <1>3. ~Holds(p, r)
    BY <1>1, <1>2 DEF ReadFits, Holds
  <1>4. alert # NoAlert
    <2>1. alert = [at |-> Len(alerts[r]), row |-> Last(alerts[r])]
      BY <1>1, <1>3 DEF Found, Holds
    <2>2. Len(alerts[r]) \in Nat /\ Last(alerts[r]) \in Alert
      BY <1>1, <1>2, ActiveFacts DEF IInv, LockedInv
    <2> HIDE DEF alert
    <2>3. alert \in Held
      BY <2>1, <2>2 DEF Held
    <2> QED
      BY <2>3, NoAlertAssumption
  <1>5. /\ S \in SUBSET Audits /\ IsFiniteSet(S) /\ a \in S
        /\ \A b \in S : b \in t.seen /\ At[b] <= At[a]
    BY <1>1, BusyMatch
  <1>6. GoodHold(p, r, alert)
    BY <1>1, <1>2, <1>4, FoundGood
  <1>7. p = Reconciler => (Reached(r, W) => W \subseteq S)
    <2>1. SUFFICES ASSUME p = Reconciler, Reached(r, W) PROVE \A b \in W : b \in S
      OBVIOUS
    <2> QED
      BY <1>1, <2>1, WantedRead
  <1> HIDE DEF S, alert, W
  <1> DEFINE h == Link(alert, S)
  <1>8. GoodHold(p, r, h) /\ h.row.evidence = alert.row.evidence \cup S
    BY <1>2, <1>5, <1>6, LinkGood
  <1>9. Keep(p, h)
    BY <1>1
  <1> HIDE DEF h
  <1>10. p = Reconciler => (Reached(r, W) => W \subseteq h.row.evidence)
    BY <1>7, <1>8
  <1> QED
    BY <1>1, <1>3, <1>8, <1>9, <1>10, KeepStep DEF W

LEMMA IdleFacts ==
  /\ Idle \in TxType /\ Idle.step = "idle" /\ Idle.todo = {} /\ Idle.batch = {}
  /\ \A r \in Rule : Idle.mine[r] = NoAlert
  BY DEF Idle, TxType, Steps, Rule

LEMMA AbortStep ==
  ASSUME IInv, NEW p \in Processes, Abort(p)
  PROVE  IInv'
  <1>1. TxOnly(p, Idle)
    BY DEF Abort, TxOnly
  <1>2. ReadFits(Idle) /\ BatchFits(Idle)
    BY IdleFacts DEF ReadFits, BatchFits
  <1> QED
    BY <1>1, <1>2, IdleFacts, TxStep

(* A transaction begins with audits that are committed.                    *)
LEMMA BeginStep ==
  ASSUME IInv, NEW p \in Processes,
         NEW t \in TxType, t.todo \subseteq log, t.todo # {}, p = Reconciler => t.batch = t.todo,
         \A r \in Rule : t.mine[r] = NoAlert,
         tx' = [tx EXCEPT ![p] = Load(t)],
         UNCHANGED <<log, alerts, receipt, generation>>
  PROVE  IInv'
  <1>0. TypeOK /\ log \in SUBSET Audits
    BY DEF IInv, LockedInv, TypeOK
  <1> DEFINE u == Load(t)
  <1>2. /\ u \in TxType /\ ReadFits(u) /\ u.mine = t.mine /\ u.batch = t.batch /\ u.todo = t.todo
        /\ u.step = "find" /\ u.rule = "repeated"
        /\ u.seen = InWindow(log, Current(t), MaxWindow)
    BY <1>0, LoadFacts
  <1>3. TxOnly(p, u)
    BY DEF TxOnly
  <1> HIDE DEF u
  <1>4. Current(u) = Current(t)
    BY <1>2, CurrentSame
  <1>5. p = Reconciler => BatchFits(u)
    BY <1>2, <1>4 DEF BatchFits, Known, InWindow, Done
  <1> QED
    BY <1>2, <1>3, <1>5, TxStep

LEMMA DetectStep ==
  ASSUME IInv, NEW p \in Tasks, NEW a \in Audits, Detect(p, a)
  PROVE  IInv'
  <1>1. p \in Processes /\ p # Reconciler
    BY AlertsAssumption DEF Processes
  <1> DEFINE t == [Idle EXCEPT !.todo = {a}]
  <1>2. t \in TxType /\ t.todo = {a} /\ \A r \in Rule : t.mine[r] = NoAlert
    BY IdleFacts DEF TxType
  <1>3. /\ a \in log /\ tx' = [tx EXCEPT ![p] = Load(t)]
        /\ UNCHANGED <<log, alerts, receipt, generation>>
    BY DEF Detect
  <1> HIDE DEF t
  <1> QED
    BY <1>1, <1>2, <1>3, BeginStep

LEMMA ScanStep ==
  ASSUME IInv, Scan
  PROVE  IInv'
  <1>1. PICK batch \in SUBSET Backlog :
           /\ Cardinality(batch) = Min({BatchSize, Cardinality(Backlog)})
           /\ tx' = [tx EXCEPT ![Reconciler] =
                        Load([Idle EXCEPT !.todo = batch, !.batch = batch])]
    BY DEF Scan
  <1>2. /\ Reconciler \in Processes /\ Backlog # {}
        /\ UNCHANGED <<log, alerts, receipt, generation>>
    BY DEF Processes, Scan
  <1>3. log \in SUBSET Audits /\ IsFiniteSet(log) /\ Backlog \in SUBSET log
    BY DEF IInv, LockedInv, TypeOK, Backlog
  <1>4. IsFiniteSet(Backlog)
    BY <1>3, FS_Subset
  <1> DEFINE n == Cardinality(Backlog)
  <1>5. n \in Nat /\ n # 0
    BY <1>2, <1>4, FS_EmptySet, FS_CardinalityType
  <1>6. BatchSize \in Nat /\ BatchSize # 0
    BY AlertsAssumption
  <1> HIDE DEF n
  <1>7. \E x \in {BatchSize, n} : \A y \in {BatchSize, n} : x =< y
    <2>1. BatchSize =< n \/ n =< BatchSize
      BY <1>5, <1>6
    <2> QED
      BY <1>5, <1>6, <2>1
  <1>8. Min({BatchSize, n}) \in {BatchSize, n}
    BY <1>7, Zenon DEF Min
  <1>9. batch # {}
    <2>1. Cardinality(batch) # 0
      BY <1>1, <1>5, <1>6, <1>8 DEF n
    <2> QED
      BY <2>1, FS_EmptySet
  <1> DEFINE t == [Idle EXCEPT !.todo = batch, !.batch = batch]
  <1>10. /\ t \in TxType /\ t.todo = batch /\ t.batch = batch
         /\ \A r \in Rule : t.mine[r] = NoAlert
    <2>1. batch \in SUBSET Audits
      BY <1>3
    <2> QED
      BY <2>1, IdleFacts DEF TxType
  <1>11. tx' = [tx EXCEPT ![Reconciler] = Load(t)]
    BY <1>1
  <1> HIDE DEF t
  <1> QED
    BY <1>2, <1>3, <1>9, <1>10, <1>11, BeginStep

(***************************************************************************)
(* The log and the managers.                                               *)
(***************************************************************************)
LEMMA ArriveStep ==
  ASSUME IInv, NEW a \in Audits, Arrive(a)
  PROVE  IInv'
  <1>1. /\ a \notin log /\ log' = log \cup {a}
        /\ alerts' = alerts /\ receipt' = receipt /\ generation' = generation /\ tx' = tx
    BY DEF Arrive
  <1>2. \A r : /\ ResolvedAt(r)' = ResolvedAt(r) /\ Active(r)' = Active(r)
               /\ Last(alerts[r])' = Last(alerts[r])
    BY <1>1, SameAlerts
  <1>3. /\ receipt[a].found = 0
        /\ \A b \in Audits : receipt[b].found # 0 => b \in log
    BY <1>1 DEF IInv, ReceiptInv
  <1>4. TypeOK'
    <2>1. IsFiniteSet(log')
      BY <1>1, FS_AddElement DEF IInv, LockedInv, TypeOK
    <2> QED
      BY <1>1, <2>1 DEF IInv, LockedInv, TypeOK
  <1>5. KeyInv'
    BY <1>1, <1>2 DEF IInv, LockedInv, KeyInv
  <1>6. LockInv'
    BY <1>1, <1>2 DEF IInv, LockedInv, LockInv, Holds
  <1>7. SoundInv'
    BY <1>1 DEF IInv, SoundInv, Holds
  <1>8. ReadInv'
    <2> SUFFICES ASSUME NEW q \in Processes PROVE ReadFits(tx[q])'
      BY DEF ReadInv
    <2>1. ReadFits(tx[q]) /\ tx'[q] = tx[q]
      BY <1>1 DEF IInv, ReadInv
    <2>2. PICK u : u = tx[q]
      OBVIOUS
    <2> QED
      BY <1>1, <2>1, <2>2 DEF ReadFits, ResolvedAt
  <1>9. ReceiptInv'
    BY <1>1 DEF IInv, ReceiptInv
  <1>10. CoverInv'
    <2> SUFFICES ASSUME NEW r \in Rule, NEW b \in log', Evaluated(b)',
                        Reached(r, Wanted(r, log, b)')
                 PROVE  Active(r) /\ Wanted(r, log, b)' \subseteq Last(alerts[r]).evidence
      BY <1>2 DEF CoverInv
    <2>1. /\ receipt[b].found # 0
          /\ \A c \in log' : Predecessor(c, b) =>
                receipt[c].found # 0 /\ receipt[c].found <= receipt[b].evaluated
      BY <1>1 DEF Evaluated
    <2>0. b \in Audits
      BY <1>4 DEF TypeOK
    <2>2. b \in log /\ Evaluated(b)
      BY <1>1, <1>3, <2>0, <2>1 DEF Evaluated
    <2>3. ~Predecessor(a, b)
      BY <1>1, <1>3, <2>1
    <2>4. a \notin InWindow(log', b, Window[r])
      BY <2>0, <2>3, AtNat, WindowFacts DEF InWindow, Predecessor
    <2>5. InWindow(log', b, Window[r]) = InWindow(log, b, Window[r])
      BY <1>1, <2>4 DEF InWindow
    <2>6. Wanted(r, log, b)' = Wanted(r, log, b)
      BY <1>2, <2>5 DEF Wanted
    <2> QED
      BY <2>2, <2>6 DEF IInv, CoverInv
  <1>11. BatchInv'
    <2>1. PICK u : u = tx[Reconciler] /\ BatchFits(u)
      BY DEF IInv, BatchInv
    <2>2. tx'[Reconciler] = u /\ u.batch \subseteq log
      BY <1>1, <2>1 DEF BatchFits
    <2>3. Known(u.batch)' = Known(u.batch)
      BY <1>1, <1>3, <2>2 DEF Known
    <2>4. ASSUME NEW r \in Rule, NEW b \in u.batch, Done(u, r, b)
          PROVE  Vouched(tx[Reconciler], r, b)'
      <3>1. Vouched(u, r, b)
        BY <2>1, <2>4 DEF BatchFits
      <3>2. Wanted(r, Known(tx[Reconciler].batch), b)' = Wanted(r, Known(u.batch), b)
        BY <1>2, <2>2, <2>3 DEF Wanted
      <3> QED
        BY <2>2, <3>1, <3>2 DEF Vouched
    <2>5. /\ u.batch \subseteq log' /\ u.todo \subseteq u.batch
          /\ u.step \in {"find", "create"} =>
                InWindow(Known(u.batch)', Current(u), MaxWindow) \subseteq u.seen
      BY <1>1, <2>1, <2>3 DEF BatchFits
    <2> QED
      BY <2>2, <2>3, <2>4, <2>5 DEF BatchInv, BatchFits, Done
  <1> QED
    BY <1>4, <1>5, <1>6, <1>7, <1>8, <1>9, <1>10, <1>11 DEF IInv, LockedInv

(* A resolution changes the active alert, which nobody holds, and leaves   *)
(* nothing of the log to be wanted.                                        *)
LEMMA ResolveFacts ==
  ASSUME IInv, NEW r \in Rule, NEW t \in Range(At), Resolve(r, t)
  PROVE  /\ Active(r) /\ t \in Nat /\ ResolvedAt(r) \in Nat
         /\ \A q \in Processes : ~Holds(q, r)
         /\ \A a \in log : At[a] <= t
         /\ ResolvedAt(r)' = t /\ ResolvedAt(r) <= t
         /\ alerts'[r] \in Seq(Alert) /\ Len(alerts'[r]) = Len(alerts[r])
         /\ \A i \in DOMAIN alerts[r] :
               /\ i < Len(alerts[r]) => alerts'[r][i] = alerts[r][i]
               /\ i = Len(alerts[r]) => /\ alerts'[r][i].status = "resolved"
                                        /\ alerts'[r][i].resolvedAt = t
                                        /\ alerts'[r][i].count = alerts[r][i].count
                                        /\ alerts'[r][i].last = alerts[r][i].last
                                        /\ alerts'[r][i].evidence = alerts[r][i].evidence
         /\ \A q \in Rule : q # r => alerts'[q] = alerts[q]
         /\ alerts' \in [Rule -> Seq(Alert)]
  <1> DEFINE n == Len(alerts[r])
             row == [alerts[r][n] EXCEPT !.status = "resolved", !.resolvedAt = t]
  <1>1. /\ Active(r) /\ ResolvedAt(r) <= t /\ \A a \in log : At[a] <= t
        /\ \A q \in Processes : tx[q].mine[r] # NoAlert => tx[q].mine[r].at # n
        /\ alerts' = [alerts EXCEPT ![r][n].status = "resolved", ![r][n].resolvedAt = t]
    BY DEF Resolve
  <1>2. t \in Nat
    BY AlertsAssumption DEF Range
  <1>3. /\ alerts \in [Rule -> Seq(Alert)] /\ alerts[r] \in Seq(Alert)
        /\ n \in 1 .. n /\ n \in Nat /\ DOMAIN alerts[r] = 1 .. n
        /\ alerts[r][n] \in Alert
    BY <1>1, ActiveFacts DEF IInv, LockedInv, TypeOK
  <1>4. \A q \in Processes : ~Holds(q, r)
    BY <1>1 DEF Holds, IInv, LockedInv, LockInv
  <1>5. alerts' = [alerts EXCEPT ![r] = [alerts[r] EXCEPT ![n] = row]]
    BY <1>1, <1>3
  <1>6. /\ row \in Alert /\ row.status = "resolved" /\ row.resolvedAt = t
        /\ row.count = alerts[r][n].count /\ row.last = alerts[r][n].last
        /\ row.evidence = alerts[r][n].evidence
    BY <1>2, <1>3 DEF Alert
  <1> HIDE DEF n, row
  <1>7. /\ alerts'[r] = [alerts[r] EXCEPT ![n] = row]
        /\ \A q \in Rule : q # r => alerts'[q] = alerts[q]
    BY <1>3, <1>5
  <1>8. /\ alerts'[r] \in Seq(Alert) /\ Len(alerts'[r]) = n /\ DOMAIN alerts'[r] = 1 .. n
        /\ alerts'[r][n] = row /\ \A i \in 1 .. n : i # n => alerts'[r][i] = alerts[r][i]
    BY <1>3, <1>6, <1>7 DEF n
  <1>9. /\ ResolvedAt(r) \in Nat
        /\ \A i \in 1 .. n : alerts[r][i].resolvedAt <= ResolvedAt(r) /\ alerts[r][i] \in Alert
    BY <1>3, ActiveFacts DEF IInv, LockedInv, KeyInv, n
  <1>10. ResolvedAt(r)' = t
    <2> DEFINE S == {0} \cup {alerts'[r][i].resolvedAt : i \in DOMAIN alerts'[r]}
    <2>1. \A i \in 1 .. n : alerts'[r][i].resolvedAt \in Nat /\ alerts'[r][i].resolvedAt <= t
      <3> SUFFICES ASSUME NEW i \in 1 .. n
                   PROVE  alerts'[r][i].resolvedAt \in Nat /\ alerts'[r][i].resolvedAt <= t
        OBVIOUS
      <3>1. alerts[r][i].resolvedAt \in Nat /\ alerts[r][i].resolvedAt <= t
        BY <1>1, <1>2, <1>9 DEF Alert
      <3>2. CASE i = n
        BY <1>2, <1>6, <1>8, <3>2
      <3>3. CASE i # n
        BY <1>8, <3>1, <3>3
      <3> QED
        BY <3>2, <3>3
    <2>2. t \in S
      BY <1>3, <1>6, <1>8
    <2>3. S \in SUBSET Int /\ \A y \in S : y <= t
      BY <1>2, <1>8, <2>1
    <2>4. ResolvedAt(r)' = Max(S)
      BY DEF ResolvedAt
    <2> HIDE DEF S
    <2> QED
      BY <2>2, <2>3, <2>4, MaxIs
  <1>11. /\ n = Len(alerts[r]) /\ Len(alerts'[r]) = Len(alerts[r])
         /\ \A i \in DOMAIN alerts[r] :
               /\ i < n => alerts'[r][i] = alerts[r][i]
               /\ i = n => /\ alerts'[r][i].status = "resolved"
                          /\ alerts'[r][i].resolvedAt = t
                          /\ alerts'[r][i].count = alerts[r][i].count
                          /\ alerts'[r][i].last = alerts[r][i].last
                          /\ alerts'[r][i].evidence = alerts[r][i].evidence
    <2>1. n = Len(alerts[r]) /\ Len(alerts'[r]) = n
      BY <1>8 DEF n
    <2>2. \A i \in 1 .. n : i < n => i # n
      BY <1>3
    <2> QED
      BY <1>3, <1>6, <1>8, <2>1, <2>2
  <1>12. alerts' \in [Rule -> Seq(Alert)]
    <2>1. [alerts[r] EXCEPT ![n] = row] \in Seq(Alert)
      BY <1>7, <1>8
    <2> QED
      BY <1>3, <1>5, <2>1
  <1> QED
    BY <1>1, <1>2, <1>4, <1>7, <1>8, <1>9, <1>10, <1>11, <1>12

LEMMA ResolveStep ==
  ASSUME IInv, NEW r \in Rule, NEW t \in Range(At), Resolve(r, t)
  PROVE  IInv'
  <1>1. /\ Active(r) /\ t \in Nat /\ ResolvedAt(r) \in Nat
        /\ \A q \in Processes : ~Holds(q, r)
        /\ \A a \in log : At[a] <= t
        /\ ResolvedAt(r)' = t /\ ResolvedAt(r) <= t
        /\ alerts'[r] \in Seq(Alert) /\ Len(alerts'[r]) = Len(alerts[r])
        /\ \A i \in DOMAIN alerts[r] :
              /\ i < Len(alerts[r]) => alerts'[r][i] = alerts[r][i]
              /\ i = Len(alerts[r]) => /\ alerts'[r][i].status = "resolved"
                                       /\ alerts'[r][i].resolvedAt = t
                                       /\ alerts'[r][i].count = alerts[r][i].count
                                       /\ alerts'[r][i].last = alerts[r][i].last
                                       /\ alerts'[r][i].evidence = alerts[r][i].evidence
        /\ \A q \in Rule : q # r => alerts'[q] = alerts[q]
        /\ alerts' \in [Rule -> Seq(Alert)]
    BY ResolveFacts
  <1>2. log' = log /\ receipt' = receipt /\ generation' = generation /\ tx' = tx
    BY DEF Resolve
  <1>3. \A q \in Rule : q # r => /\ ResolvedAt(q)' = ResolvedAt(q) /\ Active(q)' = Active(q)
                                 /\ Last(alerts[q])' = Last(alerts[q])
    <2> SUFFICES ASSUME NEW q \in Rule, q # r
                 PROVE  /\ ResolvedAt(q)' = ResolvedAt(q) /\ Active(q)' = Active(q)
                        /\ Last(alerts'[q]) = Last(alerts[q])
      OBVIOUS
    <2>1. alerts'[q] = alerts[q]
      BY <1>1
    <2> QED
      BY <2>1 DEF ResolvedAt, Active
  <1>4. /\ Len(alerts[r]) \in Nat /\ DOMAIN alerts[r] = 1 .. Len(alerts[r])
        /\ DOMAIN alerts'[r] = 1 .. Len(alerts[r])
        /\ \A i \in 1 .. Len(alerts[r]) : alerts[r][i] \in Alert
    BY <1>1, ActiveFacts DEF IInv, LockedInv
  <1>5. TypeOK'
    BY <1>1, <1>2 DEF IInv, LockedInv, TypeOK
  <1>6. KeyInv'
    <2> SUFFICES ASSUME NEW q \in Rule
                 PROVE  /\ ResolvedAt(q)' \in Nat
                        /\ \A i \in DOMAIN alerts'[q] :
                              /\ i < Len(alerts'[q]) => alerts'[q][i].status = "resolved"
                              /\ alerts'[q][i].status = "active" => alerts'[q][i].resolvedAt = 0
                              /\ alerts'[q][i].resolvedAt <= ResolvedAt(q)'
      BY DEF KeyInv
    <2>1. CASE q # r
      BY <1>1, <1>3, <2>1 DEF IInv, LockedInv, KeyInv
    <2>2. CASE q = r
      <3>1. \A i \in 1 .. Len(alerts[r]) :
               /\ i < Len(alerts[r]) => alerts[r][i].status = "resolved"
               /\ alerts[r][i].status = "active" => alerts[r][i].resolvedAt = 0
               /\ alerts[r][i].resolvedAt <= ResolvedAt(r) /\ alerts[r][i].resolvedAt \in Nat
        BY <1>4 DEF IInv, LockedInv, KeyInv, Alert
      <3>2. \A i \in 1 .. Len(alerts[r]) : i < Len(alerts[r]) \/ i = Len(alerts[r])
        BY <1>4
      <3> QED
        BY <1>1, <1>4, <2>2, <3>1, <3>2
    <2> QED
      BY <2>1, <2>2
  <1>7. LockInv'
    <2> SUFFICES ASSUME NEW q \in Rule, NEW p \in Processes, Holds(p, q)
                 PROVE  /\ tx[p].mine[q].row.status = "active"
                        /\ tx[p].mine[q].row.resolvedAt = 0
                        /\ Active(q)' =>
                              /\ tx[p].mine[q].at = Len(alerts'[q])
                              /\ Last(alerts'[q]).evidence \subseteq tx[p].mine[q].row.evidence
                        /\ ~Active(q)' => tx[p].mine[q].at = Len(alerts'[q]) + 1
                        /\ \A o \in Processes : Holds(o, q) => o = p
      BY <1>2 DEF LockInv, Holds
    <2>1. q # r
      BY <1>1
    <2>2. alerts'[q] = alerts[q]
      BY <1>1, <2>1
    <2>3. Active(q)' = Active(q)
      BY <1>3, <2>1
    <2> QED
      BY <2>2, <2>3 DEF IInv, LockedInv, LockInv
  <1>8. SoundInv'
    <2>1. \A q \in Rule : \A i \in DOMAIN alerts'[q] : Sound(alerts'[q][i])
      <3> SUFFICES ASSUME NEW q \in Rule, NEW i \in DOMAIN alerts'[q] PROVE Sound(alerts'[q][i])
        OBVIOUS
      <3>1. CASE q # r
        BY <1>1, <3>1 DEF IInv, SoundInv
      <3>2. CASE q = r
        <4>1. Sound(alerts[r][i]) /\ (i < Len(alerts[r]) \/ i = Len(alerts[r]))
          BY <1>4, <3>2 DEF IInv, SoundInv
        <4> QED
          BY <1>1, <1>4, <3>2, <4>1 DEF Sound
      <3> QED
        BY <3>1, <3>2
    <2> QED
      BY <1>2, <2>1 DEF IInv, SoundInv, Holds
  <1>9. ReadInv'
    <2> SUFFICES ASSUME NEW q \in Processes PROVE ReadFits(tx[q])'
      BY DEF ReadInv
    <2>1. PICK u : u = tx[q] /\ ReadFits(u) /\ u \in TxType
      BY DEF IInv, ReadInv, LockedInv, TypeOK
    <2>2. tx'[q] = u
      BY <1>2, <2>1
    <2>3. ASSUME u.step = "create", NEW b \in Matched(u.rule, u.seen, Current(u)),
                 At[b] > ResolvedAt(u.rule)'
          PROVE  b \in u.fresh
      <3>1. \A c \in Matched(u.rule, u.seen, Current(u)) : At[c] > ResolvedAt(u.rule) => c \in u.fresh
        BY <2>1, <2>3 DEF ReadFits
      <3>2. CASE u.rule # r
        <4>1. u.rule \in Rule
          BY <2>1 DEF TxType
        <4> QED
          BY <1>3, <2>3, <3>1, <3>2, <4>1
      <3>3. CASE u.rule = r
        <4>1. b \in Audits
          <5>1. u.rule \in Rule /\ u.seen \in SUBSET Audits /\ Current(u) \in u.seen
            BY <2>1, <2>3 DEF TxType, ReadFits
          <5> QED
            BY <2>3, <5>1, MatchedFacts
        <4> QED
          BY <1>1, <2>3, <3>1, <3>3, <4>1, AtNat
      <3> QED
        BY <3>2, <3>3
    <2>4. \A b \in Matched(u.rule, u.seen, Current(u)) :
             u.step = "create" => (At[b] > ResolvedAt(u.rule)' => b \in u.fresh)
      BY <2>3
    <2> QED
      BY <1>2, <2>1, <2>2, <2>4 DEF ReadFits
  <1>10. ReceiptInv'
    BY <1>2 DEF IInv, ReceiptInv
  <1>11. ASSUME NEW S, S \subseteq log, NEW a PROVE Wanted(r, S, a)' = {}
    <2> SUFFICES ASSUME NEW b \in Wanted(r, S, a)' PROVE FALSE
      OBVIOUS
    <2>1. b \in log /\ At[b] > t
      BY <1>1, <1>11 DEF Wanted, InWindow
    <2>2. At[b] \in Nat
      BY <2>1, AtNat DEF IInv, LockedInv, TypeOK
    <2> QED
      BY <1>1, <2>1, <2>2
  <1>12. CoverInv'
    <2> SUFFICES ASSUME NEW q \in Rule, NEW a \in log, Evaluated(a)', Reached(q, Wanted(q, log, a)')
                 PROVE  Active(q)' /\ Wanted(q, log, a)' \subseteq Last(alerts'[q]).evidence
      BY <1>2 DEF CoverInv
    <2>1. CASE q = r
      <3>1. PICK S : S = log
        OBVIOUS
      <3>2. Wanted(r, log, a)' = {}
        BY <1>2, <1>11, <3>1 DEF Wanted
      <3> QED
        BY <2>1, <3>2, EmptyUnreached
    <2>2. CASE q # r
      <3>1. Evaluated(a) /\ Wanted(q, log, a)' = Wanted(q, log, a)
        BY <1>2, <1>3, <2>2 DEF Evaluated, Wanted
      <3> QED
        BY <1>3, <2>2, <3>1 DEF IInv, CoverInv
    <2> QED
      BY <2>1, <2>2
  <1>13. BatchInv'
    <2>1. PICK u : u = tx[Reconciler] /\ BatchFits(u)
      BY DEF IInv, BatchInv
    <2>2. PICK K : K = Known(u.batch) /\ K \subseteq log
      BY DEF Known
    <2>3. tx'[Reconciler] = u /\ Known(u.batch)' = K
      BY <1>2, <2>1, <2>2 DEF Known
    <2>4. ASSUME NEW q \in Rule, NEW b \in u.batch, Done(u, q, b)
          PROVE  Vouched(tx[Reconciler], q, b)'
      <3>1. CASE q = r
        <4>1. Wanted(r, Known(tx[Reconciler].batch), b)' = {}
          BY <1>11, <2>2, <2>3 DEF Wanted
        <4> QED
          BY <3>1, <4>1, EmptyUnreached DEF Vouched
      <3>2. CASE q # r
        <4>1. Vouched(u, q, b)
          BY <2>1, <2>4 DEF BatchFits
        <4>2. Wanted(q, Known(tx[Reconciler].batch), b)' = Wanted(q, K, b)
          BY <1>3, <2>3, <3>2 DEF Wanted
        <4> QED
          BY <2>2, <2>3, <4>1, <4>2 DEF Vouched
      <3> QED
        BY <3>1, <3>2
    <2>5. /\ u.batch \subseteq log' /\ u.todo \subseteq u.batch
          /\ u.step \in {"find", "create"} =>
                InWindow(Known(u.batch)', Current(u), MaxWindow) \subseteq u.seen
      BY <1>2, <2>1, <2>2, <2>3 DEF BatchFits
    <2> QED
      BY <2>3, <2>4, <2>5 DEF BatchInv, BatchFits, Done
  <1> QED
    BY <1>5, <1>6, <1>7, <1>8, <1>9, <1>10, <1>12, <1>13 DEF IInv, LockedInv

(***************************************************************************)
(* A transaction commits.                                                  *)
(***************************************************************************)
LEMMA WriteFacts ==
  ASSUME IInv, NEW p \in Processes, WriteAlerts(p), NEW r \in Rule
  PROVE  /\ alerts'[r] \in Seq(Alert)
         /\ ~Holds(p, r) => alerts'[r] = alerts[r]
         /\ Holds(p, r) =>
               LET m == tx[p].mine[r]
               IN  /\ m.at \in Nat \ {0} /\ Len(alerts'[r]) = m.at /\ alerts'[r][m.at] = m.row
                   /\ m.at = Len(alerts[r]) \/ m.at = Len(alerts[r]) + 1
                   /\ Active(r) <=> m.at = Len(alerts[r])
                   /\ \A i \in 1 .. m.at : i # m.at => alerts'[r][i] = alerts[r][i]
  <1> DEFINE m == tx[p].mine[r]
             n == Len(alerts[r])
             row == [m.row EXCEPT !.evidence = @ \cup alerts[r][m.at].evidence]
  <1>1. alerts'[r] = IF m = NoAlert THEN alerts[r]
                     ELSE IF m.at > n THEN Append(alerts[r], m.row)
                     ELSE [alerts[r] EXCEPT ![m.at] = row]
    BY DEF WriteAlerts
  <1>2. /\ alerts[r] \in Seq(Alert) /\ n \in Nat /\ DOMAIN alerts[r] = 1 .. n
        /\ Active(r) => n \in 1 .. n /\ Last(alerts[r]) = alerts[r][n]
    BY ActiveFacts DEF IInv, LockedInv, TypeOK
  <1>3. CASE ~Holds(p, r)
    BY <1>1, <1>2, <1>3 DEF Holds
  <1>4. CASE Holds(p, r) /\ Active(r)
    <2>1. GoodHold(p, r, m)
      BY <1>4, HoldFacts
    <2>2. /\ m.at = n /\ m.row \in Alert /\ alerts[r][n].evidence \subseteq m.row.evidence
      BY <1>2, <1>4, <2>1 DEF GoodHold, Held
    <2>3. m.row.evidence \cup alerts[r][n].evidence = m.row.evidence
      BY <2>2
    <2>4. row = m.row
      BY <2>2, <2>3 DEF Alert
    <2>5. alerts'[r] = [alerts[r] EXCEPT ![n] = m.row]
      BY <1>1, <1>2, <1>4, <2>2, <2>4 DEF Holds
    <2> QED
      BY <1>2, <1>4, <2>2, <2>5
  <1>5. CASE Holds(p, r) /\ ~Active(r)
    <2>1. GoodHold(p, r, m)
      BY <1>5, HoldFacts
    <2>2. m.at = n + 1 /\ m.row \in Alert
      BY <1>5, <2>1 DEF GoodHold, Held
    <2>3. alerts'[r] = Append(alerts[r], m.row)
      BY <1>1, <1>2, <1>5, <2>2 DEF Holds
    <2> HIDE DEF m
    <2> QED
      BY <1>2, <1>5, <2>2, <2>3 DEF m
  <1> QED
    BY <1>3, <1>4, <1>5

(* A commit resolves nothing, and an alert it writes is active.            *)
LEMMA WriteSame ==
  ASSUME IInv, NEW p \in Processes, WriteAlerts(p), NEW r \in Rule
  PROVE  /\ ResolvedAt(r)' = ResolvedAt(r)
         /\ Holds(p, r) => Active(r)' /\ Last(alerts'[r]) = tx[p].mine[r].row
         /\ ~Holds(p, r) => Active(r)' = Active(r) /\ Last(alerts'[r]) = Last(alerts[r])
         /\ Active(r) => Active(r)' /\ Last(alerts[r]).evidence \subseteq Last(alerts'[r]).evidence
  <1>1. CASE ~Holds(p, r)
    <2>1. alerts'[r] = alerts[r]
      BY <1>1, WriteFacts
    <2> QED
      BY <1>1, <2>1 DEF ResolvedAt, Active
  <1>2. CASE Holds(p, r)
    <2> DEFINE m == tx[p].mine[r]
    <2>1. /\ m.at \in Nat \ {0} /\ Len(alerts'[r]) = m.at /\ alerts'[r][m.at] = m.row
          /\ m.at = Len(alerts[r]) \/ m.at = Len(alerts[r]) + 1
          /\ Active(r) <=> m.at = Len(alerts[r])
          /\ \A i \in 1 .. m.at : i # m.at => alerts'[r][i] = alerts[r][i]
          /\ alerts'[r] \in Seq(Alert)
      BY <1>2, WriteFacts
    <2>2. GoodHold(p, r, m)
      BY <1>2, HoldFacts
    <2>3. m.row.status = "active" /\ m.row.resolvedAt = 0
      BY <2>2 DEF GoodHold
    <2>4. /\ Len(alerts[r]) \in Nat /\ DOMAIN alerts[r] = 1 .. Len(alerts[r])
          /\ Active(r) => alerts[r][Len(alerts[r])] = Last(alerts[r])
          /\ Active(r) => Last(alerts[r]).status = "active"
          /\ Active(r) => Len(alerts[r]) \in DOMAIN alerts[r]
      BY ActiveFacts DEF IInv, LockedInv
    <2> HIDE DEF m
    <2>5. DOMAIN alerts'[r] = 1 .. m.at
      BY <2>1
    <2>6. Last(alerts'[r]) = m.row /\ alerts'[r] # <<>>
      BY <2>1 DEF Last
    <2>7. Active(r)'
      BY <2>3, <2>6 DEF Active
    <2>8. Active(r) => Last(alerts[r]).evidence \subseteq m.row.evidence
      BY <2>2 DEF GoodHold
    <2>9. ResolvedAt(r)' = ResolvedAt(r)
      <3> DEFINE R == {0} \cup {alerts[r][i].resolvedAt : i \in DOMAIN alerts[r]}
                 S == {0} \cup {alerts'[r][i].resolvedAt : i \in DOMAIN alerts'[r]}
      <3>1. Active(r) => alerts[r][m.at].resolvedAt = 0
        BY <2>1, <2>4 DEF IInv, LockedInv, KeyInv
      <3>2. \A i \in 1 .. m.at : alerts'[r][i].resolvedAt \in R
        <4> SUFFICES ASSUME NEW i \in 1 .. m.at PROVE alerts'[r][i].resolvedAt \in R
          OBVIOUS
        <4>1. CASE i = m.at
          BY <2>1, <2>3, <4>1
        <4>2. CASE i # m.at
          <5>1. i \in DOMAIN alerts[r]
            BY <2>1, <2>4, <4>2
          <5> QED
            BY <2>1, <4>2, <5>1
        <4> QED
          BY <4>1, <4>2
      <3>3. \A i \in DOMAIN alerts[r] : alerts[r][i].resolvedAt \in S
        <4> SUFFICES ASSUME NEW i \in DOMAIN alerts[r] PROVE alerts[r][i].resolvedAt \in S
          OBVIOUS
        <4>1. i \in 1 .. m.at /\ i \in DOMAIN alerts'[r]
          BY <2>1, <2>4, <2>5
        <4>2. CASE i = m.at
          <5>1. Active(r)
            BY <2>1, <2>4, <4>2
          <5> QED
            BY <3>1, <4>2, <5>1
        <4>3. CASE i # m.at
          BY <2>1, <4>1, <4>3
        <4> QED
          BY <4>2, <4>3
      <3>4. R = S
        <4>1. R \subseteq S
          BY <3>3
        <4>2. S \subseteq R
          BY <2>5, <3>2
        <4> QED
          BY <4>1, <4>2
      <3>5. ResolvedAt(r) = Max(R) /\ ResolvedAt(r)' = Max(S)
        BY DEF ResolvedAt
      <3> HIDE DEF R, S
      <3> QED
        BY <3>4, <3>5
    <2> QED
      BY <1>2, <2>6, <2>7, <2>8, <2>9 DEF m
  <1> QED
    BY <1>1, <1>2

(* What every commit establishes, whatever it does with the receipts.      *)
LEMMA CommitLocked ==
  ASSUME IInv, NEW p \in Processes, WriteAlerts(p), tx' = [tx EXCEPT ![p] = Idle],
         log' = log,
         generation' \in Nat, receipt' \in [Audits -> [found : Nat, evaluated : Nat]]
  PROVE  LockedInv' /\ SoundInv' /\ ReadInv'
  <1>0. /\ TypeOK /\ tx'[p] = Idle /\ \A q \in Processes : q # p => tx'[q] = tx[q]
        /\ \A r \in Rule : tx'[p].mine[r] = NoAlert
    BY IdleFacts DEF IInv, LockedInv, TypeOK
  <1>1. TypeOK'
    <2>1. alerts' \in [Rule -> Seq(Alert)]
      <3>1. \A r \in Rule : alerts'[r] \in Seq(Alert)
        BY WriteFacts
      <3>2. alerts' = [r \in Rule |-> alerts'[r]]
        BY DEF WriteAlerts
      <3> QED
        BY <3>1, <3>2
    <2>2. tx' \in [Processes -> TxType]
      BY <1>0, IdleFacts DEF TypeOK
    <2> QED
      BY <1>0, <2>1, <2>2 DEF TypeOK
  <1>2. \A r \in Rule : /\ DOMAIN alerts[r] = 1 .. Len(alerts[r]) /\ Len(alerts[r]) \in Nat
                        /\ DOMAIN alerts'[r] = 1 .. Len(alerts'[r]) /\ Len(alerts'[r]) \in Nat
    <2> SUFFICES ASSUME NEW r \in Rule
                 PROVE  /\ DOMAIN alerts[r] = 1 .. Len(alerts[r]) /\ Len(alerts[r]) \in Nat
                        /\ DOMAIN alerts'[r] = 1 .. Len(alerts'[r]) /\ Len(alerts'[r]) \in Nat
      OBVIOUS
    <2>1. alerts[r] \in Seq(Alert) /\ alerts'[r] \in Seq(Alert)
      BY <1>0, WriteFacts DEF TypeOK
    <2> QED
      BY <2>1
  <1>3. KeyInv'
    <2> SUFFICES ASSUME NEW r \in Rule
                 PROVE  /\ ResolvedAt(r)' \in Nat
                        /\ \A i \in DOMAIN alerts'[r] :
                              /\ i < Len(alerts'[r]) => alerts'[r][i].status = "resolved"
                              /\ alerts'[r][i].status = "active" => alerts'[r][i].resolvedAt = 0
                              /\ alerts'[r][i].resolvedAt <= ResolvedAt(r)'
      BY DEF KeyInv
    <2>1. ResolvedAt(r)' = ResolvedAt(r)
      BY WriteSame
    <2>2. /\ ResolvedAt(r) \in Nat
          /\ \A i \in DOMAIN alerts[r] :
                /\ i < Len(alerts[r]) => alerts[r][i].status = "resolved"
                /\ alerts[r][i].status = "active" => alerts[r][i].resolvedAt = 0
                /\ alerts[r][i].resolvedAt <= ResolvedAt(r)
      BY DEF IInv, LockedInv, KeyInv
    <2>3. CASE ~Holds(p, r)
      <3>1. alerts'[r] = alerts[r]
        BY <2>3, WriteFacts
      <3> QED
        BY <2>1, <2>2, <3>1
    <2>4. CASE Holds(p, r)
      <3> DEFINE m == tx[p].mine[r]
      <3>1. /\ m.at \in Nat \ {0} /\ Len(alerts'[r]) = m.at /\ alerts'[r][m.at] = m.row
            /\ m.at = Len(alerts[r]) \/ m.at = Len(alerts[r]) + 1
            /\ Active(r) <=> m.at = Len(alerts[r])
            /\ \A i \in 1 .. m.at : i # m.at => alerts'[r][i] = alerts[r][i]
        BY <2>4, WriteFacts
      <3>2. GoodHold(p, r, m)
        BY <2>4, HoldFacts
      <3>3. m.row.status = "active" /\ m.row.resolvedAt = 0
        BY <3>2 DEF GoodHold
      <3>4. ~Active(r) /\ Len(alerts[r]) # 0 => alerts[r][Len(alerts[r])].status = "resolved"
        <4>1. SUFFICES ASSUME ~Active(r), Len(alerts[r]) # 0
                       PROVE  alerts[r][Len(alerts[r])].status = "resolved"
          OBVIOUS
        <4>2. alerts[r] \in Seq(Alert)
          BY <1>0 DEF TypeOK
        <4>3. alerts[r][Len(alerts[r])] \in Alert /\ alerts[r] # <<>>
          BY <4>1, <4>2
        <4> QED
          BY <4>1, <4>3 DEF Active, Alert, Last
      <3> HIDE DEF m
      <3>5. ASSUME NEW i \in 1 .. m.at, i # m.at
            PROVE  /\ alerts'[r][i] = alerts[r][i] /\ i \in DOMAIN alerts[r]
                   /\ alerts[r][i].status = "resolved"
        <4>1. i \in DOMAIN alerts[r] /\ alerts'[r][i] = alerts[r][i]
          BY <1>2, <3>1, <3>5
        <4>2. CASE i < Len(alerts[r])
          BY <2>2, <4>1, <4>2
        <4>3. CASE i = Len(alerts[r])
          BY <1>2, <3>1, <3>4, <3>5, <4>1, <4>3
        <4> QED
          BY <1>2, <4>1, <4>2, <4>3
      <3>6. ASSUME NEW i \in DOMAIN alerts'[r]
            PROVE  /\ i < Len(alerts'[r]) => alerts'[r][i].status = "resolved"
                   /\ alerts'[r][i].status = "active" => alerts'[r][i].resolvedAt = 0
                   /\ alerts'[r][i].resolvedAt <= ResolvedAt(r)
        <4>1. i \in 1 .. m.at
          BY <1>2, <3>1
        <4>2. CASE i = m.at
          BY <2>2, <3>1, <3>3, <4>2
        <4>3. CASE i # m.at
          BY <2>2, <3>5, <4>1, <4>3
        <4> QED
          BY <4>2, <4>3
      <3> QED
        BY <2>1, <2>2, <3>6
    <2> QED
      BY <2>3, <2>4
  <1>4. LockInv'
    <2> SUFFICES ASSUME NEW r \in Rule, NEW q \in Processes, Holds(q, r)'
                 PROVE  /\ tx'[q].mine[r].row.status = "active"
                        /\ tx'[q].mine[r].row.resolvedAt = 0
                        /\ Active(r)' =>
                              /\ tx'[q].mine[r].at = Len(alerts'[r])
                              /\ Last(alerts'[r]).evidence \subseteq tx'[q].mine[r].row.evidence
                        /\ ~Active(r)' => tx'[q].mine[r].at = Len(alerts'[r]) + 1
                        /\ \A o \in Processes : Holds(o, r)' => o = q
      BY DEF LockInv
    <2>1. q # p /\ tx'[q] = tx[q] /\ Holds(q, r)
      BY <1>0 DEF Holds
    <2>2. ~Holds(p, r) /\ \A o \in Processes : Holds(o, r) => o = q
      BY <2>1 DEF IInv, LockedInv, LockInv
    <2>3. alerts'[r] = alerts[r] /\ Active(r)' = Active(r)
      BY <2>2, WriteFacts, WriteSame
    <2>4. \A o \in Processes : Holds(o, r)' => Holds(o, r)
      BY <1>0 DEF Holds
    <2> QED
      BY <2>1, <2>2, <2>3, <2>4 DEF IInv, LockedInv, LockInv
  <1>5. SoundInv'
    <2>1. ASSUME NEW r \in Rule, NEW i \in DOMAIN alerts'[r] PROVE Sound(alerts'[r][i])
      <3>1. CASE ~Holds(p, r)
        BY <2>1, <3>1, WriteFacts DEF IInv, SoundInv
      <3>2. CASE Holds(p, r)
        <4> DEFINE m == tx[p].mine[r]
        <4>1. /\ m.at \in Nat \ {0} /\ Len(alerts'[r]) = m.at /\ alerts'[r][m.at] = m.row
              /\ m.at = Len(alerts[r]) \/ m.at = Len(alerts[r]) + 1
              /\ \A j \in 1 .. m.at : j # m.at => alerts'[r][j] = alerts[r][j]
          BY <3>2, WriteFacts
        <4>2. Sound(m.row)
          BY <3>2 DEF IInv, SoundInv
        <4> HIDE DEF m
        <4>3. CASE i = m.at
          BY <4>1, <4>2, <4>3
        <4>4. CASE i # m.at
          <5>1. i \in DOMAIN alerts[r] /\ alerts'[r][i] = alerts[r][i]
            BY <1>2, <2>1, <4>1, <4>4
          <5> QED
            BY <5>1 DEF IInv, SoundInv
        <4> QED
          BY <4>3, <4>4
      <3> QED
        BY <3>1, <3>2
    <2>2. \A r \in Rule : \A q \in Processes : Holds(q, r)' => Holds(q, r) /\ tx'[q] = tx[q]
      BY <1>0 DEF Holds
    <2> QED
      BY <2>1, <2>2 DEF IInv, SoundInv
  <1>6. ReadInv'
    <2> SUFFICES ASSUME NEW q \in Processes PROVE ReadFits(tx[q])'
      BY DEF ReadInv
    <2>1. CASE q = p
      BY <1>0, <2>1, IdleFacts DEF ReadFits
    <2>2. CASE q # p
      <3>1. PICK u : u = tx[q] /\ ReadFits(u) /\ u \in TxType
        BY <1>0 DEF IInv, ReadInv, TypeOK
      <3>2. tx'[q] = u
        BY <1>0, <2>2, <3>1
      <3>3. ResolvedAt(u.rule)' = ResolvedAt(u.rule)
        <4>1. PICK r : r = u.rule
          OBVIOUS
        <4>2. r \in Rule
          BY <3>1, <4>1 DEF TxType
        <4> QED
          BY <4>1, <4>2, WriteSame DEF ResolvedAt
      <3> QED
        BY <3>1, <3>2, <3>3 DEF ReadFits
    <2> QED
      BY <2>1, <2>2
  <1> QED
    BY <1>1, <1>3, <1>4, <1>5, <1>6 DEF LockedInv

LEMMA DetectCommitsStep ==
  ASSUME IInv, NEW p \in Tasks, DetectCommits(p)
  PROVE  IInv'
  <1>1. /\ p \in Processes /\ p # Reconciler /\ WriteAlerts(p) /\ tx' = [tx EXCEPT ![p] = Idle]
        /\ log' = log /\ receipt' = receipt /\ generation' = generation
    BY AlertsAssumption DEF Processes, DetectCommits
  <1>2. LockedInv' /\ SoundInv' /\ ReadInv'
    BY <1>1, CommitLocked DEF IInv, LockedInv, TypeOK
  <1>3. \A r \in Rule : /\ ResolvedAt(r)' = ResolvedAt(r)
                        /\ Active(r) => Active(r)' /\ Last(alerts[r]).evidence \subseteq Last(alerts'[r]).evidence
    BY <1>1, WriteSame
  <1>4. ReceiptInv'
    BY <1>1 DEF IInv, ReceiptInv
  <1>5. CoverInv'
    <2> SUFFICES ASSUME NEW r \in Rule, NEW a \in log, Evaluated(a)', Reached(r, Wanted(r, log, a)')
                 PROVE  Active(r)' /\ Wanted(r, log, a)' \subseteq Last(alerts'[r]).evidence
      BY <1>1 DEF CoverInv
    <2>1. Evaluated(a) /\ Wanted(r, log, a)' = Wanted(r, log, a)
      BY <1>1, <1>3 DEF Evaluated, Wanted
    <2>2. Active(r) /\ Wanted(r, log, a) \subseteq Last(alerts[r]).evidence
      BY <2>1 DEF IInv, CoverInv
    <2> QED
      BY <1>3, <2>1, <2>2
  <1>6. BatchInv'
    <2>1. PICK u : u = tx[Reconciler] /\ BatchFits(u)
      BY DEF IInv, BatchInv
    <2>2. PICK K : K = Known(u.batch)
      OBVIOUS
    <2>3. tx'[Reconciler] = u /\ Known(u.batch)' = K
      BY <1>1, <2>1, <2>2 DEF Known, IInv, LockedInv, TypeOK, Processes
    <2>4. ASSUME NEW r \in Rule, NEW b \in u.batch, Done(u, r, b)
          PROVE  Vouched(tx[Reconciler], r, b)'
      <3>1. Vouched(u, r, b)
        BY <2>1, <2>4 DEF BatchFits
      <3>2. Wanted(r, Known(tx[Reconciler].batch), b)' = Wanted(r, K, b)
        BY <1>3, <2>3 DEF Wanted
      <3> QED
        BY <2>2, <2>3, <3>1, <3>2 DEF Vouched
    <2>5. /\ u.batch \subseteq log' /\ u.todo \subseteq u.batch
          /\ u.step \in {"find", "create"} =>
                InWindow(Known(u.batch)', Current(u), MaxWindow) \subseteq u.seen
      BY <1>1, <2>1, <2>2, <2>3 DEF BatchFits
    <2> QED
      BY <2>3, <2>4, <2>5 DEF BatchInv, BatchFits, Done
  <1> QED
    BY <1>2, <1>4, <1>5, <1>6 DEF IInv

(* The receipts of a batch say what its evaluation has vouched for, and no *)
(* other receipt comes to cover an audit that this batch has discovered.   *)
LEMMA BatchCommitsStep ==
  ASSUME IInv, BatchCommits
  PROVE  IInv'
  <1> DEFINE t == tx[Reconciler]
             batch == t.batch
  <1>1. /\ Reconciler \in Processes /\ t.step = "commit"
        /\ WriteAlerts(Reconciler) /\ tx' = [tx EXCEPT ![Reconciler] = Idle]
        /\ log' = log /\ generation' = generation + 1
        /\ receipt' = [a \in Audits |->
                          IF a \notin batch THEN receipt[a]
                          ELSE [found     |-> IF receipt[a].found = 0 THEN generation + 1
                                              ELSE receipt[a].found,
                                evaluated |-> generation + 1]]
    BY DEF BatchCommits, Processes
  <1>2. /\ generation \in Nat /\ receipt \in [Audits -> [found : Nat, evaluated : Nat]]
        /\ log \in SUBSET Audits /\ tx \in [Processes -> TxType]
    BY DEF IInv, LockedInv, TypeOK
  <1>3. batch \subseteq log /\ \A r \in Rule : \A a \in batch : Vouched(t, r, a)
    BY <1>1 DEF IInv, BatchInv, BatchFits, Done
  <1> HIDE DEF batch
  <1>4. \A a \in Audits :
           /\ receipt[a].found \in Nat /\ receipt[a].evaluated \in Nat
           /\ receipt[a].found <= receipt[a].evaluated /\ receipt[a].evaluated <= generation
           /\ receipt[a].found # 0 => a \in log
           /\ a \notin batch => receipt'[a] = receipt[a]
           /\ a \in batch => /\ receipt'[a].evaluated = generation + 1
                             /\ receipt'[a].found = IF receipt[a].found = 0 THEN generation + 1
                                                    ELSE receipt[a].found
    BY <1>1, <1>2 DEF IInv, ReceiptInv
  <1>5. receipt' \in [Audits -> [found : Nat, evaluated : Nat]] /\ generation' \in Nat
    BY <1>1, <1>2
  <1>6. LockedInv' /\ SoundInv' /\ ReadInv'
    BY <1>1, <1>5, CommitLocked
  <1>7. ReceiptInv'
    BY <1>1, <1>2, <1>3, <1>4 DEF ReceiptInv
  <1>8. CoverInv'
    <2> SUFFICES ASSUME NEW r \in Rule, NEW a \in log, Evaluated(a)', Reached(r, Wanted(r, log, a)')
                 PROVE  Active(r)' /\ Wanted(r, log, a)' \subseteq Last(alerts'[r]).evidence
      BY <1>1 DEF CoverInv
    <2>1. /\ receipt'[a].found # 0
          /\ \A b \in log : Predecessor(b, a) =>
                receipt'[b].found # 0 /\ receipt'[b].found <= receipt'[a].evaluated
      BY <1>1 DEF Evaluated
    <2>2. /\ ResolvedAt(r)' = ResolvedAt(r)
          /\ Active(r) => Active(r)' /\ Last(alerts[r]).evidence \subseteq Last(alerts'[r]).evidence
          /\ Holds(Reconciler, r) => Active(r)' /\ Last(alerts'[r]) = t.mine[r].row
      BY <1>1, WriteSame
    <2>3. Wanted(r, log, a)' = Wanted(r, log, a)
      BY <1>1, <2>2 DEF Wanted
    <2>4. a \in Audits
      BY <1>2
    <2>5. CASE a \in batch
      <3>1. Wanted(r, log, a) = Wanted(r, Known(batch), a)
        <4>1. Known(batch) \subseteq log
          BY DEF Known
        <4>2. ASSUME NEW b \in InWindow(log, a, Window[r]) PROVE b \in Known(batch)
          <5>1. b \in log /\ b \in Audits /\ At[a] - Window[r] <= At[b] /\ At[b] <= At[a]
            BY <1>2, <4>2 DEF InWindow
          <5>2. Predecessor(b, a)
            BY <2>4, <5>1, AtNat, WindowFacts DEF Predecessor
          <5> QED
            BY <1>4, <2>1, <5>1, <5>2 DEF Known
        <4> QED
          BY <4>1, <4>2 DEF Wanted, InWindow
      <3>2. Vouched(t, r, a)
        BY <1>3, <2>5
      <3>3. t.mine[r] # NoAlert /\ Wanted(r, log, a) \subseteq t.mine[r].row.evidence
        BY <2>3, <3>1, <3>2 DEF Vouched, batch
      <3> QED
        BY <2>2, <2>3, <3>3 DEF Holds
    <2>6. CASE a \notin batch
      <3>1. receipt'[a] = receipt[a] /\ receipt[a].evaluated <= generation
        BY <1>4, <2>4, <2>6
      <3>2. ASSUME NEW b \in log, Predecessor(b, a)
            PROVE  receipt[b].found # 0 /\ receipt[b].found <= receipt[a].evaluated
        <4>1. b \in Audits /\ receipt'[b].found # 0 /\ receipt'[b].found <= receipt[a].evaluated
          BY <1>2, <2>1, <3>1, <3>2
        <4>2. receipt[a].evaluated \in Nat
          BY <1>4, <2>4
        <4> QED
          BY <1>2, <1>4, <3>1, <4>1, <4>2
      <3>3. Evaluated(a)
        BY <2>1, <3>1, <3>2 DEF Evaluated
      <3>4. Active(r) /\ Wanted(r, log, a) \subseteq Last(alerts[r]).evidence
        BY <2>3, <3>3 DEF IInv, CoverInv
      <3> QED
        BY <2>2, <2>3, <3>4
    <2> QED
      BY <2>5, <2>6
  <1>9. BatchInv'
    <2>1. tx'[Reconciler] = Idle
      BY <1>1, <1>2
    <2> QED
      BY <2>1, IdleFacts DEF BatchInv, BatchFits
  <1> QED
    BY <1>6, <1>7, <1>8, <1>9 DEF IInv

(***************************************************************************)
(* The invariant and what follows from it.                                 *)
(***************************************************************************)
LEMMA InitHolds == Init => IInv
  <1> SUFFICES ASSUME Init PROVE IInv
    OBVIOUS
  <1>1. /\ log = {} /\ alerts = [r \in Rule |-> <<>>] /\ generation = 0
        /\ receipt = [a \in Audits |-> [found |-> 0, evaluated |-> 0]]
        /\ tx = [p \in Processes |-> Idle]
    BY DEF Init
  <1>2. TypeOK
    BY <1>1, IdleFacts, FS_EmptySet DEF TypeOK
  <1>3. \A r \in Rule : alerts[r] = <<>> /\ DOMAIN alerts[r] = {} /\ ~Active(r)
    BY <1>1 DEF Active
  <1>4. \A r \in Rule : ResolvedAt(r) = 0
    <2> SUFFICES ASSUME NEW r \in Rule PROVE ResolvedAt(r) = 0
      OBVIOUS
    <2> DEFINE S == {0} \cup {alerts[r][i].resolvedAt : i \in DOMAIN alerts[r]}
    <2>1. S = {0}
      BY <1>3
    <2>2. ResolvedAt(r) = Max(S)
      BY DEF ResolvedAt
    <2> HIDE DEF S
    <2> QED
      BY <2>1, <2>2, MaxIs
  <1>5. KeyInv
    BY <1>3, <1>4 DEF KeyInv
  <1>6. \A p \in Processes : \A r \in Rule : ~Holds(p, r)
    BY <1>1, IdleFacts DEF Holds
  <1>7. LockInv /\ SoundInv
    BY <1>3, <1>6 DEF LockInv, SoundInv
  <1>8. ReadInv
    BY <1>1, IdleFacts DEF ReadInv, ReadFits
  <1>9. ReceiptInv /\ CoverInv
    BY <1>1 DEF ReceiptInv, CoverInv
  <1>10. BatchInv
    <2>1. tx[Reconciler] = Idle
      BY <1>1 DEF Processes
    <2> QED
      BY <2>1, IdleFacts DEF BatchInv, BatchFits
  <1> QED
    BY <1>2, <1>5, <1>7, <1>8, <1>9, <1>10 DEF IInv, LockedInv

LEMMA StutterHolds ==
  ASSUME IInv, UNCHANGED vars
  PROVE  IInv'
  <1>1. PICK p \in Processes : p = Reconciler
    BY DEF Processes
  <1>2. PICK t \in TxType : t = tx[p]
    BY DEF IInv, LockedInv, TypeOK
  <1>3. TxOnly(p, t)
    BY <1>2 DEF vars, TxOnly, IInv, LockedInv, TypeOK
  <1>4. ReadFits(t) /\ BatchFits(t)
    BY <1>1, <1>2 DEF IInv, ReadInv, BatchInv
  <1>5. \A r \in Rule : t.mine[r] # NoAlert => GoodHold(p, r, t.mine[r])
    BY <1>2, HoldFacts DEF Holds
  <1> QED
    BY <1>3, <1>4, <1>5, TxStep

LEMMA Inductive == IInv /\ [Next]_vars => IInv'
  <1> SUFFICES ASSUME IInv, [Next]_vars PROVE IInv'
    OBVIOUS
  <1>1. ASSUME NEW a \in Audits, Arrive(a) PROVE IInv'
    BY <1>1, ArriveStep
  <1>2. ASSUME NEW r \in Rule, NEW t \in Range(At), Resolve(r, t) PROVE IInv'
    BY <1>2, ResolveStep
  <1>3. ASSUME NEW p \in Tasks, NEW a \in Audits, Detect(p, a) PROVE IInv'
    BY <1>3, DetectStep
  <1>4. ASSUME NEW p \in Tasks, DetectCommits(p) PROVE IInv'
    BY <1>4, DetectCommitsStep
  <1>5. CASE Scan
    BY <1>5, ScanStep
  <1>6. CASE BatchCommits
    BY <1>6, BatchCommitsStep
  <1>7. ASSUME NEW p \in Processes, FindActive(p) PROVE IInv'
    BY <1>7, FindActiveStep
  <1>8. ASSUME NEW p \in Processes, FindNone(p) PROVE IInv'
    BY <1>8, FindNoneStep
  <1>9. ASSUME NEW p \in Processes, Create(p) PROVE IInv'
    BY <1>9, CreateStep
  <1>10. ASSUME NEW p \in Processes, CreateConflicts(p) PROVE IInv'
    BY <1>10, ConflictStep
  <1>11. ASSUME NEW p \in Processes, Abort(p) PROVE IInv'
    BY <1>11, AbortStep
  <1>12. CASE UNCHANGED vars
    BY <1>12, StutterHolds
  <1> QED
    BY <1>1, <1>2, <1>3, <1>4, <1>5, <1>6, <1>7, <1>8, <1>9, <1>10, <1>11, <1>12 DEF Next

(* The inductive invariant: who holds an alert and what it knows, and what *)
(* the receipts vouch for.                                                 *)
THEOREM Invariance == Spec => []IInv
  <1>1. Init => IInv
    BY InitHolds
  <1>2. IInv /\ [Next]_vars => IInv'
    BY Inductive
  <1> QED
    BY <1>1, <1>2, PTL DEF Spec

(* Occurrences are neither lost nor counted twice, however the tasks and   *)
(* the reconciliation meet on an alert.                                    *)
THEOREM CountsHold == Spec => []CountsAgree
  <1>1. IInv => CountsAgree
    <2> SUFFICES ASSUME IInv, NEW r \in Rule, NEW i \in DOMAIN alerts[r]
                 PROVE  /\ alerts[r][i].count = Cardinality(alerts[r][i].evidence)
                        /\ alerts[r][i].last = Max({At[a] : a \in alerts[r][i].evidence})
      BY DEF CountsAgree
    <2>1. Sound(alerts[r][i]) /\ alerts[r][i] \in Alert
      BY ActiveFacts DEF IInv, LockedInv, SoundInv
    <2> DEFINE T == {At[a] : a \in alerts[r][i].evidence}
               m == alerts[r][i].last
    <2>2. T \in SUBSET Int /\ m \in T /\ \A y \in T : y <= m
      BY <2>1, AtNat DEF Sound, Alert
    <2> HIDE DEF T, m
    <2>3. Max(T) = m
      BY <2>2, MaxIs
    <2> QED
      BY <2>1, <2>3 DEF Sound, T, m
  <1> QED
    BY <1>1, Invariance, PTL

(* Once nothing is left to reconcile, every receipt vouches for its window:*)
(* no window that reaches a threshold is without its active alert.         *)
THEOREM RecoveryHolds == Spec => []Recovered
  <1>1. IInv => Recovered
    <2> SUFFICES ASSUME IInv, Backlog = {}, NEW r \in Rule, NEW a \in log,
                        Reached(r, Wanted(r, log, a))
                 PROVE  Active(r) /\ Wanted(r, log, a) \subseteq Last(alerts[r]).evidence
      BY DEF Recovered, Wanted
    <2>1. ~Due(a)
      BY DEF Backlog
    <2>2. ASSUME NEW b \in log, Predecessor(b, a)
          PROVE  receipt[b].found # 0 /\ receipt[b].found <= receipt[a].evaluated
      <3>1. receipt[b].found # 0 /\ ~(receipt[b].found > receipt[a].evaluated)
        BY <2>1, <2>2 DEF Due
      <3>2. receipt[b].found \in Nat /\ receipt[a].evaluated \in Nat
        BY DEF IInv, LockedInv, TypeOK
      <3> QED
        BY <3>1, <3>2
    <2>3. Evaluated(a)
      BY <2>1, <2>2 DEF Due, Evaluated
    <2> QED
      BY <2>3 DEF IInv, CoverInv
  <1> QED
    BY <1>1, Invariance, PTL

(* What a step does to the alerts of a key that are resolved.              *)
KeepsResolved(r) ==
    \A i \in DOMAIN alerts[r] :
        /\ i < Len(alerts'[r]) => alerts'[r][i].status = "resolved"
        /\ alerts[r][i].status = "resolved" => alerts'[r][i] = alerts[r][i]

LEMMA SameKeepsResolved ==
  ASSUME IInv, NEW r \in Rule, alerts'[r] = alerts[r]
  PROVE  KeepsResolved(r)
  BY DEF KeepsResolved, IInv, LockedInv, KeyInv

LEMMA WriteKeepsResolved ==
  ASSUME IInv, NEW p \in Processes, WriteAlerts(p), NEW r \in Rule
  PROVE  KeepsResolved(r)
  <1>1. CASE ~Holds(p, r)
    BY <1>1, WriteFacts, SameKeepsResolved
  <1>2. CASE Holds(p, r)
    <2> DEFINE m == tx[p].mine[r]
    <2>1. /\ m.at \in Nat \ {0} /\ Len(alerts'[r]) = m.at
          /\ m.at = Len(alerts[r]) \/ m.at = Len(alerts[r]) + 1
          /\ Active(r) <=> m.at = Len(alerts[r])
          /\ \A i \in 1 .. m.at : i # m.at => alerts'[r][i] = alerts[r][i]
      BY <1>2, WriteFacts
    <2> HIDE DEF m
    <2>2. /\ Len(alerts[r]) \in Nat /\ DOMAIN alerts[r] = 1 .. Len(alerts[r])
          /\ alerts[r] \in Seq(Alert) /\ \A i \in 1 .. Len(alerts[r]) : alerts[r][i] \in Alert
          /\ Active(r) => alerts[r][Len(alerts[r])].status = "active"
      BY ActiveFacts DEF IInv, LockedInv, TypeOK
    <2> SUFFICES ASSUME NEW i \in 1 .. Len(alerts[r])
                 PROVE  /\ i < m.at => alerts'[r][i].status = "resolved"
                        /\ alerts[r][i].status = "resolved" => alerts'[r][i] = alerts[r][i]
      BY <2>1, <2>2 DEF KeepsResolved
    <2>3. i < Len(alerts[r]) => alerts[r][i].status = "resolved"
      BY <2>2 DEF IInv, LockedInv, KeyInv
    <2>4. CASE Active(r)
      BY <2>1, <2>2, <2>3, <2>4
    <2>5. CASE ~Active(r)
      <3>1. i # m.at /\ alerts'[r][i] = alerts[r][i]
        BY <2>1, <2>2, <2>5
      <3>2. alerts[r][Len(alerts[r])].status = "resolved"
        <4>1. alerts[r] # <<>> /\ alerts[r][Len(alerts[r])] \in Alert
          BY <2>2
        <4> QED
          BY <2>2, <2>5, <4>1 DEF Active, Alert, Last
      <3>3. i < Len(alerts[r]) \/ i = Len(alerts[r])
        BY <2>2
      <3> QED
        BY <2>3, <3>1, <3>2, <3>3
    <2> QED
      BY <2>4, <2>5
  <1> QED
    BY <1>1, <1>2

LEMMA ResolveKeepsResolved ==
  ASSUME IInv, NEW q \in Rule, NEW t \in Range(At), Resolve(q, t), NEW r \in Rule
  PROVE  KeepsResolved(r)
  <1>1. /\ Active(q) /\ Len(alerts'[q]) = Len(alerts[q])
        /\ \A i \in DOMAIN alerts[q] : i < Len(alerts[q]) => alerts'[q][i] = alerts[q][i]
        /\ \A o \in Rule : o # q => alerts'[o] = alerts[o]
    BY ResolveFacts
  <1>2. CASE r # q
    BY <1>1, <1>2, SameKeepsResolved
  <1>3. CASE r = q
    <2>1. /\ Len(alerts[r]) \in Nat /\ DOMAIN alerts[r] = 1 .. Len(alerts[r])
          /\ alerts[r][Len(alerts[r])].status = "active"
      BY <1>1, <1>3, ActiveFacts DEF IInv, LockedInv
    <2>2. \A i \in 1 .. Len(alerts[r]) : i < Len(alerts[r]) => alerts[r][i].status = "resolved"
      BY <2>1 DEF IInv, LockedInv, KeyInv
    <2>3. \A i \in 1 .. Len(alerts[r]) : i < Len(alerts[r]) \/ i = Len(alerts[r])
      BY <2>1
    <2> QED
      BY <1>1, <1>3, <2>1, <2>2, <2>3 DEF KeepsResolved
  <1> QED
    BY <1>2, <1>3

(* A step appends to the alerts of a key only where none is active, and    *)
(* writes no row but the active one.                                       *)
THEOREM ResolutionsHold == Spec => ResolvedIsFinal
  <1>1. IInv /\ [Next]_vars => \A r \in Rule : KeepsResolved(r)
    <2> SUFFICES ASSUME IInv, [Next]_vars, NEW r \in Rule PROVE KeepsResolved(r)
      OBVIOUS
    <2>1. CASE alerts' = alerts
      BY <2>1, SameKeepsResolved
    <2>2. ASSUME NEW p \in Processes, WriteAlerts(p) PROVE KeepsResolved(r)
      BY <2>2, WriteKeepsResolved
    <2>3. ASSUME NEW q \in Rule, NEW t \in Range(At), Resolve(q, t) PROVE KeepsResolved(r)
      BY <2>3, ResolveKeepsResolved
    <2> QED
      BY <2>1, <2>2, <2>3
         DEF Next, vars, Arrive, Detect, DetectCommits, Scan, BatchCommits, FindActive, FindNone,
             Create, CreateConflicts, Abort, Processes
  <1> QED
    BY <1>1, Invariance, PTL DEF Spec, ResolvedIsFinal, KeepsResolved
=============================================================================
