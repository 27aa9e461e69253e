----------------------- MODULE SandboxScheduler_proofs -----------------------
(***************************************************************************)
(* Proofs about SandboxScheduler for any jobs, finitely many tenants and   *)
(* any limits.                                                             *)
(***************************************************************************)
EXTENDS SandboxSchedulerInv, FiniteSetTheorems, WellFoundedInduction, TLAPS

(***************************************************************************)
(* Sequences.                                                              *)
(***************************************************************************)
LEMMA NatMin ==
  ASSUME NEW S \in SUBSET Nat, S # {}
  PROVE  \E m \in S : \A y \in S : m <= y
  <1>1. PICK m \in S : \A y \in S : ~(<<y, m>> \in OpToRel(<, Nat))
    BY NatLessThanWellFounded, WFMin
  <1>2. \A y \in S : ~(y < m)
    BY <1>1 DEF OpToRel
  <1> QED
    BY <1>2

LEMMA RangeFacts ==
  ASSUME NEW X, NEW q \in Seq(X)
  PROVE  /\ Range(q) = {q[i] : i \in 1 .. Len(q)} /\ Range(q) \subseteq X
         /\ q = <<>> <=> Range(q) = {}
         /\ IsInjective(q) <=> \A i, j \in 1 .. Len(q) : q[i] = q[j] => i = j
  <1>1. Range(q) = {q[i] : i \in 1 .. Len(q)} /\ Range(q) \subseteq X
    BY DEF Range
  <1>2. q # <<>> => 1 \in 1 .. Len(q)
    BY DEF Range
  <1>3. q = <<>> <=> Range(q) = {}
    BY <1>1, <1>2
  <1>4. IsInjective(q) <=> \A i, j \in 1 .. Len(q) : q[i] = q[j] => i = j
    BY DEF IsInjective
  <1> QED
    BY <1>1, <1>3, <1>4

LEMMA ConcatFacts ==
  ASSUME NEW X, NEW q \in Seq(X), NEW r \in Seq(X)
  PROVE  /\ q \o r \in Seq(X) /\ Range(q \o r) = Range(q) \cup Range(r)
         /\ Len(q \o r) = Len(q) + Len(r)
         /\ IsInjective(q) /\ IsInjective(r) /\ Range(q) \cap Range(r) = {} => IsInjective(q \o r)
  <1> DEFINE c == q \o r
             m == Len(q)
             n == Len(r)
  <1>1. /\ c \in Seq(X) /\ Len(c) = m + n /\ m \in Nat /\ n \in Nat
        /\ \A i \in 1 .. m : c[i] = q[i]
        /\ \A i \in (m + 1) .. (m + n) : c[i] = r[i - m]
    OBVIOUS
  <1>2. /\ Range(q) = {q[i] : i \in 1 .. m} /\ Range(r) = {r[i] : i \in 1 .. n}
        /\ IsInjective(q) <=> \A i, j \in 1 .. m : q[i] = q[j] => i = j
        /\ IsInjective(r) <=> \A i, j \in 1 .. n : r[i] = r[j] => i = j
    BY RangeFacts
  <1> HIDE DEF c, m, n
  <1>3. /\ Range(c) = {c[i] : i \in 1 .. m + n}
        /\ IsInjective(c) <=> \A i, j \in 1 .. m + n : c[i] = c[j] => i = j
    BY <1>1, RangeFacts
  <1>4. \A i \in 1 .. m + n : \/ i \in 1 .. m /\ c[i] = q[i]
                              \/ i - m \in 1 .. n /\ c[i] = r[i - m] /\ i \notin 1 .. m
    BY <1>1, SMTT(30)
  <1>5. /\ \A i \in 1 .. m : c[i] \in Range(q)
        /\ \A i \in 1 .. m + n : i \notin 1 .. m => c[i] \in Range(r)
    <2>1. ASSUME NEW i \in 1 .. m PROVE c[i] \in Range(q)
      <3>1. c[i] = q[i]
        BY <1>1
      <3> QED
        BY <1>2, <3>1
    <2>2. ASSUME NEW i \in 1 .. m + n, i \notin 1 .. m PROVE c[i] \in Range(r)
      <3>1. i - m \in 1 .. n /\ c[i] = r[i - m]
        BY <1>4, <2>2
      <3> QED
        BY <1>2, <3>1
    <2> QED
      BY <2>1, <2>2
  <1>6. Range(c) \subseteq Range(q) \cup Range(r)
    <2>1. \A i \in 1 .. m + n : c[i] \in Range(q) \cup Range(r)
      BY <1>5
    <2> QED
      BY <1>3, <2>1
  <1>7. Range(q) \subseteq Range(c)
    <2>1. \A i \in 1 .. m : i \in 1 .. m + n /\ c[i] = q[i]
      BY <1>1
    <2> QED
      BY <1>2, <1>3, <2>1
  <1>8. Range(r) \subseteq Range(c)
    <2>1. \A i \in 1 .. n : i + m \in 1 .. m + n /\ c[i + m] = r[i]
      <3> SUFFICES ASSUME NEW i \in 1 .. n PROVE i + m \in 1 .. m + n /\ c[i + m] = r[i]
        OBVIOUS
      <3>1. i + m \in (m + 1) .. (m + n) /\ (i + m) - m = i
        BY <1>1
      <3> QED
        BY <1>1, <3>1
    <2> QED
      BY <1>2, <1>3, <2>1, SMTT(30)
  <1>9. ASSUME IsInjective(q), IsInjective(r), Range(q) \cap Range(r) = {},
               NEW i \in 1 .. m + n, NEW j \in 1 .. m + n, c[i] = c[j]
        PROVE  i = j
    <2>1. CASE i \in 1 .. m /\ j \in 1 .. m
      BY <1>1, <1>2, <1>9, <2>1
    <2>2. CASE i \notin 1 .. m /\ j \notin 1 .. m
      <3>1. i - m \in 1 .. n /\ j - m \in 1 .. n /\ r[i - m] = r[j - m]
        BY <1>4, <1>9, <2>2
      <3>2. i - m = j - m
        BY <1>2, <1>9, <3>1
      <3> QED
        BY <1>1, <3>2
    <2>3. CASE i \in 1 .. m /\ j \notin 1 .. m
      <3>1. c[i] \in Range(q) /\ c[j] \in Range(r)
        BY <1>5, <2>3
      <3> QED
        BY <1>9, <3>1
    <2>4. CASE i \notin 1 .. m /\ j \in 1 .. m
      <3>1. c[i] \in Range(r) /\ c[j] \in Range(q)
        BY <1>5, <2>4
      <3> QED
        BY <1>9, <3>1
    <2> QED
      BY <2>1, <2>2, <2>3, <2>4
  <1>10. IsInjective(q) /\ IsInjective(r) /\ Range(q) \cap Range(r) = {} => IsInjective(c)
    BY <1>3, <1>9
  <1> QED
    BY <1>1, <1>6, <1>7, <1>8, <1>10 DEF c, m, n

LEMMA SingleFacts ==
  ASSUME NEW X, NEW x \in X
  PROVE  <<x>> \in Seq(X) /\ Range(<<x>>) = {x} /\ IsInjective(<<x>>)
  BY RangeFacts DEF Range, IsInjective

LEMMA AppendFacts ==
  ASSUME NEW X, NEW q \in Seq(X), NEW x \in X
  PROVE  /\ Append(q, x) \in Seq(X) /\ Range(Append(q, x)) = Range(q) \cup {x}
         /\ IsInjective(q) /\ x \notin Range(q) => IsInjective(Append(q, x))
  <1> DEFINE r == <<x>>
             c == Append(q, x)
  <1>1. c = q \o r
    OBVIOUS
  <1>2. r \in Seq(X) /\ Range(r) = {x} /\ IsInjective(r)
    BY SingleFacts
  <1> HIDE DEF r, c
  <1>3. /\ c \in Seq(X) /\ Range(c) = Range(q) \cup Range(r)
        /\ IsInjective(q) /\ IsInjective(r) /\ Range(q) \cap Range(r) = {} => IsInjective(c)
    BY <1>1, <1>2, ConcatFacts
  <1> QED
    BY <1>2, <1>3 DEF c

LEMMA TailFacts ==
  ASSUME NEW X, NEW q \in Seq(X), q # <<>>, IsInjective(q)
  PROVE  /\ Tail(q) \in Seq(X) /\ Range(Tail(q)) = Range(q) \ {Head(q)}
         /\ IsInjective(Tail(q)) /\ Head(q) \in Range(q)
  <1>1. /\ Tail(q) \in Seq(X) /\ Len(Tail(q)) = Len(q) - 1 /\ Head(q) = q[1]
        /\ Len(q) \in Nat /\ Len(q) # 0
        /\ \A i \in 1 .. Len(q) - 1 : Tail(q)[i] = q[i + 1]
    OBVIOUS
  <1> DEFINE t == Tail(q)
             n == Len(q)
  <1>2. /\ Range(q) = {q[i] : i \in 1 .. n} /\ \A i, j \in 1 .. n : q[i] = q[j] => i = j
        /\ Range(t) = {t[i] : i \in 1 .. n - 1}
        /\ IsInjective(t) <=> \A i, j \in 1 .. n - 1 : t[i] = t[j] => i = j
    BY <1>1, RangeFacts
  <1> HIDE DEF t, n
  <1>3. n \in Nat \ {0} /\ \A i \in 1 .. n - 1 : t[i] = q[i + 1] /\ i + 1 \in 1 .. n
    BY <1>1 DEF t, n
  <1>4. IsInjective(t)
    <2> SUFFICES ASSUME NEW i \in 1 .. n - 1, NEW j \in 1 .. n - 1, t[i] = t[j] PROVE i = j
      BY <1>2
    <2>1. q[i + 1] = q[j + 1] /\ i + 1 \in 1 .. n /\ j + 1 \in 1 .. n
      BY <1>3
    <2>2. i + 1 = j + 1
      BY <1>2, <2>1
    <2> QED
      BY <1>3, <2>2
  <1>5. 1 \in 1 .. n /\ Head(q) = q[1]
    BY <1>1, <1>3
  <1>6. ASSUME NEW x \in Range(t) PROVE x \in Range(q) /\ x # q[1]
    <2>1. PICK i \in 1 .. n - 1 : x = t[i]
      BY <1>2
    <2>2. x = q[i + 1] /\ i + 1 \in 1 .. n /\ i + 1 # 1
      BY <1>3, <2>1
    <2> QED
      BY <1>2, <1>5, <2>2
  <1>7. ASSUME NEW x \in Range(q), x # q[1] PROVE x \in Range(t)
    <2>1. PICK i \in 1 .. n : x = q[i]
      BY <1>2
    <2>2. i # 1
      BY <1>7, <2>1
    <2>3. i - 1 \in 1 .. n - 1 /\ (i - 1) + 1 = i
      BY <1>3, <2>2
    <2>4. t[i - 1] = q[i]
      BY <1>3, <2>3
    <2> QED
      BY <1>2, <2>1, <2>3, <2>4
  <1> QED
    BY <1>1, <1>2, <1>4, <1>5, <1>6, <1>7 DEF t

(* The function by which Only is defined exists, for each prefix of s.     *)
KeptStep(f, s, S, n) ==
    IF n = 0 THEN <<>>
    ELSE IF s[n] \in S THEN Append(f[n - 1], s[n]) ELSE f[n - 1]

LEMMA KeptExists ==
  ASSUME NEW s, NEW S, Len(s) \in Nat
  PROVE  \E f : f = [n \in 0 .. Len(s) |-> KeptStep(f, s, S, n)]
  <1> DEFINE Is(f, m) == f = [n \in 0 .. m |-> KeptStep(f, s, S, n)]
             Bad == {m \in 0 .. Len(s) : ~ \E f : Is(f, m)}
  <1>1. SUFFICES ASSUME Bad # {} PROVE FALSE
    <2>1. Len(s) \in 0 .. Len(s)
      OBVIOUS
    <2>2. Bad = {} => \E f : Is(f, Len(s))
      BY <2>1
    <2> QED
      BY <2>2
  <1>2. PICK m \in Bad : \A y \in Bad : m <= y
    <2>1. Bad \in SUBSET Nat
      OBVIOUS
    <2> HIDE DEF Bad
    <2> QED
      BY <1>1, <2>1, NatMin
  <1>3. m \in 0 .. Len(s) /\ ~ \E f : Is(f, m)
    OBVIOUS
  <1>4. CASE m = 0
    <2> DEFINE g == [n \in 0 .. 0 |-> <<>>]
    <2>1. Is(g, 0)
      BY DEF KeptStep
    <2> HIDE DEF Is
    <2> QED
      BY <1>3, <1>4, <2>1
  <1>5. CASE m # 0
    <2>1. m - 1 \in 0 .. Len(s) /\ ~(m <= m - 1)
      BY <1>3, <1>5
    <2>2. PICK f : Is(f, m - 1)
      <3>1. m - 1 \notin Bad
        BY <1>2, <2>1
      <3> QED
        BY <2>1, <3>1
    <2> DEFINE last == KeptStep(f, s, S, m)
               g == [n \in 0 .. m |-> IF n = m THEN last ELSE f[n]]
    <2>3. ASSUME NEW n \in 0 .. m PROVE g[n] = KeptStep(g, s, S, n)
      <3>1. CASE n = 0
        BY <1>3, <1>5, <2>2, <3>1 DEF KeptStep
      <3>2. CASE n # 0 /\ n # m
        <4>1. n \in 0 .. m - 1 /\ n - 1 \in 0 .. m - 1 /\ n - 1 \in 0 .. m /\ n - 1 # m
          BY <1>3, <3>2
        <4>2. f[n] = KeptStep(f, s, S, n)
          BY <2>2, <4>1
        <4>3. g[n] = f[n] /\ g[n - 1] = f[n - 1]
          BY <3>2, <4>1
        <4> QED
          BY <4>2, <4>3 DEF KeptStep
      <3>3. CASE n = m
        <4>1. n - 1 \in 0 .. m /\ n - 1 # m
          BY <1>3, <1>5, <3>3
        <4>2. g[n - 1] = f[n - 1] /\ g[n] = last
          BY <3>3, <4>1
        <4> QED
          BY <3>3, <4>2 DEF KeptStep
      <3> QED
        BY <3>1, <3>2, <3>3
    <2>4. Is(g, m)
      <3>1. g = [n \in 0 .. m |-> g[n]]
        OBVIOUS
      <3> HIDE DEF g
      <3> QED
        BY <2>3, <3>1
    <2> HIDE DEF Is
    <2> QED
      BY <1>3, <2>4
  <1> QED
    BY <1>4, <1>5

KeptBy(f, s, S) == f = [n \in 0 .. Len(s) |-> KeptStep(f, s, S, n)]

LEMMA OnlyIs ==
  ASSUME NEW s, NEW S, Len(s) \in Nat
  PROVE  \E f : KeptBy(f, s, S) /\ Only(s, S) = f[Len(s)]
  <1> DEFINE F == CHOOSE f : KeptBy(f, s, S)
  <1>1. \E f : KeptBy(f, s, S)
    BY KeptExists DEF KeptBy
  <1>2. Only(s, S) = F[Len(s)]
    BY Zenon DEF Only, KeptStep, KeptBy
  <1>3. KeptBy(F, s, S)
    BY <1>1, Zenon
  <1> HIDE DEF F
  <1> QED
    BY <1>2, <1>3

LEMMA OnlyFacts ==
  ASSUME NEW X, NEW s \in Seq(X), NEW S
  PROVE  /\ Only(s, S) \in Seq(X) /\ Range(Only(s, S)) = Range(s) \cap S
         /\ IsInjective(s) => IsInjective(Only(s, S))
  <1>0. PICK f : KeptBy(f, s, S) /\ Only(s, S) = f[Len(s)]
    BY OnlyIs
  <1>1. f = [n \in 0 .. Len(s) |-> KeptStep(f, s, S, n)] /\ Only(s, S) = f[Len(s)]
    BY <1>0 DEF KeptBy
  <1> DEFINE Upto(n) == {s[i] : i \in 1 .. n}
             Fine(n) == /\ f[n] \in Seq(X) /\ Range(f[n]) = Upto(n) \cap S
                        /\ IsInjective(s) => IsInjective(f[n])
             Bad == {n \in 0 .. Len(s) : ~Fine(n)}
  <1>2. /\ Range(s) = Upto(Len(s)) /\ Len(s) \in 0 .. Len(s) /\ Len(s) \in Nat
        /\ IsInjective(s) => \A i, j \in 1 .. Len(s) : s[i] = s[j] => i = j
        /\ \A i \in 1 .. Len(s) : s[i] \in X
    BY RangeFacts
  <1>3. SUFFICES ASSUME Bad # {} PROVE FALSE
    <2>1. Fine(Len(s)) => /\ Only(s, S) \in Seq(X) /\ Range(Only(s, S)) = Range(s) \cap S
                          /\ IsInjective(s) => IsInjective(Only(s, S))
      BY <1>1, <1>2
    <2>2. Bad = {} => Fine(Len(s))
      BY <1>2
    <2> QED
      BY <2>1, <2>2
  <1>4. PICK n \in Bad : \A y \in Bad : n <= y
    <2>1. Bad \in SUBSET Nat
      BY <1>2
    <2> HIDE DEF Bad
    <2> QED
      BY <1>3, <2>1, NatMin
  <1>5. n \in 0 .. Len(s) /\ ~Fine(n) /\ f[n] = KeptStep(f, s, S, n)
    BY <1>1
  <1>6. CASE n = 0
    <2>1. f[n] = <<>>
      BY <1>5, <1>6 DEF KeptStep
    <2>2. <<>> \in Seq(X) /\ Range(<<>>) = {} /\ IsInjective(<<>>) /\ Upto(0) = {}
      BY DEF Range, IsInjective
    <2> QED
      BY <1>5, <1>6, <2>1, <2>2
  <1>7. CASE n # 0
    <2>1. n \in 1 .. Len(s) /\ n - 1 \in 0 .. Len(s) /\ ~(n <= n - 1)
      BY <1>2, <1>5, <1>7
    <2>2. Fine(n - 1)
      BY <1>4, <2>1
    <2>3. Upto(n) = Upto(n - 1) \cup {s[n]}
      <3>1. \A i \in 1 .. n : i \in 1 .. n - 1 \/ i = n
        BY <2>1
      <3>2. \A i \in 1 .. n - 1 : i \in 1 .. n
        BY <2>1
      <3> QED
        BY <2>1, <3>1, <3>2
    <2>4. IsInjective(s) => s[n] \notin Upto(n - 1)
      BY <1>2, <2>1
    <2> HIDE DEF Upto
    <2>5. CASE s[n] \in S
      <3>1. f[n] = Append(f[n - 1], s[n])
        BY <1>5, <1>7, <2>5 DEF KeptStep
      <3>2. s[n] \in X
        BY <1>2, <2>1
      <3>3. PICK q \in Seq(X) : q = f[n - 1]
        BY <2>2
      <3>4. /\ Append(q, s[n]) \in Seq(X) /\ Range(Append(q, s[n])) = Range(q) \cup {s[n]}
            /\ IsInjective(q) /\ s[n] \notin Range(q) => IsInjective(Append(q, s[n]))
        BY <3>2, AppendFacts
      <3>5. Range(q) = Upto(n - 1) \cap S /\ (IsInjective(s) => IsInjective(q))
        BY <2>2, <3>3
      <3> QED
        BY <1>5, <2>3, <2>4, <2>5, <3>1, <3>3, <3>4, <3>5
    <2>6. CASE s[n] \notin S
      <3>1. f[n] = f[n - 1]
        BY <1>5, <1>7, <2>6 DEF KeptStep
      <3> QED
        BY <1>5, <2>2, <2>3, <2>6, <3>1
    <2> QED
      BY <2>5, <2>6
  <1> QED
    BY <1>6, <1>7
(***************************************************************************)
(* Buckets.                                                                *)
(***************************************************************************)
QueuesFit(b) ==
    \A t \in Tenants : /\ IsInjective(b.queue[t])
                       /\ \A j \in Range(b.queue[t]) : Tenant[j] = t

LEMMA BucketFacts ==
  ASSUME NEW b \in Bucket
  PROVE  /\ b.order \in Seq(Tenants) /\ b.index \in Nat /\ Len(b.order) \in Nat
         /\ DOMAIN b.order = 1 .. Len(b.order)
         /\ \A t \in Tenants : b.queue[t] \in Seq(Jobs) /\ Range(b.queue[t]) \subseteq Jobs
         /\ Contents(b) \subseteq Jobs
         /\ \A j : j \in Contents(b) <=> \E t \in Tenants : j \in Range(b.queue[t])
  <1>1. /\ b.order \in Seq(Tenants) /\ b.index \in Nat
        /\ \A t \in Tenants : b.queue[t] \in Seq(Jobs)
    BY DEF Bucket
  <1>2. Len(b.order) \in Nat /\ DOMAIN b.order = 1 .. Len(b.order)
    BY <1>1
  <1>3. \A t \in Tenants : Range(b.queue[t]) \subseteq Jobs
    BY <1>1, RangeFacts
  <1>4. \A j : j \in Contents(b) <=> \E t \in Tenants : j \in Range(b.queue[t])
    BY DEF Contents
  <1> QED
    BY <1>1, <1>2, <1>3, <1>4

LEMMA SettleFacts ==
  ASSUME NEW b \in Bucket, IsInjective(b.order), QueuesFit(b),
         {t \in Tenants : b.queue[t] # <<>>} \subseteq Range(b.order)
  PROVE  Fit(Settle(b)) /\ Settle(b).queue = b.queue
  <1> DEFINE full == {t \in Tenants : b.queue[t] # <<>>}
             rest == Only(b.order, full)
             i == IF b.index >= Len(rest) THEN 0 ELSE b.index
             u == [b EXCEPT !.order = rest, !.index = i]
  <1>1. /\ b.order \in Seq(Tenants) /\ b.index \in Nat
    BY BucketFacts
  <1>2. /\ rest \in Seq(Tenants) /\ Range(rest) = Range(b.order) \cap full /\ IsInjective(rest)
    BY <1>1, OnlyFacts
  <1>3. Settle(b) = u
    BY DEF Settle
  <1> HIDE DEF rest
  <1>4. i \in Nat /\ (i < Len(rest) \/ i = 0) /\ Len(rest) \in Nat
    BY <1>1, <1>2
  <1> HIDE DEF i
  <1>5. u \in Bucket /\ u.queue = b.queue /\ u.order = rest /\ u.index = i
    BY <1>2, <1>4 DEF Bucket
  <1> HIDE DEF u
  <1>6. Range(u.order) = {t \in Tenants : u.queue[t] # <<>>}
    BY <1>2, <1>5
  <1> QED
    BY <1>2, <1>3, <1>4, <1>5, <1>6 DEF Fit, QueuesFit

LEMMA AddFacts ==
  ASSUME NEW b, Fit(b), NEW j \in Jobs, j \notin Contents(b)
  PROVE  /\ Fit(Add(b, Tenant[j], <<j>>))
         /\ Contents(Add(b, Tenant[j], <<j>>)) = Contents(b) \cup {j}
  <1> DEFINE t == Tenant[j]
             q == b.queue[t] \o <<j>>
             o == IF t \notin Range(b.order) THEN Append(b.order, t) ELSE b.order
             u == [b EXCEPT !.order = o, !.queue[t] = q]
  <1>1. /\ t \in Tenants /\ b \in Bucket /\ b.order \in Seq(Tenants)
        /\ b.queue[t] \in Seq(Jobs) /\ j \notin Range(b.queue[t]) /\ IsInjective(b.queue[t])
        /\ IsInjective(b.order) /\ Range(b.order) = {s \in Tenants : b.queue[s] # <<>>}
        /\ b.index \in Nat
        /\ b.index < Len(b.order) \/ b.index = 0
    BY LimitsAssumption, BucketFacts DEF Fit
  <1>2. <<j>> # <<>> /\ <<j>> \in Seq(Jobs) /\ Range(<<j>>) = {j} /\ IsInjective(<<j>>)
    BY SingleFacts
  <1>3. Add(b, t, <<j>>) = u
    BY <1>2 DEF Add
  <1>4. q \in Seq(Jobs) /\ Range(q) = Range(b.queue[t]) \cup {j} /\ IsInjective(q)
    <2> DEFINE r == <<j>>
    <2>1. r \in Seq(Jobs) /\ Range(r) = {j} /\ IsInjective(r)
      BY <1>2
    <2> HIDE DEF r
    <2>2. /\ b.queue[t] \o r \in Seq(Jobs)
          /\ Range(b.queue[t] \o r) = Range(b.queue[t]) \cup {j}
          /\ IsInjective(b.queue[t] \o r)
      BY <1>1, <2>1, ConcatFacts
    <2> QED
      BY <2>2 DEF r
  <1>5. /\ o \in Seq(Tenants) /\ Range(o) = Range(b.order) \cup {t} /\ IsInjective(o)
        /\ Len(b.order) \in Nat /\ Len(o) \in Nat /\ Len(b.order) <= Len(o)
    <2>1. CASE t \in Range(b.order)
      BY <1>1, <2>1
    <2>2. CASE t \notin Range(b.order)
      <3>1. o = Append(b.order, t) /\ Len(o) = Len(b.order) + 1
        BY <1>1, <2>2
      <3> QED
        BY <1>1, <2>2, <3>1, AppendFacts
    <2> QED
      BY <2>1, <2>2
  <1> HIDE DEF q, o
  <1>6. /\ u \in Bucket /\ u.order = o /\ u.index = b.index /\ u.queue[t] = q
        /\ \A s \in Tenants : s # t => u.queue[s] = b.queue[s]
    BY <1>1, <1>4, <1>5 DEF Bucket
  <1> HIDE DEF u, t
  <1>7. q # <<>>
    BY <1>4, RangeFacts
  <1>8. Range(u.order) = {s \in Tenants : u.queue[s] # <<>>}
    BY <1>1, <1>5, <1>6, <1>7
  <1>9. u.index < Len(u.order) \/ u.index = 0
    BY <1>1, <1>5, <1>6
  <1>10. ASSUME NEW s \in Tenants
         PROVE  IsInjective(u.queue[s]) /\ \A i \in Range(u.queue[s]) : Tenant[i] = s
    <2>1. CASE s = t
      BY <1>1, <1>4, <1>6, <2>1 DEF t, Fit
    <2>2. CASE s # t
      BY <1>6, <2>2 DEF Fit
    <2> QED
      BY <2>1, <2>2
  <1>11. Contents(u) = Contents(b) \cup {j}
    BY <1>1, <1>4, <1>6 DEF Contents
  <1> QED
    BY <1>3, <1>5, <1>6, <1>8, <1>9, <1>10, <1>11 DEF Fit, t

LEMMA ModFacts ==
  ASSUME NEW a \in Nat, NEW n \in Nat \ {0}
  PROVE  a % n \in 0 .. n - 1
  OBVIOUS

(* The tenant whose turn it is has queued jobs, and only the first of them *)
(* leaves.                                                                 *)
LEMMA PopFacts ==
  ASSUME NEW b, Fit(b), NEW k \in Turns(b)
  PROVE  /\ Fit(Pop(b, k)) /\ Pick(b, k) \in Contents(b) /\ Pick(b, k) \in Jobs
         /\ Tenant[Pick(b, k)] = At(b, k) /\ At(b, k) \in Tenants /\ Allowed(At(b, k))
         /\ Contents(Pop(b, k)) = Contents(b) \ {Pick(b, k)}
  <1> DEFINE t == At(b, k)
             j == Pick(b, k)
             n == Len(b.order)
             x == (b.index + k + 1) % n
             tail == Tail(b.queue[t])
             u == [b EXCEPT !.index = x, !.queue[t] = tail]
  <1>1. /\ b \in Bucket /\ b.order \in Seq(Tenants) /\ b.index \in Nat /\ n \in Nat
        /\ \A s \in Tenants : b.queue[s] \in Seq(Jobs) /\ Range(b.queue[s]) \subseteq Jobs
        /\ IsInjective(b.order) /\ Range(b.order) = {s \in Tenants : b.queue[s] # <<>>}
    BY BucketFacts DEF Fit
  <1>2. k \in Nat /\ n \in Nat \ {0} /\ Allowed(t)
    BY <1>1 DEF Turns
  <1>3. t \in Tenants /\ b.queue[t] # <<>>
    <2>0. PICK a \in Nat : a = b.index + k
      BY <1>1, <1>2
    <2>1. (b.index + k) % n \in 0 .. n - 1
      <3> HIDE DEF n
      <3>1. a % n \in 0 .. n - 1
        BY <1>2, ModFacts
      <3> QED
        BY <2>0, <3>1
    <2>2. ((b.index + k) % n) + 1 \in 1 .. n
      BY <1>2, <2>1
    <2>3. t \in Range(b.order)
      BY <1>1, <2>2, RangeFacts DEF At
    <2> QED
      BY <1>1, <2>3
  <1>4. x \in Nat
    <2>1. PICK a \in Nat : a = b.index + k + 1
      BY <1>1, <1>2
    <2> HIDE DEF n
    <2>2. a % n \in 0 .. n - 1
      BY <1>2, ModFacts
    <2> QED
      BY <1>2, <2>1, <2>2
  <1>5. Pop(b, k) = Settle(u)
    BY DEF Pop
  <1>6. /\ IsInjective(b.queue[t]) /\ \A s \in Tenants : \A i \in Range(b.queue[s]) : Tenant[i] = s
    BY <1>3 DEF Fit
  <1>7. /\ tail \in Seq(Jobs) /\ Range(tail) = Range(b.queue[t]) \ {j} /\ IsInjective(tail)
        /\ j \in Range(b.queue[t])
    BY <1>1, <1>3, <1>6, TailFacts DEF Pick
  <1>8. Tenant[j] = t /\ j \in Contents(b) /\ j \in Jobs
    BY <1>1, <1>3, <1>6, <1>7 DEF Contents
  <1> HIDE DEF t, j, x, tail
  <1>9. /\ u \in Bucket /\ u.order = b.order /\ u.queue[t] = tail
        /\ \A s \in Tenants : s # t => u.queue[s] = b.queue[s]
    BY <1>1, <1>3, <1>4, <1>7 DEF Bucket
  <1> HIDE DEF u
  <1>10. QueuesFit(u)
    <2> SUFFICES ASSUME NEW s \in Tenants
                 PROVE  IsInjective(u.queue[s]) /\ \A i \in Range(u.queue[s]) : Tenant[i] = s
      BY DEF QueuesFit
    <2>1. CASE s = t
      BY <1>6, <1>7, <1>9, <2>1
    <2>2. CASE s # t
      BY <1>9, <2>2 DEF Fit
    <2> QED
      BY <2>1, <2>2
  <1>11. {s \in Tenants : u.queue[s] # <<>>} \subseteq Range(u.order)
    BY <1>1, <1>3, <1>9
  <1>12. Fit(Settle(u)) /\ Settle(u).queue = u.queue
    BY <1>1, <1>9, <1>10, <1>11, SettleFacts
  <1>13. Contents(Settle(u)) = Contents(b) \ {j}
    <2>1. ASSUME NEW i PROVE i \in Contents(Settle(u)) <=> i \in Contents(b) /\ i # j
      <3>1. i \in Contents(Settle(u)) <=> \E s \in Tenants : i \in Range(u.queue[s])
        BY <1>12 DEF Contents
      <3>2. i \in Contents(b) <=> \E s \in Tenants : i \in Range(b.queue[s])
        BY DEF Contents
      <3>3. ASSUME NEW s \in Tenants PROVE i \in Range(u.queue[s]) <=> i \in Range(b.queue[s]) /\ i # j
        <4>1. CASE s = t
          BY <1>7, <1>9, <4>1
        <4>2. CASE s # t
          BY <1>6, <1>8, <1>9, <4>2
        <4> QED
          BY <4>1, <4>2
      <3> QED
        BY <3>1, <3>2, <3>3
    <2> QED
      BY <2>1
  <1> QED
    BY <1>2, <1>3, <1>5, <1>8, <1>12, <1>13 DEF t, j

(* The tenants in any order are all of them, each once.                    *)
LEMMA SeqsFacts ==
  ASSUME NEW tenants \in SetToSeqs(Tenants)
  PROVE  tenants \in Seq(Tenants) /\ IsInjective(tenants) /\ Range(tenants) = Tenants
  <1> DEFINE n == Cardinality(Tenants)
  <1>1. IsFiniteSet(Tenants) /\ n \in Nat
    BY LimitsAssumption, FS_CardinalityType
  <1>2. /\ tenants \in [1 .. n -> Tenants]
        /\ \A i, j \in 1 .. n : i # j => tenants[i] # tenants[j]
    BY DEF SetToSeqs
  <1> HIDE DEF n
  <1>3. tenants \in Seq(Tenants) /\ Len(tenants) = n
    BY <1>1, <1>2
  <1>4. IsInjective(tenants) /\ Range(tenants) \subseteq Tenants
    BY <1>2, <1>3, RangeFacts
  <1>5. Range(tenants) = {tenants[i] : i \in 1 .. n}
    BY <1>3, RangeFacts
  <1>6. ExistsBijection(1 .. n, Range(tenants))
    <2>1. tenants \in Bijection(1 .. n, Range(tenants))
      BY <1>2, <1>5 DEF Bijection, Injection, Surjection, IsInjective, Range
    <2> QED
      BY <2>1 DEF ExistsBijection
  <1>7. Cardinality(Range(tenants)) = n
    BY <1>1, <1>6, FS_CountingElements
  <1> QED
    BY <1>1, <1>3, <1>4, <1>7, FS_Subset DEF n
(* A promotion moves what is due and loses nothing.                        *)
QueuedIn(B) == UNION {Contents(B[p]) : p \in Priority}

LEMMA PromoteFacts ==
  ASSUME NEW B, AllFit(B), NEW from \in Priority, NEW to \in Priority, from # to,
         NEW due, NEW tenants \in SetToSeqs(Tenants)
  PROVE  /\ AllFit(Promote(B, from, to, due, tenants))
         /\ QueuedIn(Promote(B, from, to, due, tenants)) = QueuedIn(B)
  <1> DEFINE F == B[from]
             T == B[to]
             moved == [t \in Tenants |-> Only(F.queue[t], due)]
             stays == [t \in Tenants |-> Only(F.queue[t], Jobs \ due)]
             new == {Tenant[j] : j \in due \cap Contents(F)} \ Range(T.order)
             u == [F EXCEPT !.queue = stays]
             o == T.order \o Only(tenants, new)
             q == [t \in Tenants |-> T.queue[t] \o moved[t]]
             v == [T EXCEPT !.order = o, !.queue = q]
  <1>1. /\ Fit(F) /\ Fit(T) /\ F \in Bucket /\ T \in Bucket /\ B \in [Priority -> Bucket]
        /\ Contents(F) \cap Contents(T) = {}
    BY DEF AllFit, Fit
  <1>2. Promote(B, from, to, due, tenants) = [B EXCEPT ![from] = Settle(u), ![to] = v]
    <2>1. Promote(B, from, to, due, tenants)
            = [B EXCEPT ![from] = Settle([@ EXCEPT !.queue = stays]),
                        ![to].order = @ \o Only(tenants, new),
                        ![to].queue = [t \in Tenants |-> @[t] \o moved[t]]]
      BY DEF Promote
    <2> HIDE DEF stays, moved, new
    <2> QED
      BY <1>1, <2>1 DEF Bucket
  <1>3. ASSUME NEW t \in Tenants
        PROVE  /\ F.queue[t] \in Seq(Jobs) /\ IsInjective(F.queue[t])
               /\ T.queue[t] \in Seq(Jobs) /\ IsInjective(T.queue[t])
               /\ \A j \in Range(F.queue[t]) \cup Range(T.queue[t]) : Tenant[j] = t
               /\ Range(F.queue[t]) \subseteq Jobs
               /\ Range(F.queue[t]) \cap Range(T.queue[t]) = {}
    <2>1. /\ F.queue[t] \in Seq(Jobs) /\ IsInjective(F.queue[t])
          /\ T.queue[t] \in Seq(Jobs) /\ IsInjective(T.queue[t])
          /\ \A j \in Range(F.queue[t]) \cup Range(T.queue[t]) : Tenant[j] = t
          /\ Range(F.queue[t]) \subseteq Jobs
      BY <1>1, BucketFacts DEF Fit
    <2>2. Range(F.queue[t]) \subseteq Contents(F) /\ Range(T.queue[t]) \subseteq Contents(T)
      BY DEF Contents
    <2> QED
      BY <1>1, <2>1, <2>2
  <1>4. ASSUME NEW t \in Tenants
        PROVE  /\ moved[t] \in Seq(Jobs) /\ Range(moved[t]) = Range(F.queue[t]) \cap due
               /\ IsInjective(moved[t])
               /\ stays[t] \in Seq(Jobs) /\ Range(stays[t]) = Range(F.queue[t]) \ due
               /\ IsInjective(stays[t])
    <2>1. Range(F.queue[t]) \cap (Jobs \ due) = Range(F.queue[t]) \ due
      BY <1>3
    <2> QED
      BY <1>3, <2>1, OnlyFacts
  <1>5. moved \in [Tenants -> Seq(Jobs)] /\ stays \in [Tenants -> Seq(Jobs)]
    BY <1>4
  <1> HIDE DEF F, T, moved, stays
  <1>6. /\ u \in Bucket /\ u.order = F.order /\ u.queue = stays
    BY <1>1, <1>5 DEF Bucket
  <1> HIDE DEF u
  <1>7. Fit(Settle(u)) /\ Settle(u).queue = stays
    <2>1. IsInjective(u.order) /\ QueuesFit(u)
      <3>1. IsInjective(F.order)
        BY <1>1 DEF Fit
      <3>2. ASSUME NEW t \in Tenants
            PROVE  IsInjective(stays[t]) /\ \A j \in Range(stays[t]) : Tenant[j] = t
        <4>1. Range(stays[t]) \subseteq Range(F.queue[t])
          BY <1>4
        <4> QED
          BY <1>3, <1>4, <4>1
      <3> QED
        BY <1>6, <3>1, <3>2 DEF QueuesFit
    <2>2. {t \in Tenants : u.queue[t] # <<>>} \subseteq Range(u.order)
      <3> SUFFICES ASSUME NEW t \in Tenants, stays[t] # <<>> PROVE t \in Range(F.order)
        BY <1>6
      <3>1. F.queue[t] # <<>>
        <4>1. Range(stays[t]) # {}
          BY <1>4, RangeFacts
        <4>2. Range(F.queue[t]) # {}
          BY <1>4, <4>1
        <4> QED
          BY <1>3, <4>2, RangeFacts
      <3> QED
        BY <1>1, <3>1 DEF Fit
    <2> QED
      BY <1>6, <2>1, <2>2, SettleFacts
  <1>8. new = {t \in Tenants : moved[t] # <<>>} \ Range(T.order)
    <2>1. ASSUME NEW j \in due \cap Contents(F)
          PROVE  Tenant[j] \in Tenants /\ moved[Tenant[j]] # <<>>
      <3>1. PICK t \in Tenants : j \in Range(F.queue[t])
        BY <2>1 DEF Contents
      <3>2. Tenant[j] = t /\ j \in Range(moved[t])
        BY <1>3, <1>4, <2>1, <3>1
      <3> QED
        BY <1>4, <3>2, RangeFacts
    <2>2. ASSUME NEW t \in Tenants, moved[t] # <<>>
          PROVE  \E j \in due \cap Contents(F) : t = Tenant[j]
      <3>1. PICK j \in Range(moved[t]) : TRUE
        BY <1>4, <2>2, RangeFacts
      <3>2. j \in Range(F.queue[t]) /\ j \in due
        BY <1>4, <3>1
      <3> QED
        BY <1>3, <3>2 DEF Contents
    <2> QED
      BY <2>1, <2>2
  <1> HIDE DEF new
  <1>9. /\ o \in Seq(Tenants) /\ IsInjective(o) /\ Range(o) = Range(T.order) \cup new
        /\ Len(o) >= Len(T.order) /\ Len(o) \in Nat /\ Len(T.order) \in Nat
    <2> DEFINE r == Only(tenants, new)
    <2>1. tenants \in Seq(Tenants) /\ IsInjective(tenants) /\ Range(tenants) = Tenants
      BY SeqsFacts
    <2>2. r \in Seq(Tenants) /\ Range(r) = Tenants \cap new /\ IsInjective(r)
      BY <2>1, OnlyFacts
    <2>3. Tenants \cap new = new /\ Range(T.order) \cap new = {}
      BY <1>8
    <2>4. T.order \in Seq(Tenants) /\ IsInjective(T.order)
      BY <1>1, BucketFacts DEF Fit
    <2> HIDE DEF r
    <2>5. /\ T.order \o r \in Seq(Tenants) /\ Range(T.order \o r) = Range(T.order) \cup Range(r)
          /\ Len(T.order \o r) = Len(T.order) + Len(r)
          /\ IsInjective(T.order \o r)
      BY <2>2, <2>3, <2>4, ConcatFacts
    <2>6. Len(r) \in Nat /\ Len(T.order) \in Nat
      BY <2>2, <2>4
    <2> QED
      BY <2>2, <2>3, <2>5, <2>6 DEF r
  <1>10. ASSUME NEW t \in Tenants
         PROVE  /\ q[t] \in Seq(Jobs) /\ IsInjective(q[t])
                /\ Range(q[t]) = Range(T.queue[t]) \cup (Range(F.queue[t]) \cap due)
                /\ q[t] # <<>> <=> T.queue[t] # <<>> \/ moved[t] # <<>>
    <2>1. PICK a \in Seq(Jobs), b \in Seq(Jobs) : a = T.queue[t] /\ b = moved[t]
      BY <1>3, <1>4
    <2>2. /\ IsInjective(a) /\ IsInjective(b) /\ Range(a) \cap Range(b) = {}
          /\ Range(b) = Range(F.queue[t]) \cap due
      BY <1>3, <1>4, <2>1
    <2>3. /\ a \o b \in Seq(Jobs) /\ Range(a \o b) = Range(a) \cup Range(b)
          /\ IsInjective(a \o b)
      BY <2>2, ConcatFacts
    <2>4. q[t] = a \o b
      BY <2>1
    <2>5. a \o b # <<>> <=> a # <<>> \/ b # <<>>
      OBVIOUS
    <2> QED
      BY <2>1, <2>2, <2>3, <2>4, <2>5
  <1>11. q \in [Tenants -> Seq(Jobs)]
    BY <1>10
  <1> HIDE DEF o, q
  <1>12. v \in Bucket /\ v.order = o /\ v.queue = q /\ v.index = T.index
    BY <1>1, <1>9, <1>11 DEF Bucket
  <1> HIDE DEF v
  <1>13. Fit(v)
    <2>1. Range(v.order) = {t \in Tenants : v.queue[t] # <<>>}
      <3>1. Range(T.order) = {t \in Tenants : T.queue[t] # <<>>}
        BY <1>1 DEF Fit
      <3> QED
        BY <1>8, <1>9, <1>10, <1>12, <3>1
    <2>2. v.index < Len(v.order) \/ v.index = 0
      <3>1. T.index \in Nat /\ (T.index < Len(T.order) \/ T.index = 0)
        BY <1>1, BucketFacts DEF Fit
      <3> QED
        BY <1>9, <1>12, <3>1
    <2>3. ASSUME NEW t \in Tenants
          PROVE  IsInjective(v.queue[t]) /\ \A j \in Range(v.queue[t]) : Tenant[j] = t
      BY <1>3, <1>10, <1>12
    <2> QED
      BY <1>9, <1>12, <2>1, <2>2, <2>3 DEF Fit
  <1>14. Contents(Settle(u)) = Contents(F) \ due
    BY <1>4, <1>7 DEF Contents
  <1>15. Contents(v) = Contents(T) \cup (Contents(F) \cap due)
    BY <1>10, <1>12 DEF Contents
  <1> DEFINE P == Promote(B, from, to, due, tenants)
  <1>16. /\ P \in [Priority -> Bucket] /\ P[from] = Settle(u) /\ P[to] = v
         /\ \A p \in Priority : p # from /\ p # to => P[p] = B[p]
    <2>1. Settle(u) \in Bucket
      BY <1>7 DEF Fit
    <2> QED
      BY <1>1, <1>2, <1>12, <2>1
  <1> HIDE DEF P
  <1>17. \A p \in Priority : Contents(P[p]) = IF p = from THEN Contents(F) \ due
                                              ELSE IF p = to THEN Contents(T) \cup (Contents(F) \cap due)
                                              ELSE Contents(B[p])
    BY <1>14, <1>15, <1>16
  <1>18. \A p, r \in Priority : p # r => Contents(B[p]) \cap Contents(B[r]) = {}
    BY DEF AllFit
  <1>19. \A p, r \in Priority : p # r => Contents(P[p]) \cap Contents(P[r]) = {}
    BY <1>17, <1>18 DEF F, T
  <1>20. AllFit(P)
    <2>1. \A p \in Priority : Fit(P[p])
      BY <1>7, <1>13, <1>16 DEF AllFit
    <2> QED
      BY <1>16, <1>19, <2>1 DEF AllFit
  <1>21. QueuedIn(P) = QueuedIn(B)
    <2>1. ASSUME NEW j, NEW p \in Priority, j \in Contents(P[p])
          PROVE  \E r \in Priority : j \in Contents(B[r])
      BY <1>17, <2>1 DEF F, T
    <2>2. ASSUME NEW j, NEW p \in Priority, j \in Contents(B[p])
          PROVE  \E r \in Priority : j \in Contents(P[r])
      <3>1. CASE p = from
        BY <1>17, <2>2, <3>1 DEF F
      <3>2. CASE p # from
        BY <1>17, <2>2, <3>2 DEF T
      <3> QED
        BY <3>1, <3>2
    <2> QED
      BY <2>1, <2>2 DEF QueuedIn
  <1> QED
    BY <1>20, <1>21 DEF P

LEMMA QueuedIs == QueuedJobs = QueuedIn(bucket)
  BY DEF QueuedJobs, QueuedIn

(* Places and queued jobs are as many.                                     *)
LEMMA TotalIs ==
  ASSUME AllFit(bucket), IsFiniteSet(QueuedJobs)
  PROVE  TotalJobs = Cardinality(QueuedJobs)
  <1> DEFINE P == UNION {{<<p, t, i>> : i \in DOMAIN bucket[p].queue[t]} :
                            p \in Priority, t \in Tenants}
             f == [x \in P |-> bucket[x[1]].queue[x[2]][x[3]]]
  <1>1. ASSUME NEW p \in Priority, NEW t \in Tenants
        PROVE  /\ Range(bucket[p].queue[t]) = {bucket[p].queue[t][i] : i \in DOMAIN bucket[p].queue[t]}
               /\ IsInjective(bucket[p].queue[t])
               /\ \A j \in Range(bucket[p].queue[t]) : Tenant[j] = t /\ j \in Contents(bucket[p])
    BY DEF AllFit, Fit, Range, Contents
  <1>2. ASSUME NEW x \in P
        PROVE  /\ x = <<x[1], x[2], x[3]>> /\ x[1] \in Priority /\ x[2] \in Tenants
               /\ x[3] \in DOMAIN bucket[x[1]].queue[x[2]]
               /\ f[x] = bucket[x[1]].queue[x[2]][x[3]]
               /\ f[x] \in Contents(bucket[x[1]]) /\ Tenant[f[x]] = x[2]
    <2>0. PICK p \in Priority, t \in Tenants : x \in {<<p, t, i>> : i \in DOMAIN bucket[p].queue[t]}
      OBVIOUS
    <2>1. PICK i \in DOMAIN bucket[p].queue[t] : x = <<p, t, i>>
      BY <2>0
    <2>2. f[x] = bucket[x[1]].queue[x[2]][x[3]]
      OBVIOUS
    <2> HIDE DEF f, P
    <2>3. f[x] \in Range(bucket[p].queue[t])
      BY <1>1, <2>1, <2>2
    <2> QED
      BY <1>1, <2>1, <2>2, <2>3
  <1>3. \A x \in P : f[x] \in QueuedJobs
    <2> HIDE DEF f, P
    <2> QED
      BY <1>2 DEF QueuedJobs
  <1>4. ASSUME NEW x \in P, NEW y \in P, f[x] = f[y] PROVE x = y
    <2> HIDE DEF f, P
    <2>1. x[2] = y[2]
      BY <1>2, <1>4
    <2>2. x[1] = y[1]
      <3>1. f[x] \in Contents(bucket[x[1]]) /\ f[x] \in Contents(bucket[y[1]])
        BY <1>2, <1>4
      <3>2. x[1] \in Priority /\ y[1] \in Priority
        BY <1>2
      <3> QED
        BY <3>1, <3>2 DEF AllFit
    <2>3. x[3] = y[3]
      <3> DEFINE q == bucket[x[1]].queue[x[2]]
      <3>1. IsInjective(q)
        BY <1>1, <1>2
      <3>2. x[3] \in DOMAIN q /\ y[3] \in DOMAIN q /\ q[x[3]] = q[y[3]]
        BY <1>2, <1>4, <2>1, <2>2
      <3> HIDE DEF q
      <3> QED
        BY <3>1, <3>2 DEF IsInjective
    <2>4. x = <<x[1], x[2], x[3]>> /\ y = <<y[1], y[2], y[3]>>
      BY <1>2
    <2> QED
      BY <2>1, <2>2, <2>3, <2>4
  <1>5. ASSUME NEW j \in QueuedJobs PROVE \E x \in P : f[x] = j
    <2>1. PICK p \in Priority, t \in Tenants : j \in Range(bucket[p].queue[t])
      BY DEF QueuedJobs, Contents
    <2>2. PICK i \in DOMAIN bucket[p].queue[t] : j = bucket[p].queue[t][i]
      BY <1>1, <2>1
    <2> DEFINE y == <<p, t, i>>
               S == {<<p, t, h>> : h \in DOMAIN bucket[p].queue[t]}
    <2>3. y \in P
      <3>1. y \in S
        OBVIOUS
      <3>2. S \in {{<<r, s, h>> : h \in DOMAIN bucket[r].queue[s]} : r \in Priority, s \in Tenants}
        OBVIOUS
      <3> HIDE DEF S, y
      <3> QED
        BY <3>1, <3>2
    <2>4. f[y] = bucket[y[1]].queue[y[2]][y[3]]
      <3> HIDE DEF P, y
      <3> QED
        BY <2>3
    <2>5. f[y] = j
      <3> HIDE DEF f, P
      <3> QED
        BY <2>2, <2>4
    <2> HIDE DEF f, P, y
    <2> QED
      BY <2>3, <2>5
  <1>6. f \in [P -> QueuedJobs]
    <2>1. DOMAIN f = P /\ f = [x \in P |-> f[x]]
      OBVIOUS
    <2> HIDE DEF f, P
    <2> QED
      BY <1>3, <2>1
  <1> HIDE DEF f, P
  <1>7. f \in Injection(P, QueuedJobs)
    BY <1>6, <1>4 DEF Injection, IsInjective
  <1>8. f \in Bijection(P, QueuedJobs)
    BY <1>6, <1>5, <1>7 DEF Bijection, Surjection
  <1>9. IsFiniteSet(P)
    BY <1>7, FS_Injection
  <1>10. Cardinality(P) = Cardinality(QueuedJobs)
    BY <1>8, <1>9, FS_Bijection DEF ExistsBijection
  <1> QED
    BY <1>10 DEF TotalJobs, P

(***************************************************************************)
(* Steps.                                                                  *)
(***************************************************************************)

(* One bucket changes.                                                     *)
LEMMA OneBucket ==
  ASSUME AllFit(bucket), NEW p \in Priority, NEW b, Fit(b),
         bucket' = [bucket EXCEPT ![p] = b],
         Contents(b) \cap (QueuedJobs \ Contents(bucket[p])) = {}
  PROVE  /\ AllFit(bucket)'
         /\ QueuedJobs' = (QueuedJobs \ Contents(bucket[p])) \cup Contents(b)
  <1>1. /\ bucket \in [Priority -> Bucket] /\ \A q \in Priority : Fit(bucket[q])
        /\ \A q, r \in Priority : q # r => Contents(bucket[q]) \cap Contents(bucket[r]) = {}
    BY DEF AllFit
  <1>2. b \in Bucket
    BY DEF Fit
  <1>3. /\ bucket' \in [Priority -> Bucket] /\ bucket'[p] = b
        /\ \A q \in Priority : q # p => bucket'[q] = bucket[q]
    BY <1>1, <1>2
  <1>4. \A q \in Priority : q # p => Contents(bucket[q]) \subseteq QueuedJobs \ Contents(bucket[p])
    BY <1>1 DEF QueuedJobs
  <1>5. \A q, r \in Priority : q # r => Contents(bucket'[q]) \cap Contents(bucket'[r]) = {}
    <2> SUFFICES ASSUME NEW q \in Priority, NEW r \in Priority, q # r
                 PROVE  Contents(bucket'[q]) \cap Contents(bucket'[r]) = {}
      OBVIOUS
    <2>1. CASE q = p
      BY <1>3, <1>4, <2>1
    <2>2. CASE r = p
      BY <1>3, <1>4, <2>2
    <2>3. CASE q # p /\ r # p
      BY <1>1, <1>3, <2>3
    <2> QED
      BY <2>1, <2>2, <2>3
  <1>6. \A q \in Priority : Fit(bucket'[q])
    BY <1>1, <1>3
  <1>7. AllFit(bucket)'
    BY <1>3, <1>5, <1>6 DEF AllFit, Fit, Contents, Bucket, Range, IsInjective
  <1>8. QueuedJobs' = UNION {Contents(bucket'[q]) : q \in Priority}
    BY DEF QueuedJobs, Contents, Range
  <1>9. UNION {Contents(bucket'[q]) : q \in Priority} = (QueuedJobs \ Contents(bucket[p])) \cup Contents(b)
    <2>1. ASSUME NEW j, NEW q \in Priority, j \in Contents(bucket'[q])
          PROVE  j \in (QueuedJobs \ Contents(bucket[p])) \cup Contents(b)
      BY <1>3, <1>4, <2>1
    <2>2. ASSUME NEW j, j \in QueuedJobs, j \notin Contents(bucket[p])
          PROVE  \E q \in Priority : j \in Contents(bucket'[q])
      BY <1>3, <2>2 DEF QueuedJobs
    <2> QED
      BY <1>3, <2>1, <2>2
  <1> QED
    BY <1>7, <1>8, <1>9

LEMMA SubmitStep ==
  ASSUME IInv, NEW j \in Jobs, NEW p \in Priority, Submit(j, p)
  PROVE  IInv'
  <1> DEFINE b == Add(bucket[p], Tenant[j], <<j>>)
  <1>1. /\ AllFit(bucket) /\ Fit(bucket[p]) /\ j \notin QueuedJobs /\ j \notin executing
        /\ IsFiniteSet(QueuedJobs) /\ QueuedJobs \cap executing = {}
        /\ bucket' = [bucket EXCEPT ![p] = b]
        /\ TotalJobs < MaxQueueSize
        /\ UNCHANGED <<executing, runningCount, tenantRunning, workers, phase>>
    BY DEF IInv, QueueInv, AllFit, Submit
  <1>2. j \notin Contents(bucket[p])
    BY <1>1 DEF QueuedJobs
  <1>3. Fit(b) /\ Contents(b) = Contents(bucket[p]) \cup {j}
    BY <1>1, <1>2, AddFacts
  <1> HIDE DEF b
  <1>4. AllFit(bucket)' /\ QueuedJobs' = QueuedJobs \cup {j}
    <2>1. Contents(b) \cap (QueuedJobs \ Contents(bucket[p])) = {}
      BY <1>1, <1>3
    <2>2. Contents(bucket[p]) \subseteq QueuedJobs
      BY DEF QueuedJobs
    <2> QED
      BY <1>1, <1>3, <2>1, <2>2, OneBucket
  <1>5. IsFiniteSet(QueuedJobs') /\ Cardinality(QueuedJobs') <= MaxQueueSize
    <2>1. TotalJobs = Cardinality(QueuedJobs)
      BY <1>1, TotalIs
    <2>2. /\ IsFiniteSet(QueuedJobs \cup {j})
          /\ Cardinality(QueuedJobs \cup {j}) = Cardinality(QueuedJobs) + 1
          /\ Cardinality(QueuedJobs) \in Nat
      BY <1>1, FS_AddElement, FS_CardinalityType
    <2>3. MaxQueueSize \in Nat
      BY LimitsAssumption
    <2> QED
      BY <1>1, <1>4, <2>1, <2>2, <2>3
  <1>6. QueueInv'
    BY <1>1, <1>4, <1>5 DEF QueueInv
  <1>7. LimitInv'
    BY <1>1 DEF IInv, LimitInv, LimitsHold
  <1>8. TypeOK'
    <2>1. bucket' \in [Priority -> Bucket]
      BY <1>4 DEF AllFit, Bucket
    <2>2. age' = [age EXCEPT ![j] = 0] /\ future' = [future EXCEPT ![j] = "waiting"]
      BY DEF Submit
    <2>3. 0 \in 0 .. NormalAge
      BY LimitsAssumption
    <2> QED
      BY <1>1, <2>1, <2>2, <2>3 DEF IInv, TypeOK, Bucket
  <1> QED
    BY <1>6, <1>7, <1>8 DEF IInv

LEMMA SameBuckets ==
  ASSUME UNCHANGED bucket
  PROVE  (AllFit(bucket) => AllFit(bucket)') /\ QueuedJobs' = QueuedJobs
  <1>1. QueuedJobs' = QueuedJobs
    BY DEF QueuedJobs, Contents, Range
  <1>2. ASSUME AllFit(bucket) PROVE AllFit(bucket)'
    <2>1. /\ bucket' \in [Priority -> Bucket] /\ \A p \in Priority : Fit(bucket'[p])
          /\ \A p, q \in Priority : p # q => Contents(bucket'[p]) \cap Contents(bucket'[q]) = {}
      BY <1>2 DEF AllFit
    <2> QED
      BY <2>1 DEF AllFit, Fit, Contents, Bucket, Range, IsInjective
  <1> QED
    BY <1>1, <1>2

LEMMA CancelStep ==
  ASSUME IInv, NEW j \in Jobs, Cancel(j)
  PROVE  IInv'
  <1>1. /\ future' = [future EXCEPT ![j] = "cancelled"]
        /\ UNCHANGED <<bucket, age, executing, runningCount, tenantRunning, workers, phase>>
    BY DEF Cancel
  <1>2. QueueInv'
    BY <1>1, SameBuckets DEF IInv, QueueInv
  <1>3. LimitInv'
    BY <1>1 DEF IInv, LimitInv, LimitsHold
  <1>4. TypeOK'
    BY <1>1 DEF IInv, TypeOK
  <1> QED
    BY <1>2, <1>3, <1>4 DEF IInv

(* How many of some jobs a tenant has.                                     *)
CountOf(S, t) == Cardinality({i \in S : Tenant[i] = t})

(* The counters of what runs when one more job runs.                       *)
LEMMA OneMoreRuns ==
  ASSUME IsFiniteSet(executing), NEW j \in Jobs, j \notin executing, NEW t
  PROVE  /\ IsFiniteSet(executing \cup {j})
         /\ Cardinality(executing \cup {j}) = Cardinality(executing) + 1
         /\ Tenant[j] = t => CountOf(executing \cup {j}, t) = CountOf(executing, t) + 1
         /\ Tenant[j] # t => CountOf(executing \cup {j}, t) = CountOf(executing, t)
  <1> DEFINE runs == {i \in executing : Tenant[i] = t}
             will == {i \in executing \cup {j} : Tenant[i] = t}
  <1>1. /\ IsFiniteSet(executing \cup {j})
        /\ Cardinality(executing \cup {j}) = Cardinality(executing) + 1
    BY FS_AddElement
  <1>2. IsFiniteSet(runs) /\ j \notin runs
    BY FS_Subset
  <1>3. will = IF Tenant[j] = t THEN runs \cup {j} ELSE runs
    OBVIOUS
  <1> HIDE DEF runs, will
  <1>4. Cardinality(runs \cup {j}) = Cardinality(runs) + 1
    BY <1>2, FS_AddElement
  <1>5. Cardinality(will) = IF Tenant[j] = t THEN Cardinality(runs) + 1 ELSE Cardinality(runs)
    BY <1>3, <1>4
  <1> QED
    BY <1>1, <1>5 DEF runs, will, CountOf

LEMMA OneLessRuns ==
  ASSUME IsFiniteSet(executing), executing \subseteq Jobs, NEW j \in executing, NEW t
  PROVE  /\ IsFiniteSet(executing \ {j})
         /\ Cardinality(executing) = Cardinality(executing \ {j}) + 1
         /\ Cardinality(executing \ {j}) \in Nat
         /\ Tenant[j] = t => CountOf(executing, t) = CountOf(executing \ {j}, t) + 1
         /\ Tenant[j] # t => CountOf(executing, t) = CountOf(executing \ {j}, t)
         /\ CountOf(executing \ {j}, t) \in Nat
  <1> DEFINE runs == {i \in executing : Tenant[i] = t}
             will == {i \in executing \ {j} : Tenant[i] = t}
  <1>1. IsFiniteSet(executing \ {j}) /\ Cardinality(executing \ {j}) \in Nat
    BY FS_Subset, FS_CardinalityType
  <1>2. Cardinality(executing) = Cardinality(executing \ {j}) + 1
    <2>1. Cardinality((executing \ {j}) \cup {j}) = Cardinality(executing \ {j}) + 1
      BY <1>1, FS_AddElement
    <2>2. (executing \ {j}) \cup {j} = executing
      OBVIOUS
    <2> QED
      BY <2>1, <2>2
  <1>3. IsFiniteSet(will) /\ Cardinality(will) \in Nat /\ j \notin will
    BY <1>1, FS_Subset, FS_CardinalityType
  <1>4. runs = IF Tenant[j] = t THEN will \cup {j} ELSE will
    OBVIOUS
  <1> HIDE DEF runs, will
  <1>5. Cardinality(will \cup {j}) = Cardinality(will) + 1
    BY <1>3, FS_AddElement
  <1>6. Cardinality(runs) = IF Tenant[j] = t THEN Cardinality(will) + 1 ELSE Cardinality(will)
    BY <1>4, <1>5
  <1> QED
    BY <1>1, <1>2, <1>3, <1>6 DEF runs, will, CountOf

LEMMA DispatchStep ==
  ASSUME IInv, Dispatch
  PROVE  IInv'
  <1>0. PICK p \in Priority : \E k \in Turns(bucket[p]) :
             /\ bucket' = [bucket EXCEPT ![p] = Pop(@, k)]
             /\ executing' = executing \cup {Pick(bucket[p], k)}
             /\ runningCount' = runningCount + 1
             /\ tenantRunning' = [tenantRunning EXCEPT ![At(bucket[p], k)] = @ + 1]
    BY DEF Dispatch
  <1> PICK k \in Turns(bucket[p]) :
             /\ bucket' = [bucket EXCEPT ![p] = Pop(@, k)]
             /\ executing' = executing \cup {Pick(bucket[p], k)}
             /\ runningCount' = runningCount + 1
             /\ tenantRunning' = [tenantRunning EXCEPT ![At(bucket[p], k)] = @ + 1]
    BY <1>0
  <1> DEFINE j == Pick(bucket[p], k)
             t == At(bucket[p], k)
             b == Pop(bucket[p], k)
  <1>1. /\ bucket' = [bucket EXCEPT ![p] = b] /\ executing' = executing \cup {j}
        /\ runningCount' = runningCount + 1
        /\ tenantRunning' = [tenantRunning EXCEPT ![t] = @ + 1]
    <2>1. bucket \in [Priority -> Bucket]
      BY DEF IInv, QueueInv, AllFit
    <2>2. [bucket EXCEPT ![p] = Pop(@, k)] = [bucket EXCEPT ![p] = Pop(bucket[p], k)]
      BY <2>1
    <2> QED
      BY <2>2
  <1>2. /\ runningCount < workers /\ UNCHANGED <<age, future, workers, phase>>
    BY DEF Dispatch
  <1>3. /\ AllFit(bucket) /\ Fit(bucket[p]) /\ IsFiniteSet(QueuedJobs)
        /\ Cardinality(QueuedJobs) <= MaxQueueSize /\ QueuedJobs \cap executing = {}
        /\ IsFiniteSet(executing) /\ executing \subseteq Jobs
    BY DEF IInv, QueueInv, LimitInv, AllFit, TypeOK
  <1>4. /\ Fit(b) /\ j \in Contents(bucket[p]) /\ j \in Jobs /\ Tenant[j] = t /\ t \in Tenants
        /\ Allowed(t) /\ Contents(b) = Contents(bucket[p]) \ {j}
    BY <1>1, <1>3, PopFacts
  <1> HIDE DEF j, t, b
  <1>5. AllFit(bucket)' /\ QueuedJobs' = QueuedJobs \ {j}
    <2>1. Contents(bucket[p]) \subseteq QueuedJobs
      BY DEF QueuedJobs
    <2>2. Contents(b) \cap (QueuedJobs \ Contents(bucket[p])) = {}
      BY <1>4
    <2>3. /\ AllFit(bucket)'
          /\ QueuedJobs' = (QueuedJobs \ Contents(bucket[p])) \cup Contents(b)
      BY <1>1, <1>3, <1>4, <2>2, OneBucket
    <2> QED
      BY <1>4, <2>1, <2>3
  <1>6. j \in QueuedJobs /\ j \notin executing
    BY <1>3, <1>4 DEF QueuedJobs
  <1>7. QueueInv'
    <2>1. IsFiniteSet(QueuedJobs') /\ Cardinality(QueuedJobs') <= Cardinality(QueuedJobs)
      BY <1>3, <1>5, FS_Subset
    <2>2. /\ Cardinality(QueuedJobs') \in Nat /\ Cardinality(QueuedJobs) \in Nat /\ MaxQueueSize \in Nat
      BY <1>3, <2>1, FS_CardinalityType, LimitsAssumption
    <2>3. QueuedJobs' \cap executing' = {}
      BY <1>1, <1>3, <1>5
    <2>4. Cardinality(QueuedJobs') <= MaxQueueSize
      BY <1>3, <2>1, <2>2
    <2> QED
      BY <1>5, <2>1, <2>3, <2>4 DEF QueueInv
  <1>8. LimitInv'
    <2>1. /\ IsFiniteSet(executing') /\ Cardinality(executing') = Cardinality(executing) + 1
      BY <1>1, <1>3, <1>6, FS_AddElement
    <2>2. /\ runningCount = Cardinality(executing) /\ tenantRunning \in [Tenants -> 0 .. MaxPerTenant]
          /\ runningCount \in Nat /\ workers \in Nat
          /\ \A s \in Tenants : tenantRunning[s] = Cardinality({i \in executing : Tenant[i] = s})
      BY LimitsAssumption DEF IInv, LimitInv, LimitsHold, TypeOK
    <2>3. ASSUME NEW s \in Tenants
          PROVE  tenantRunning'[s] = Cardinality({i \in executing' : Tenant[i] = s})
      <3>1. /\ Tenant[j] = s => CountOf(executing \cup {j}, s) = CountOf(executing, s) + 1
            /\ Tenant[j] # s => CountOf(executing \cup {j}, s) = CountOf(executing, s)
        BY <1>3, <1>4, <1>6, OneMoreRuns
      <3>2. tenantRunning'[s] = IF t = s THEN tenantRunning[s] + 1 ELSE tenantRunning[s]
        BY <1>1, <1>4, <2>2
      <3>3. tenantRunning[s] = CountOf(executing, s)
        BY <2>2 DEF CountOf
      <3>4. tenantRunning'[s] = CountOf(executing \cup {j}, s)
        BY <1>4, <3>1, <3>2, <3>3
      <3> QED
        BY <1>1, <3>4 DEF CountOf
    <2> QED
      BY <1>1, <1>2, <2>1, <2>2, <2>3 DEF LimitInv, LimitsHold
  <1>9. TypeOK'
    <2>1. bucket' \in [Priority -> Bucket]
      BY <1>5 DEF AllFit, Bucket
    <2>2. tenantRunning' \in [Tenants -> 0 .. MaxPerTenant]
      <3>1. tenantRunning \in [Tenants -> 0 .. MaxPerTenant] /\ MaxPerTenant \in Nat
        BY LimitsAssumption DEF IInv, TypeOK
      <3>2. tenantRunning[t] + 1 \in 0 .. MaxPerTenant
        BY <1>4, <3>1 DEF Allowed
      <3> QED
        BY <1>1, <1>4, <3>1, <3>2
    <2>3. runningCount' \in 0 .. MaxWorkers
      BY <1>1, <1>2, LimitsAssumption DEF IInv, TypeOK
    <2>4. executing' \subseteq Jobs
      BY <1>1, <1>3, <1>4
    <2> QED
      BY <1>2, <2>1, <2>2, <2>3, <2>4 DEF IInv, TypeOK, Bucket
  <1> QED
    BY <1>7, <1>8, <1>9 DEF IInv

LEMMA JobEndsStep ==
  ASSUME IInv, NEW j \in Jobs, JobEnds(j)
  PROVE  IInv'
  <1>1. /\ j \in executing
        /\ future' = [future EXCEPT ![j] = IF @ = "waiting" THEN "answered" ELSE @]
        /\ executing' = executing \ {j}
        /\ runningCount' = runningCount - 1
        /\ tenantRunning' = [tenantRunning EXCEPT ![Tenant[j]] = @ - 1]
        /\ UNCHANGED <<bucket, age, workers, phase>>
    BY DEF JobEnds
  <1>2. /\ IsFiniteSet(executing) /\ executing \subseteq Jobs
        /\ runningCount = Cardinality(executing) /\ runningCount \in 0 .. MaxWorkers
        /\ tenantRunning \in [Tenants -> 0 .. MaxPerTenant] /\ MaxPerTenant \in Nat
        /\ \A s \in Tenants : tenantRunning[s] = Cardinality({i \in executing : Tenant[i] = s})
        /\ runningCount <= workers /\ workers \in Nat /\ MaxWorkers \in Nat
        /\ Tenant[j] \in Tenants
    BY LimitsAssumption DEF IInv, LimitInv, LimitsHold, TypeOK
  <1>3. /\ IsFiniteSet(executing') /\ runningCount' = Cardinality(executing') /\ runningCount' \in Nat
    <2>1. /\ IsFiniteSet(executing \ {j}) /\ Cardinality(executing) = Cardinality(executing \ {j}) + 1
          /\ Cardinality(executing \ {j}) \in Nat
      BY <1>1, <1>2, OneLessRuns
    <2> QED
      BY <1>1, <1>2, <2>1
  <1>4. ASSUME NEW s \in Tenants
        PROVE  /\ tenantRunning'[s] = Cardinality({i \in executing' : Tenant[i] = s})
               /\ tenantRunning'[s] \in 0 .. MaxPerTenant
    <2>1. /\ Tenant[j] = s => CountOf(executing, s) = CountOf(executing \ {j}, s) + 1
          /\ Tenant[j] # s => CountOf(executing, s) = CountOf(executing \ {j}, s)
          /\ CountOf(executing \ {j}, s) \in Nat
      BY <1>1, <1>2, OneLessRuns
    <2>2. tenantRunning[s] = CountOf(executing, s) /\ tenantRunning[s] \in 0 .. MaxPerTenant
      BY <1>2 DEF CountOf
    <2>3. CountOf(executing \ {j}, s) = Cardinality({i \in executing' : Tenant[i] = s})
      BY <1>1 DEF CountOf
    <2>4. tenantRunning'[s] = IF Tenant[j] = s THEN tenantRunning[s] - 1 ELSE tenantRunning[s]
      BY <1>1, <1>2
    <2> QED
      BY <1>2, <2>1, <2>2, <2>3, <2>4
  <1>5. LimitInv'
    BY <1>1, <1>2, <1>3, <1>4 DEF LimitInv, LimitsHold
  <1>6. QueueInv'
    BY <1>1, SameBuckets DEF IInv, QueueInv
  <1>7. TypeOK'
    <2>1. tenantRunning' \in [Tenants -> 0 .. MaxPerTenant]
      BY <1>1, <1>2, <1>4
    <2>2. runningCount' \in 0 .. MaxWorkers
      BY <1>1, <1>2, <1>3
    <2>3. future' \in [Jobs -> {"none", "waiting", "answered", "cancelled", "shutdown"}]
      BY <1>1 DEF IInv, TypeOK
    <2> QED
      BY <1>1, <1>2, <2>1, <2>2, <2>3 DEF IInv, TypeOK
  <1> QED
    BY <1>5, <1>6, <1>7 DEF IInv

LEMMA AgingStep ==
  ASSUME IInv, AgingPass
  PROVE  IInv'
  <1> DEFINE older == [j \in Jobs |-> IF j \in QueuedJobs /\ age[j] < NormalAge
                                      THEN age[j] + 1 ELSE age[j]]
  <1>1. /\ age' = older /\ \E tenants \in SetToSeqs(Tenants) : Aged(older, tenants)
        /\ UNCHANGED <<future, executing, runningCount, tenantRunning, workers, phase>>
    BY DEF AgingPass
  <1>2. PICK tenants \in SetToSeqs(Tenants) : Aged(older, tenants)
    BY <1>1
  <1> DEFINE low == {j \in QueuedJobs : older[j] >= LowAge}
             due == {j \in QueuedJobs : older[j] >= NormalAge}
             first == Promote(bucket, "low", "normal", low, tenants)
             both == Promote(first, "normal", "high", due, tenants)
  <1>3. bucket' = both
    BY <1>2 DEF Aged
  <1> HIDE DEF low, due
  <1>4. AllFit(bucket) /\ "low" \in Priority /\ "normal" \in Priority /\ "high" \in Priority
    BY DEF IInv, QueueInv, Priority
  <1>5. AllFit(first) /\ QueuedIn(first) = QueuedIn(bucket)
    BY <1>4, PromoteFacts
  <1> HIDE DEF first
  <1>6. AllFit(both) /\ QueuedIn(both) = QueuedIn(first)
    BY <1>4, <1>5, PromoteFacts
  <1> HIDE DEF both
  <1>7. /\ bucket' \in [Priority -> Bucket] /\ \A p \in Priority : Fit(bucket'[p])
        /\ \A p, q \in Priority : p # q => Contents(bucket'[p]) \cap Contents(bucket'[q]) = {}
    BY <1>3, <1>6 DEF AllFit
  <1>8. AllFit(bucket)'
    BY <1>7 DEF AllFit, Fit, Contents, Bucket, Range, IsInjective
  <1>9. QueuedJobs' = QueuedJobs
    <2>1. QueuedIn(bucket') = QueuedIn(bucket)
      BY <1>3, <1>5, <1>6
    <2>2. QueuedJobs' = QueuedIn(bucket')
      BY DEF QueuedJobs, QueuedIn, Contents, Range
    <2> QED
      BY <2>1, <2>2, QueuedIs
  <1>10. QueueInv'
    BY <1>1, <1>8, <1>9 DEF IInv, QueueInv
  <1>11. LimitInv'
    BY <1>1 DEF IInv, LimitInv, LimitsHold
  <1>12. TypeOK'
    <2>1. bucket' \in [Priority -> Bucket]
      BY <1>7
    <2>2. age' \in [Jobs -> 0 .. NormalAge]
      <3>1. age \in [Jobs -> 0 .. NormalAge] /\ NormalAge \in Nat
        BY LimitsAssumption DEF IInv, TypeOK
      <3> QED
        BY <1>1, <3>1
    <2> QED
      BY <1>1, <2>1, <2>2 DEF IInv, TypeOK, Bucket
  <1> QED
    BY <1>10, <1>11, <1>12 DEF IInv

LEMMA ScaleStep ==
  ASSUME IInv, NEW n \in MinWorkers .. MaxWorkers, Scale(n)
  PROVE  IInv'
  <1>1. /\ workers' = n /\ (n < workers => runningCount = 0)
        /\ UNCHANGED <<bucket, age, future, executing, runningCount, tenantRunning, phase>>
    BY DEF Scale
  <1>2. QueueInv'
    BY <1>1, SameBuckets DEF IInv, QueueInv
  <1>3. runningCount' <= workers'
    <2>1. runningCount <= workers /\ runningCount \in Nat /\ workers \in Nat /\ n \in Nat
      BY LimitsAssumption DEF IInv, LimitInv, LimitsHold, TypeOK
    <2> QED
      BY <1>1, <2>1
  <1>4. LimitInv'
    BY <1>1, <1>3 DEF IInv, LimitInv, LimitsHold
  <1>5. TypeOK'
    BY <1>1 DEF IInv, TypeOK
  <1> QED
    BY <1>2, <1>4, <1>5 DEF IInv

(* Stopping the loops and answering what is queued leave buckets and       *)
(* counters alone.                                                         *)
LEMMA StopSteps ==
  ASSUME IInv, Stop \/ StopAnswers \/ UNCHANGED vars
  PROVE  IInv'
  <1>1. UNCHANGED <<bucket, age, executing, runningCount, tenantRunning, workers>>
    BY DEF Stop, StopAnswers, vars
  <1>2. QueueInv'
    BY <1>1, SameBuckets DEF IInv, QueueInv
  <1>3. LimitInv'
    BY <1>1 DEF IInv, LimitInv, LimitsHold
  <1>4. /\ phase' \in {"up", "stopping", "down"}
        /\ future' \in [Jobs -> {"none", "waiting", "answered", "cancelled", "shutdown"}]
    BY DEF Stop, StopAnswers, vars, IInv, TypeOK
  <1>5. TypeOK'
    BY <1>1, <1>4 DEF IInv, TypeOK
  <1> QED
    BY <1>2, <1>3, <1>5 DEF IInv

LEMMA InitInv == Init => IInv
  <1> SUFFICES ASSUME Init PROVE IInv
    OBVIOUS
  <1> DEFINE none == [t \in Tenants |-> <<>>]
             b == [queue |-> none, order |-> <<>>, index |-> 0]
  <1>1. b \in Bucket /\ b.order = <<>> /\ b.index = 0 /\ \A t \in Tenants : b.queue[t] = <<>>
    <2>1. none \in [Tenants -> Seq(Jobs)] /\ \A t \in Tenants : none[t] = <<>>
      OBVIOUS
    <2> HIDE DEF none
    <2> QED
      BY <2>1 DEF Bucket
  <1>2. \A p \in Priority : bucket[p] = b
    BY DEF Init
  <1>3. bucket = [p \in Priority |-> b]
    BY DEF Init
  <1> HIDE DEF b
  <1>4. Range(<<>>) = {} /\ IsInjective(<<>>)
    BY DEF Range, IsInjective
  <1>5. Fit(b) /\ Contents(b) = {}
    BY <1>1, <1>4 DEF Fit, Contents
  <1>6. AllFit(bucket) /\ QueuedJobs = {}
    BY <1>1, <1>2, <1>3, <1>5 DEF AllFit, QueuedJobs
  <1>7. executing = {} /\ runningCount = 0 /\ workers = MinWorkers
        /\ tenantRunning = [t \in Tenants |-> 0]
    BY DEF Init
  <1>8. QueueInv
    BY <1>6, <1>7, FS_EmptySet, LimitsAssumption DEF QueueInv
  <1>9. LimitInv
    <2>1. \A t \in Tenants : {j \in executing : Tenant[j] = t} = {}
      BY <1>7
    <2> QED
      BY <1>7, <2>1, FS_EmptySet, LimitsAssumption DEF LimitInv, LimitsHold
  <1>10. TypeOK
    <2>1. bucket \in [Priority -> Bucket]
      BY <1>6 DEF AllFit
    <2> QED
      BY <1>7, <2>1, LimitsAssumption DEF Init, TypeOK, Bucket
  <1> QED
    BY <1>8, <1>9, <1>10 DEF IInv

(***************************************************************************)
(* The theorems.                                                           *)
(***************************************************************************)

(* The inductive invariant holds of every behaviour of the scheduler.      *)
THEOREM Invariance == Spec => []IInv
  <1>1. Init => IInv
    BY InitInv
  <1>2. IInv /\ [Next]_vars => IInv'
    <2> SUFFICES ASSUME IInv, [Next]_vars PROVE IInv'
      OBVIOUS
    <2>1. ASSUME NEW j \in Jobs, NEW p \in Priority, Submit(j, p) PROVE IInv'
      BY <2>1, SubmitStep
    <2>2. ASSUME NEW j \in Jobs, Cancel(j) PROVE IInv'
      BY <2>2, CancelStep
    <2>3. ASSUME NEW j \in Jobs, JobEnds(j) PROVE IInv'
      BY <2>3, JobEndsStep
    <2>4. ASSUME Dispatch PROVE IInv'
      BY <2>4, DispatchStep
    <2>5. ASSUME AgingPass PROVE IInv'
      BY <2>5, AgingStep
    <2>6. ASSUME NEW n \in MinWorkers .. MaxWorkers, Scale(n) PROVE IInv'
      BY <2>6, ScaleStep
    <2>7. ASSUME Stop \/ StopAnswers \/ UNCHANGED vars PROVE IInv'
      BY <2>7, StopSteps
    <2> QED
      BY <2>1, <2>2, <2>3, <2>4, <2>5, <2>6, <2>7 DEF Next
  <1> QED
    BY <1>1, <1>2, PTL DEF Spec

(* The state of the scheduler and of its buckets always has its types.     *)
THEOREM TypeCorrect == Spec => []TypeOK
  <1>1. IInv => TypeOK
    BY DEF IInv
  <1> QED
    BY <1>1, Invariance, PTL

(* However requests arrive, leave, age and are taken in turn, the rotation *)
(* of a bucket names the tenants with queued jobs, each once, its index is *)
(* a place in it, and no job is queued twice or queued while it executes.  *)
THEOREM BucketsSound == Spec => []BucketsAreSound
  <1>1. IInv => BucketsAreSound
    <2> SUFFICES ASSUME IInv PROVE BucketsAreSound
      OBVIOUS
    <2>1. AllFit(bucket) /\ IsFiniteSet(QueuedJobs) /\ QueuedJobs \cap executing = {}
      BY DEF IInv, QueueInv
    <2>2. TotalJobs = Cardinality(QueuedJobs)
      BY <2>1, TotalIs
    <2>3. ASSUME NEW p \in Priority
          PROVE  Len(bucket[p].order) = Cardinality(Range(bucket[p].order))
      <3> DEFINE o == bucket[p].order
                 n == Len(o)
      <3>1. o \in Seq(Tenants) /\ IsInjective(o) /\ n \in Nat
        BY <2>1, BucketFacts DEF AllFit, Fit
      <3> HIDE DEF o
      <3>2. o \in Bijection(1 .. n, Range(o))
        <4>1. o \in [1 .. n -> Range(o)] /\ Range(o) = {o[i] : i \in 1 .. n}
          BY <3>1, RangeFacts DEF Range
        <4>2. \A i, k \in 1 .. n : o[i] = o[k] => i = k
          BY <3>1, RangeFacts
        <4> QED
          BY <4>1, <4>2 DEF Bijection, Injection, Surjection, IsInjective
      <3> HIDE DEF n
      <3>3. ExistsBijection(1 .. n, Range(o))
        BY <3>2 DEF ExistsBijection
      <3> QED
        BY <3>1, <3>3, FS_CountingElements DEF n, o
    <2>4. ASSUME NEW p \in Priority
          PROVE  /\ Range(bucket[p].order) = {t \in Tenants : bucket[p].queue[t] # <<>>}
                 /\ bucket[p].index < Len(bucket[p].order) \/ bucket[p].index = 0
                 /\ \A t \in Tenants : \A j \in Range(bucket[p].queue[t]) : Tenant[j] = t
      BY <2>1 DEF AllFit, Fit
    <2> QED
      BY <2>1, <2>2, <2>3, <2>4 DEF BucketsAreSound
  <1> QED
    BY <1>1, Invariance, PTL

(* What the counters say is what runs, and the limits are kept, also while *)
(* the number of workers changes.                                          *)
THEOREM LimitsKept == Spec => []LimitsHold
  <1>1. IInv => LimitsHold
    BY DEF IInv, LimitInv
  <1> QED
    BY <1>1, Invariance, PTL

(* From any place of the rotation every other is some places away.         *)
LEMMA ModReaches ==
  ASSUME NEW n \in Nat \ {0}, NEW a \in 0 .. n - 1, NEW x \in 1 .. n
  PROVE  \E k \in 0 .. n - 1 : ((a + k) % n) + 1 = x
  <1>1. CASE x - 1 >= a
    <2>1. x - 1 - a \in 0 .. n - 1 /\ a + (x - 1 - a) = x - 1
      BY <1>1
    <2>2. (x - 1) % n = x - 1
      OBVIOUS
    <2> QED
      BY <2>1, <2>2
  <1>2. CASE x - 1 < a
    <2>1. PICK k \in 0 .. n - 1 : k = x - 1 - a + n
      BY <1>2
    <2>2. PICK c \in Nat : c = x - 1 + n
      OBVIOUS
    <2>3. a + k = c
      BY <2>1, <2>2
    <2>4. c % n = x - 1
      BY <2>2
    <2>5. (a + k) % n = x - 1
      BY <2>3, <2>4
    <2> QED
      BY <2>5
  <1> QED
    BY <1>1, <1>2

(* A bucket has a turn iff one of its jobs belongs to a tenant below its   *)
(* limit, and then exactly one.                                            *)
LEMMA TurnFacts ==
  ASSUME NEW b, Fit(b)
  PROVE  /\ Turns(b) # {} <=> \E j \in Contents(b) : Allowed(Tenant[j])
         /\ \A k, l \in Turns(b) : k = l
  <1> DEFINE n == Len(b.order)
             K == {k \in 0 .. n - 1 : Allowed(At(b, k))}
  <1>1. /\ b \in Bucket /\ b.order \in Seq(Tenants) /\ b.index \in Nat /\ n \in Nat
        /\ \A s \in Tenants : b.queue[s] \in Seq(Jobs)
        /\ Range(b.order) = {s \in Tenants : b.queue[s] # <<>>}
        /\ Range(b.order) = {b.order[i] : i \in 1 .. n}
        /\ b.index < n \/ b.index = 0
        /\ \A t \in Tenants : \A j \in Range(b.queue[t]) : Tenant[j] = t
    BY BucketFacts, RangeFacts DEF Fit
  <1>2. \A k, l \in Turns(b) : k = l
    <2> SUFFICES ASSUME NEW k \in Turns(b), NEW l \in Turns(b), k < l PROVE FALSE
      BY <1>1 DEF Turns
    <2> QED
      BY <1>1 DEF Turns
  <1>3. ASSUME NEW j \in Contents(b), Allowed(Tenant[j]) PROVE Turns(b) # {}
    <2>1. PICK t \in Tenants : j \in Range(b.queue[t])
      BY <1>1, BucketFacts
    <2>2. Tenant[j] = t /\ b.queue[t] # <<>>
      BY <1>1, <2>1, RangeFacts
    <2>3. PICK x \in 1 .. n : b.order[x] = t
      BY <1>1, <2>2
    <2>4. n \in Nat \ {0} /\ b.index \in 0 .. n - 1
      BY <1>1, <2>3
    <2>5. PICK k \in 0 .. n - 1 : ((b.index + k) % n) + 1 = x
      <3> HIDE DEF n
      <3> QED
        BY <2>4, ModReaches
    <2>6. k \in K
      BY <1>3, <2>2, <2>3, <2>5 DEF At
    <2>7. K \in SUBSET Nat /\ K # {}
      BY <1>1, <2>6
    <2>8. PICK m \in K : \A y \in K : m <= y
      <3> HIDE DEF K
      <3> QED
        BY <2>7, NatMin
    <2>9. \A i \in 0 .. m - 1 : i \in 0 .. n - 1 /\ ~(m <= i)
      BY <1>1, <2>8
    <2>10. m \in Turns(b)
      BY <2>8, <2>9 DEF Turns
    <2> QED
      BY <2>10
  <1>4. ASSUME NEW k \in Turns(b) PROVE \E j \in Contents(b) : Allowed(Tenant[j])
    BY <1>4, PopFacts
  <1> QED
    BY <1>2, <1>3, <1>4

(* pop_next_round_robin and _worker_loop: a pass over the buckets misses no*)
(* queued job whose tenant is below its limit, so workers are idle only for*)
(* want of jobs or because of the limits.                                  *)
THEOREM NobodyMissed == Spec => []NothingAllowedIsMissed
  <1>1. IInv => NothingAllowedIsMissed
    <2> SUFFICES ASSUME IInv PROVE NothingAllowedIsMissed
      OBVIOUS
    <2>1. \A p \in Priority : Fit(bucket[p])
      BY DEF IInv, QueueInv, AllFit
    <2>2. \A p \in Priority :
             /\ Turns(bucket[p]) # {} <=> \E j \in Contents(bucket[p]) : Allowed(Tenant[j])
             /\ \A k, l \in Turns(bucket[p]) : k = l
      BY <2>1, TurnFacts
    <2>3. \A p, q \in Priority : Found(p) /\ Found(q) => p = q
      BY DEF Found, Priority, Level
    <2>4. (\E p \in Priority : Found(p)) <=> \E p \in Priority : Turns(bucket[p]) # {}
      BY DEF Found, Priority, Level
    <2>5. (\E p \in Priority : Found(p)) <=> \E j \in QueuedJobs : Allowed(Tenant[j])
      BY <2>2, <2>4 DEF QueuedJobs
    <2>6. executing = {} /\ QueuedJobs # {} => \E j \in QueuedJobs : Allowed(Tenant[j])
      <3> SUFFICES ASSUME executing = {}, NEW j \in QueuedJobs PROVE Allowed(Tenant[j])
        OBVIOUS
      <3>1. j \in Jobs
        BY <2>1, BucketFacts DEF QueuedJobs, Fit
      <3>2. {i \in executing : Tenant[i] = Tenant[j]} = {} /\ Cardinality({}) = 0
        BY FS_EmptySet
      <3>3. Tenant[j] \in Tenants
        BY <3>1, LimitsAssumption
      <3>4. tenantRunning[Tenant[j]] = 0
        BY <3>2, <3>3 DEF IInv, LimitInv, LimitsHold
      <3> QED
        BY <3>4, LimitsAssumption DEF Allowed
    <2> QED
      BY <2>2, <2>3, <2>5, <2>6 DEF NothingAllowedIsMissed
  <1> QED
    BY <1>1, Invariance, PTL
=============================================================================
