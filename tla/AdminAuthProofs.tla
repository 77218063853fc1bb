--------------------------- MODULE AdminAuthProofs ---------------------------
(* Theorems about AdminAuth, for any users, limits and lock times.            *)
EXTENDS AdminAuth, TLAPS

\* The failures of a user are in the order of the clock.
InOrder(u) ==
    /\ \A i \in 1..Len(times[u]) : times[u][i] <= now
    /\ \A i, j \in 1..Len(times[u]) : i <= j => times[u][i] <= times[u][j]

\* The last count failures came after the last lock; what is before them is at
\* least LOCK_SECONDS old.
Counted(u, count) ==
    /\ count < MAX_FAILURES
    /\ count <= Len(times[u])
    /\ \A i \in 1..Len(times[u]) : i + count <= Len(times[u]) => times[u][i] + LOCK_SECONDS <= now

\* A lock stands for the last failure.
LockSet(u) ==
    /\ Len(times[u]) >= MAX_FAILURES
    /\ fails[u].until = times[u][Len(times[u])] + LOCK_SECONDS

EntryExplained(u) ==
    IF fails[u].until = 0 THEN Counted(u, fails[u].count) ELSE LockSet(u)

SpreadOf(u) ==
    \A i \in 1..Len(times[u]) :
        i + MAX_FAILURES <= Len(times[u]) =>
            times[u][i + MAX_FAILURES] >= times[u][i] + LOCK_SECONDS

\* The failures go in rounds of MAX_FAILURES: whole rounds, and those of the counter,
\* which is full when there is a lock and empty only at the beginning.
InRounds(u) ==
    \E k \in Nat :
        /\ Len(times[u]) = k * MAX_FAILURES + fails[u].count
        /\ IF fails[u].until = 0
           THEN fails[u].count < MAX_FAILURES /\ (fails[u].count = 0 => k = 0)
           ELSE fails[u].count = MAX_FAILURES

Explained(u) == InOrder(u) /\ EntryExplained(u) /\ SpreadOf(u) /\ InRounds(u)

IInv == TypeOK /\ \A u \in Users : Explained(u)

-----------------------------------------------------------------------------

\* A failure that is counted makes at most MAX_FAILURES since the last lock.
LEMMA FailureTyped ==
    ASSUME NEW e \in [count : 0..MAX_FAILURES, until : Nat], e.count < MAX_FAILURES,
           TypeOK
    PROVE  Failure(e) \in [count : 0..MAX_FAILURES, until : Nat]
  BY AdminAuthAssumption DEF Failure, TypeOK

\* Whoever is not locked has an entry that counts failures since the last lock.
LEMMA EntryIsCounted ==
    ASSUME TypeOK, NEW u \in Users, Explained(u), ~Locked(u)
    PROVE  Counted(u, Entry(u).count)
<1> DEFINE n == Len(times[u])
<1>1. times[u] \in Seq(Nat) /\ n \in Nat /\ now \in Nat
  BY DEF TypeOK
<1>2. fails[u] \in [count : 0..MAX_FAILURES, until : Nat]
  BY DEF TypeOK
<1>3. CASE fails[u].until = 0
  BY <1>3 DEF Explained, EntryExplained, Entry
<1>4. CASE fails[u].until # 0
  <2>1. Entry(u).count = 0
    BY <1>4 DEF Entry, NoEntry
  <2>2. LockSet(u) /\ InOrder(u)
    BY <1>4 DEF Explained, EntryExplained
  <2>3. times[u][n] + LOCK_SECONDS <= now
    BY <1>1, <1>2, <1>4, <2>2 DEF Locked, LockSet
  <2>4. n \in 1..n
    BY <1>1, <2>2, AdminAuthAssumption DEF LockSet
  <2>5. ASSUME NEW i \in 1..n PROVE times[u][i] + LOCK_SECONDS <= now
    <3>1. times[u][i] \in Nat /\ times[u][n] \in Nat
      BY <1>1, <2>4
    <3>2. times[u][i] <= times[u][n]
      BY <1>1, <2>2, <2>4 DEF InOrder
    <3> QED BY <1>1, <2>3, <3>1, <3>2, AdminAuthAssumption
  <2> QED BY <1>1, <2>1, <2>5, AdminAuthAssumption DEF Counted
<1> QED BY <1>3, <1>4

\* One more failure keeps what is known of a user.
LEMMA FailKeeps ==
    ASSUME IInv, NEW u \in Users, Fail(u)
    PROVE  Explained(u)'
<1> DEFINE s == times[u]
           n == Len(times[u])
           e == Entry(u)
<1>1. s \in Seq(Nat) /\ n \in Nat /\ now \in Nat
  BY DEF IInv, TypeOK
<1>2. e \in [count : 0..MAX_FAILURES, until : Nat] /\ Counted(u, e.count)
  <2>1. fails[u] \in [count : 0..MAX_FAILURES, until : Nat]
    BY DEF IInv, TypeOK
  <2>2. e \in [count : 0..MAX_FAILURES, until : Nat]
    BY <2>1, AdminAuthAssumption DEF Entry, NoEntry
  <2> QED BY <2>2, EntryIsCounted DEF IInv, Fail
<1>3. /\ times'[u] = Append(s, now) /\ now' = now
      /\ fails'[u] = Failure(e)
  BY DEF Fail, IInv, TypeOK
<1>4. /\ Len(times'[u]) = n + 1
      /\ times'[u][n + 1] = now
      /\ \A i \in 1..n : times'[u][i] = s[i] /\ s[i] \in Nat
  BY <1>1, <1>3
<1> HIDE DEF e
<1>5. InOrder(u)'
  <2>1. \A i \in 1..n : s[i] <= now
    BY DEF IInv, Explained, InOrder
  <2>2. \A i, j \in 1..n : i <= j => s[i] <= s[j]
    BY DEF IInv, Explained, InOrder
  <2>3. ASSUME NEW i \in 1..(n + 1) PROVE times'[u][i] <= now
    <3>1. CASE i \in 1..n
      BY <1>4, <2>1, <3>1
    <3>2. CASE i = n + 1
      BY <1>1, <1>4, <3>2
    <3> QED BY <1>1, <3>1, <3>2
  <2>4. ASSUME NEW i \in 1..(n + 1), NEW j \in 1..(n + 1), i <= j
        PROVE  times'[u][i] <= times'[u][j]
    <3>1. CASE j = n + 1
      BY <1>4, <2>3, <3>1
    <3>2. CASE j \in 1..n
      <4>1. i \in 1..n
        BY <1>1, <2>4, <3>2
      <4> QED BY <1>4, <2>2, <2>4, <3>2, <4>1
    <3> QED BY <1>1, <3>1, <3>2
  <2> QED BY <1>3, <1>4, <2>3, <2>4 DEF InOrder
<1>6. EntryExplained(u)'
  <2>1. CASE e.count + 1 >= MAX_FAILURES
    <3>1. fails'[u].until = now + LOCK_SECONDS
      BY <1>3, <2>1 DEF Failure
    <3>2. n + 1 >= MAX_FAILURES
      BY <1>1, <1>2, <2>1, AdminAuthAssumption DEF Counted
    <3>3. fails'[u].until # 0
      BY <1>1, <3>1, AdminAuthAssumption
    <3>4. LockSet(u)'
      BY <1>3, <1>4, <3>1, <3>2 DEF LockSet
    <3> QED BY <3>3, <3>4 DEF EntryExplained
  <2>2. CASE e.count + 1 < MAX_FAILURES
    <3>1. fails'[u].until = 0 /\ fails'[u].count = e.count + 1
      BY <1>2, <1>3, <2>2, AdminAuthAssumption DEF Failure
    <3>2. ASSUME NEW i \in 1..(n + 1), i + (e.count + 1) <= n + 1
          PROVE  times'[u][i] + LOCK_SECONDS <= now
      <4>1. i \in 1..n /\ i + e.count <= n
        BY <1>1, <1>2, <3>2
      <4> QED BY <1>2, <1>4, <4>1 DEF Counted
    <3>3. e.count + 1 <= n + 1
      BY <1>1, <1>2 DEF Counted
    <3>4. Counted(u, fails[u].count)'
      BY <1>2, <1>3, <1>4, <2>2, <3>1, <3>2, <3>3 DEF Counted
    <3> QED BY <3>1, <3>4 DEF EntryExplained
  <2> QED BY <1>2, <2>1, <2>2, AdminAuthAssumption
<1>7. SpreadOf(u)'
  <2> SUFFICES ASSUME NEW i \in 1..(n + 1), i + MAX_FAILURES <= n + 1
               PROVE  times'[u][i + MAX_FAILURES] >= times'[u][i] + LOCK_SECONDS
    BY <1>4 DEF SpreadOf
  <2>1. i \in 1..n
    BY <1>1, AdminAuthAssumption
  <2>2. CASE i + MAX_FAILURES = n + 1
    <3>1. i + e.count <= n
      BY <1>1, <1>2, <2>2, AdminAuthAssumption DEF Counted
    <3>2. s[i] + LOCK_SECONDS <= now
      BY <1>2, <2>1, <3>1 DEF Counted
    <3> QED BY <1>1, <1>4, <2>1, <2>2, <3>2, AdminAuthAssumption
  <2>3. CASE i + MAX_FAILURES # n + 1
    <3>1. i + MAX_FAILURES \in 1..n
      BY <1>1, <2>1, <2>3, AdminAuthAssumption
    <3>2. s[i + MAX_FAILURES] >= s[i] + LOCK_SECONDS
      BY <1>1, <2>1, <3>1 DEF IInv, Explained, SpreadOf
    <3> QED BY <1>4, <2>1, <3>1, <3>2
  <2> QED BY <2>2, <2>3
<1>8. InRounds(u)'
  <2>1. PICK k \in Nat : /\ n = k * MAX_FAILURES + fails[u].count
                         /\ IF fails[u].until = 0
                            THEN fails[u].count < MAX_FAILURES
                            ELSE fails[u].count = MAX_FAILURES
    BY DEF IInv, Explained, InRounds
  <2>2. fails[u].count \in Nat
    BY DEF IInv, TypeOK
  <2>3. PICK j \in Nat : n = j * MAX_FAILURES + e.count
    <3>1. CASE fails[u].until = 0
      <4>1. e.count = fails[u].count
        BY <3>1 DEF e, Entry
      <4> QED BY <2>1, <4>1
    <3>2. CASE fails[u].until # 0
      <4>1. e.count = 0 /\ fails[u].count = MAX_FAILURES
        BY <2>1, <3>2 DEF e, Entry, NoEntry
      <4>2. (k + 1) * MAX_FAILURES = k * MAX_FAILURES + MAX_FAILURES
        BY <2>1, AdminAuthAssumption
      <4>3. n = (k + 1) * MAX_FAILURES + e.count
        BY <2>1, <4>1, <4>2, AdminAuthAssumption
      <4> QED BY <2>1, <4>3
    <3> QED BY <3>1, <3>2
  <2>4. j * MAX_FAILURES \in Nat /\ e.count \in Nat /\ e.count < MAX_FAILURES
    BY <1>2, <2>3, AdminAuthAssumption DEF Counted
  <2>5. Len(times'[u]) = j * MAX_FAILURES + (e.count + 1)
    BY <1>1, <1>4, <2>3, <2>4
  <2>6. fails'[u].count = e.count + 1
    BY <1>3 DEF Failure
  <2>7. IF fails'[u].until = 0 THEN e.count + 1 < MAX_FAILURES
                               ELSE e.count + 1 = MAX_FAILURES
    BY <1>1, <1>3, <2>4, AdminAuthAssumption DEF Failure
  <2>8. e.count + 1 # 0
    BY <2>4
  <2> QED BY <2>3, <2>5, <2>6, <2>7, <2>8 DEF InRounds
<1> QED BY <1>5, <1>6, <1>7, <1>8 DEF Explained

-----------------------------------------------------------------------------

LEMMA Initially == Init => IInv
<1> SUFFICES ASSUME Init PROVE IInv
  OBVIOUS
<1>1. TypeOK
  BY AdminAuthAssumption DEF Init, TypeOK, NoEntry
<1>2. ASSUME NEW u \in Users PROVE Explained(u)
  <2>1. times[u] = <<>> /\ fails[u] = NoEntry
    BY DEF Init
  <2>2. Len(times[u]) = 0 /\ 1..Len(times[u]) = {}
    BY <2>1
  <2>3. Counted(u, 0)
    BY <2>2, AdminAuthAssumption DEF Counted
  <2>4. InRounds(u)
    BY <2>1, <2>2, AdminAuthAssumption DEF InRounds, NoEntry
  <2> QED BY <2>1, <2>2, <2>3, <2>4 DEF Explained, InOrder, EntryExplained, SpreadOf, NoEntry
<1> QED BY <1>1, <1>2 DEF IInv

\* Each step keeps the types.
LEMMA TypeStep == IInv /\ [Next]_vars => TypeOK'
<1> SUFFICES ASSUME IInv, [Next]_vars PROVE TypeOK'
  OBVIOUS
<1> USE AdminAuthAssumption
<1>1. ASSUME NEW u \in Users, Refuse(u) PROVE TypeOK'
  BY <1>1 DEF Refuse, vars, IInv, TypeOK
<1>2. ASSUME NEW u \in Users, Fail(u) PROVE TypeOK'
  <2>1. Entry(u) \in [count : 0..MAX_FAILURES, until : Nat]
    BY DEF IInv, TypeOK, Entry, NoEntry
  <2>2. Entry(u).count < MAX_FAILURES
    BY <1>2, EntryIsCounted DEF IInv, Fail, Counted
  <2>3. Failure(Entry(u)) \in [count : 0..MAX_FAILURES, until : Nat]
    BY <2>1, <2>2, FailureTyped DEF IInv
  <2>4. Append(times[u], now) \in Seq(Nat)
    BY DEF IInv, TypeOK
  <2> QED BY <1>2, <2>3, <2>4 DEF Fail, IInv, TypeOK
<1>3. ASSUME NEW u \in Users, Succeed(u) PROVE TypeOK'
  <2>1. NoEntry \in [count : 0..MAX_FAILURES, until : Nat] /\ <<>> \in Seq(Nat)
    BY DEF NoEntry
  <2> QED BY <1>3, <2>1 DEF Succeed, IInv, TypeOK
<1>4. ASSUME NEW t \in Tokens, Logout(t) PROVE TypeOK'
  BY <1>4 DEF Logout, IInv, TypeOK
<1>5. CASE Tick
  BY <1>5 DEF Tick, IInv, TypeOK
<1>6. CASE UNCHANGED vars
  BY <1>6 DEF vars, IInv, TypeOK
<1> QED BY <1>1, <1>2, <1>3, <1>4, <1>5, <1>6 DEF Next

\* Time passes: what is old gets older.
LEMMA TickKeeps ==
    ASSUME IInv, Tick, NEW u \in Users
    PROVE  Explained(u)'
<1>1. times[u] \in Seq(Nat) /\ Len(times[u]) \in Nat /\ now \in Nat /\ now' = now + 1
  BY DEF IInv, TypeOK, Tick
<1>2. times' = times /\ fails' = fails
  BY DEF Tick
<1>3. \A i \in 1..Len(times[u]) : times[u][i] \in Nat
  BY <1>1
<1>4. InOrder(u)'
  BY <1>1, <1>2, <1>3 DEF IInv, Explained, InOrder
<1>5. EntryExplained(u)'
  <2>1. CASE fails[u].until = 0
    <3>1. Counted(u, fails[u].count)
      BY <2>1 DEF IInv, Explained, EntryExplained
    <3>2. \A i \in 1..Len(times[u]) : i + fails[u].count <= Len(times[u])
             => times[u][i] + LOCK_SECONDS <= now + 1
      BY <1>1, <1>3, <3>1, AdminAuthAssumption DEF Counted
    <3> QED BY <1>1, <1>2, <2>1, <3>1, <3>2 DEF EntryExplained, Counted
  <2>2. CASE fails[u].until # 0
    BY <1>2, <2>2 DEF IInv, Explained, EntryExplained, LockSet
  <2> QED BY <2>1, <2>2
<1>6. SpreadOf(u)'
  BY <1>2 DEF IInv, Explained, SpreadOf
<1>7. InRounds(u)'
  BY <1>2 DEF IInv, Explained, InRounds
<1> QED BY <1>4, <1>5, <1>6, <1>7 DEF Explained

\* Nothing changes for a user whose entry, history and clock stay.
LEMMA Untouched ==
    ASSUME NEW u \in Users, Explained(u),
           fails'[u] = fails[u], times'[u] = times[u], now' = now
    PROVE  Explained(u)'
  BY DEF Explained, InOrder, EntryExplained, Counted, LockSet, SpreadOf, InRounds

LEMMA Inductive == IInv /\ [Next]_vars => IInv'
<1> SUFFICES ASSUME IInv, [Next]_vars PROVE IInv'
  OBVIOUS
<1>1. TypeOK'
  BY TypeStep
<1>2. ASSUME NEW w \in Users PROVE Explained(w)'
  <2>1. Explained(w)
    BY DEF IInv
  <2>2. ASSUME NEW u \in Users, Refuse(u) PROVE Explained(w)'
    BY <2>1, <2>2, Untouched DEF Refuse, vars
  <2>3. ASSUME NEW u \in Users, Fail(u) PROVE Explained(w)'
    <3>1. CASE u = w
      BY <2>3, <3>1, FailKeeps
    <3>2. CASE u # w
      BY <2>1, <2>3, <3>2, Untouched DEF Fail, IInv, TypeOK
    <3> QED BY <3>1, <3>2
  <2>4. ASSUME NEW u \in Users, Succeed(u) PROVE Explained(w)'
    <3>1. CASE u = w
      <4>1. times'[w] = <<>> /\ fails'[w] = NoEntry
        BY <2>4, <3>1 DEF Succeed, IInv, TypeOK
      <4>2. Len(times'[w]) = 0 /\ 1..Len(times'[w]) = {}
        BY <4>1
      <4>3. Counted(w, 0)'
        BY <4>2, AdminAuthAssumption DEF Counted
      <4>4. InRounds(w)'
        BY <4>1, <4>2, AdminAuthAssumption DEF InRounds, NoEntry
      <4> QED BY <4>1, <4>2, <4>3, <4>4 DEF Explained, InOrder, EntryExplained, SpreadOf, NoEntry
    <3>2. CASE u # w
      BY <2>1, <2>4, <3>2, Untouched DEF Succeed, IInv, TypeOK
    <3> QED BY <3>1, <3>2
  <2>5. ASSUME NEW t \in Tokens, Logout(t) PROVE Explained(w)'
    BY <2>1, <2>5, Untouched DEF Logout
  <2>6. CASE Tick
    BY <2>6, TickKeeps
  <2>7. CASE UNCHANGED vars
    BY <2>1, <2>7, Untouched DEF vars
  <2> QED BY <2>2, <2>3, <2>4, <2>5, <2>6, <2>7 DEF Next
<1> QED BY <1>1, <1>2 DEF IInv

LEMMA Always == Spec => []IInv
  BY Initially, Inductive, PTL DEF Spec

-----------------------------------------------------------------------------

\* Every state has the declared types; in particular no count passes MAX_FAILURES.
THEOREM TypeCorrect == Spec => []TypeOK
<1>1. IInv => TypeOK
  BY DEF IInv
<1> QED BY <1>1, Always, PTL

\* auth.py:62, at most MAX_FAILURES failures of a user in any LOCK_SECONDS.
THEOREM SpreadCorrect == Spec => []FailuresAreSpread
<1>1. IInv => FailuresAreSpread
  BY DEF IInv, Explained, SpreadOf, FailuresAreSpread
<1> QED BY <1>1, Always, PTL

\* The rounds leave no other multiple of MAX_FAILURES than a full counter.
LEMMA FullRounds ==
    ASSUME NEW k \in Nat, NEW j \in Nat, NEW c \in Nat, c < MAX_FAILURES, c = 0 => k = 0,
           j # 0, j * MAX_FAILURES = k * MAX_FAILURES + c
    PROVE  FALSE
<1>1. MAX_FAILURES \in Nat /\ MAX_FAILURES > 0
  BY AdminAuthAssumption
<1>2. CASE j <= k
  <2>1. c # 0
    BY <1>2
  <2>2. j * MAX_FAILURES <= k * MAX_FAILURES
    BY <1>1, <1>2
  <2>3. j * MAX_FAILURES \in Nat /\ k * MAX_FAILURES \in Nat
    BY <1>1
  <2> QED BY <2>1, <2>2, <2>3
<1>3. CASE j > k
  <2>1. PICK i \in Nat : j = k + 1 + i
    <3>1. j - k - 1 \in Nat /\ j = k + 1 + (j - k - 1)
      BY <1>3
    <3> QED BY <3>1
  <2>2. (k + 1 + i) * MAX_FAILURES = k * MAX_FAILURES + MAX_FAILURES + i * MAX_FAILURES
    BY <1>1
  <2>3. k * MAX_FAILURES \in Nat /\ i * MAX_FAILURES \in Nat
    BY <1>1
  <2> QED BY <1>1, <2>1, <2>2, <2>3
<1> QED BY <1>2, <1>3

\* A user name is locked after every MAX_FAILURES-th failure since its last success, for
\* LOCK_SECONDS, and at no other time.
THEOREM LockCorrect == Spec => []LockIsExact
<1>1. ASSUME IInv, NEW u \in Users
      PROVE  LET n == Len(times[u])
             IN  Locked(u) <=> /\ \E k \in 1..n : n = k * MAX_FAILURES
                               /\ now < times[u][n] + LOCK_SECONDS
  <2> DEFINE n == Len(times[u])
  <2>1. n \in Nat /\ fails[u].count \in Nat /\ MAX_FAILURES \in Nat /\ MAX_FAILURES > 0
    BY <1>1, AdminAuthAssumption DEF IInv, TypeOK
  <2>2. PICK k \in Nat : /\ n = k * MAX_FAILURES + fails[u].count
                         /\ IF fails[u].until = 0
                            THEN fails[u].count < MAX_FAILURES /\ (fails[u].count = 0 => k = 0)
                            ELSE fails[u].count = MAX_FAILURES
    BY <1>1 DEF IInv, Explained, InRounds
  <2> HIDE DEF n
  <2>3. CASE fails[u].until = 0
    <3>1. ~\E j \in 1..n : n = j * MAX_FAILURES
      <4> SUFFICES ASSUME NEW j \in 1..n, n = j * MAX_FAILURES PROVE FALSE
        OBVIOUS
      <4>1. j \in Nat /\ j # 0 /\ j * MAX_FAILURES = k * MAX_FAILURES + fails[u].count
        BY <2>1, <2>2
      <4> QED BY <2>1, <2>2, <2>3, <4>1, FullRounds
    <3> QED BY <2>3, <3>1 DEF Locked, n
  <2>4. CASE fails[u].until # 0
    <3>1. n = (k + 1) * MAX_FAILURES
      <4>1. (k + 1) * MAX_FAILURES = k * MAX_FAILURES + MAX_FAILURES
        BY <2>1, <2>2
      <4> QED BY <2>2, <2>4, <4>1
    <3>2. k + 1 \in 1..n
      <4>1. (k + 1) * MAX_FAILURES >= k + 1
        BY <2>1, <2>2
      <4> QED BY <2>1, <2>2, <3>1, <4>1
    <3>3. fails[u].until = times[u][n] + LOCK_SECONDS
      BY <1>1, <2>4 DEF IInv, Explained, EntryExplained, LockSet, n
    <3>4. now \in Nat /\ times[u][n] \in Nat
      <4>1. times[u] \in Seq(Nat) /\ n \in 1..n
        BY <1>1, <2>1, <3>2 DEF IInv, TypeOK
      <4> QED BY <1>1, <4>1 DEF IInv, TypeOK, n
    <3>5. Locked(u) <=> now < times[u][n] + LOCK_SECONDS
      BY <2>4, <3>3, <3>4, AdminAuthAssumption DEF Locked
    <3> QED BY <3>1, <3>2, <3>5 DEF n
  <2> QED BY <2>3, <2>4
<1>2. IInv => LockIsExact
  BY <1>1 DEF LockIsExact
<1> QED BY <1>2, Always, PTL

=============================================================================
