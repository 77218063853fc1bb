------------------------------ MODULE AdminAuth ------------------------------
(***************************************************************************)
(* The administrator's login (server/auth.py, class AdminAuth): the        *)
(* counters that lock a user name after MAX_FAILURES failures, and the     *)
(* session tokens.  A login runs without an await, so it is one step; the  *)
(* clock, time.monotonic, moves between logins.                            *)
(***************************************************************************)
EXTENDS Naturals, Sequences

CONSTANTS
    Users,        \* user names that are tried
    Admin,        \* admin_user of the configuration
    Tokens,       \* session tokens still to be drawn
    MAX_FAILURES,
    LOCK_SECONDS,
    MaxNow        \* bound: the clock stops here

ASSUME AdminAuthAssumption ==
    /\ MAX_FAILURES \in Nat \ {0}
    /\ LOCK_SECONDS \in Nat \ {0}
    /\ MaxNow \in Nat

VARIABLES
    now,        \* time.monotonic
    fails,      \* _fails: count and lock_until of a user name, 0 for no lock
    sessions,   \* _sessions
    drawn,      \* tokens handed out so far
    times       \* auxiliary: when the logins of a user failed since one succeeded

vars == <<now, fails, sessions, drawn, times>>

NoEntry == [count |-> 0, until |-> 0]

TypeOK ==
    /\ now \in 1..(MaxNow + 1)
    /\ fails \in [Users -> [count : 0..MAX_FAILURES, until : Nat]]
    /\ sessions \subseteq drawn /\ drawn \subseteq Tokens
    /\ times \in [Users -> Seq(Nat)]

Init ==
    /\ now = 1
    /\ fails = [u \in Users |-> NoEntry]
    /\ sessions = {} /\ drawn = {}
    /\ times = [u \in Users |-> <<>>]

\* _is_locked, and the entry it leaves when a lock is over.
LockedOnBoundary(u) == fails[u].until # 0 /\ fails[u].until >= now
Locked(u) == fails[u].until # 0 /\ fails[u].until > now

EntryCounts(u) == [fails[u] EXCEPT !.until = 0]
Entry(u) == IF fails[u].until # 0 THEN NoEntry ELSE fails[u]

\* _record_failure of an entry.
FailureLate(e) ==
    [count |-> e.count + 1,
     until |-> IF e.count + 1 > MAX_FAILURES THEN now + LOCK_SECONDS ELSE 0]
Failure(e) ==
    [count |-> e.count + 1,
     until |-> IF e.count + 1 >= MAX_FAILURES THEN now + LOCK_SECONDS ELSE 0]

\* A locked user name is refused and nothing is counted.
Refuse(u) ==
    /\ Locked(u)
    /\ UNCHANGED vars

\* Another user name than the administrator's, or a wrong password.
Fail(u) ==
    /\ ~Locked(u)
    /\ fails' = [fails EXCEPT ![u] = Failure(Entry(u))]
    /\ times' = [times EXCEPT ![u] = Append(@, now)]
    /\ UNCHANGED <<now, sessions, drawn>>

Succeed(u) ==
    /\ ~Locked(u)
    /\ u = Admin
    /\ fails' = [fails EXCEPT ![u] = NoEntry]
    /\ \E t \in Tokens \ drawn :
          sessions' = sessions \cup {t} /\ drawn' = drawn \cup {t}
    /\ times' = [times EXCEPT ![u] = <<>>]
    /\ UNCHANGED now

Logout(t) ==
    /\ t \in sessions
    /\ sessions' = sessions \ {t}
    /\ UNCHANGED <<now, fails, drawn, times>>

Tick ==
    /\ now <= MaxNow
    /\ now' = now + 1
    /\ UNCHANGED <<fails, sessions, drawn, times>>

Next ==
    \/ \E u \in Users : Refuse(u) \/ Fail(u) \/ Succeed(u)
    \/ \E t \in Tokens : Logout(t)
    \/ Tick

Spec == Init /\ [][Next]_vars

-----------------------------------------------------------------------------

\* auth.py:62, the fifth failure locks for 15 minutes: no LOCK_SECONDS hold more
\* than MAX_FAILURES failed logins of a user name without a successful one,
\* however the failures are spread over locks that expire.
FailuresAreSpread ==
    \A u \in Users : \A i \in 1..Len(times[u]) :
        i + MAX_FAILURES <= Len(times[u]) =>
            times[u][i + MAX_FAILURES] >= times[u][i] + LOCK_SECONDS

\* Who is locked and when is exactly this, whatever the counter went through: a user
\* name after each MAX_FAILURES-th failure since its last success, for LOCK_SECONDS.
LockIsExact ==
    \A u \in Users :
        LET n == Len(times[u])
        IN  Locked(u) <=> /\ \E k \in 1..n : n = k * MAX_FAILURES
                          /\ now < times[u][n] + LOCK_SECONDS

=============================================================================
