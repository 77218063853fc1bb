-------------------------- MODULE SidecarExecProofs --------------------------
(***************************************************************************)
(* Theorems about SidecarExec, for every set of requests, items, commands  *)
(* and faults and every bound.                                             *)
(***************************************************************************)
EXTENDS SidecarExec, SequenceTheorems, TLAPS

USE SidecarExecAssumption

\* The types, with what the handler's place says of its job.
JobOK ==
    /\ job.pc # "idle" => job.req \in Requests
    /\ job.pc \in {"effect", "mark"} => job.todo # <<>>
    /\ job.pc = "mark" => job.item \in Items

Typed == TypeOK /\ JobOK

LEMMA NoJobType == NoJob \in Jobs
<1>1. <<>> \in Seq(Items \cup {None})
  OBVIOUS
<1>2. QED
  BY <1>1 DEF NoJob, Jobs, Steps

LEMMA CommandType ==
    ASSUME NEW r \in Requests
    PROVE  /\ Command[r].items \in Seq(Items \cup {None})
           /\ Command[r].intact \in BOOLEAN /\ Command[r].action \in Actions
OBVIOUS

LEMMA TypedInit == Init => Typed
<1> SUFFICES ASSUME Init PROVE Typed
  OBVIOUS
<1>1. managed \subseteq Items /\ present \subseteq Items
  BY DEF Init
<1>2. inbox \in Seq(Requests)
  BY DEF Init
<1>3. job \in Jobs /\ JobOK
  BY NoJobType DEF Init, JobOK, NoJob
<1>4. /\ retries \in [Requests -> Nat] /\ done \in [Requests -> Nat]
      /\ crashes \in 0..MaxCrashes
  BY DEF Init
<1>5. copies \in [Requests -> 0..MaxCopies]
  <2>1. PICK q \in Quotas : copies = [r \in Requests |-> MaxCopies - q[r]]
    BY DEF Init
  <2>2. \A r \in Requests : q[r] \in 0..MaxCopies
    OBVIOUS
  <2>3. QED
    BY <2>1, <2>2
<1>6. QED
  BY <1>1, <1>2, <1>3, <1>4, <1>5 DEF Init, Typed, TypeOK

\* The job of a handler that goes on after an item.
LEMMA GoesOnType ==
    ASSUME Typed, job.pc \in {"effect", "mark"}, NEW ok \in BOOLEAN,
           NEW did \in SUBSET Items, GoesOn(ok, did)
    PROVE  /\ job' \in Jobs /\ JobOK'
           /\ job'.req = job.req /\ job'.fresh = job.fresh /\ job'.ok = (job.ok /\ ok)
           /\ job'.todo = Tail(job.todo) /\ job'.did = did
           /\ job'.pc = IF Tail(job.todo) = <<>> THEN "log" ELSE "effect"
<1>1. job \in Jobs /\ job.todo # <<>> /\ job.req \in Requests
  BY DEF Typed, TypeOK, JobOK
<1>2. Tail(job.todo) \in Seq(Items \cup {None})
  BY <1>1 DEF Jobs
<1>3. /\ job'.req = job.req /\ job'.fresh = job.fresh /\ job'.ok = (job.ok /\ ok)
      /\ job'.todo = Tail(job.todo) /\ job'.did = did
      /\ job'.pc = IF Tail(job.todo) = <<>> THEN "log" ELSE "effect"
  BY <1>1 DEF GoesOn, Jobs
<1>4. job' \in Jobs
  BY <1>1, <1>2 DEF GoesOn, Jobs, Steps
<1>5. JobOK'
  BY <1>1, <1>3 DEF JobOK
<1>6. QED
  BY <1>3, <1>4, <1>5

LEMMA EffectType ==
    ASSUME Typed, NEW i \in Items, job.pc = "effect", Effect(i)
    PROVE  /\ present' \subseteq Items /\ done' \in [Requests -> Nat]
           /\ \A r \in Requests : done'[r] = IF r = job.req THEN done[r] + 1 ELSE done[r]
<1>1. job.req \in Requests
  BY DEF Typed, JobOK
<1>2. QED
  BY <1>1 DEF Effect, Typed, TypeOK

\* What a step of Take leaves in job and seen.
LEMMA TakeType ==
    ASSUME Typed, Take
    PROVE  LET r == Head(inbox) IN
           /\ r \in Requests /\ inbox' \in Seq(Requests)
           /\ job' \in Jobs /\ JobOK'
           /\ job'.req = r
           /\ \/ /\ r \in seen /\ seen' = seen
                 /\ job'.pc = "reply" /\ job'.ok /\ ~job'.fresh
              \/ /\ r \notin seen /\ seen' = seen \cup {r}
                 /\ job'.pc \in {"effect", "log"} /\ job'.fresh
                 /\ job'.todo = Command[r].items /\ job'.did = {}
                 /\ job'.pc = "effect" => job'.todo # <<>>
<1> DEFINE r == Head(inbox)
           new == [NoJob EXCEPT !.req = r]
<1>1. r \in Requests /\ inbox' \in Seq(Requests)
  BY DEF Take, Typed, TypeOK
<1>2. CASE r \in seen
  <2>1. job' = [new EXCEPT !.pc = "reply", !.fresh = FALSE] /\ seen' = seen
    BY <1>2 DEF Take, Known
  <2>2. /\ job'.req = r /\ job'.pc = "reply" /\ job'.ok /\ ~job'.fresh
    BY <2>1 DEF NoJob
  <2>3. job' \in Jobs
    BY <2>1, <1>1, NoJobType DEF Jobs, NoJob, Steps
  <2>4. QED
    BY <1>1, <1>2, <2>1, <2>2, <2>3 DEF JobOK
<1>3. CASE r \notin seen
  <2> DEFINE c == Command[r]
             pc == IF c.intact /\ c.items # <<>> THEN "effect" ELSE "log"
  <2>1. /\ job' = [new EXCEPT !.pc = pc, !.todo = c.items, !.ok = c.intact]
        /\ seen' = seen \cup {r}
    BY <1>3 DEF Take, Known
  <2>2. /\ job'.req = r /\ job'.pc = pc /\ job'.fresh /\ job'.todo = c.items
        /\ job'.did = {}
    BY <2>1 DEF NoJob
  <2>3. job' \in Jobs
    BY <2>1, <1>1, NoJobType, CommandType DEF Jobs, NoJob, Steps
  <2>4. QED
    BY <1>1, <1>3, <2>1, <2>2, <2>3 DEF JobOK
<1>4. QED
  BY <1>2, <1>3

LEMMA TypedNext == Typed /\ [Next]_vars => Typed'
<1> SUFFICES ASSUME Typed, [Next]_vars PROVE Typed'
  OBVIOUS
<1> USE DEF memory, disk, wire, ghosts
<1>1. CASE Take
  BY <1>1, TakeType DEF Take, Typed, TypeOK
<1>2. ASSUME NEW i \in Items, Perform(i) PROVE Typed'
  <2>1. present' \subseteq Items /\ done' \in [Requests -> Nat]
    BY <1>2, EffectType DEF Perform
  <2>2. job' \in Jobs /\ JobOK'
    BY <1>2 DEF Perform, Typed, TypeOK, JobOK, Jobs, Steps
  <2>3. QED
    BY <1>2, <2>1, <2>2 DEF Perform, Typed, TypeOK
<1>3. ASSUME NEW i \in Items, Raise(i) PROVE Typed'
  <2>1. present' \subseteq Items /\ done' \in [Requests -> Nat]
    BY <1>3, EffectType DEF Raise, Typed, TypeOK
  <2>2. job' \in Jobs /\ JobOK'
    BY <1>3, GoesOnType DEF Raise, Typed, TypeOK, Jobs
  <2>3. hurt' \subseteq Items
    BY <1>3 DEF Raise, Typed, TypeOK
  <2>4. QED
    BY <1>3, <2>1, <2>2, <2>3 DEF Raise, Typed, TypeOK
<1>4. CASE Mark
  <2>1. job.item \in Items /\ job.did \in SUBSET Items
    BY <1>4 DEF Mark, Typed, TypeOK, JobOK, Jobs
  <2>2. job.did \cup {job.item} \in SUBSET Items
    BY <2>1
  <2>3. job' \in Jobs /\ JobOK'
    BY <1>4, <2>1, <2>2, GoesOnType DEF Mark
  <2>4. managed' \subseteq Items
    BY <1>4, <2>1 DEF Mark, Marked, Typed, TypeOK
  <2>5. hurt' \subseteq Items
    BY <1>4, <2>1 DEF Mark, Typed, TypeOK
  <2>6. QED
    BY <1>4, <2>3, <2>4, <2>5 DEF Mark, Typed, TypeOK
<1>5. CASE Log
  <2>1. job' \in Jobs /\ JobOK'
    BY <1>5 DEF Log, Typed, TypeOK, JobOK, Jobs, Steps
  <2>2. logged' \subseteq Requests
    BY <1>5 DEF Log, Typed, TypeOK, JobOK
  <2>3. QED
    BY <1>5, <2>1, <2>2 DEF Log, Typed, TypeOK
<1>6. CASE Reply
  <2>1. job.req \in Requests /\ job.ok \in BOOLEAN /\ job.fresh \in BOOLEAN
    BY <1>6 DEF Reply, Typed, TypeOK, JobOK, Jobs
  <2>a. pending' \subseteq Requests
    BY <1>6, <2>1 DEF Reply, Typed, TypeOK
  <2>b. HealerForgets \in [Requests -> Nat] /\ HealerCounts \in [Requests -> Nat]
    BY <2>1 DEF HealerForgets, HealerCounts, Typed, TypeOK
  <2>2. pending' \subseteq Requests /\ retries' \in [Requests -> Nat]
    BY <1>6, <2>a, <2>b DEF Reply
  <2>3. said' \subseteq [req : Requests, ok : BOOLEAN, fresh : BOOLEAN]
    BY <1>6, <2>1 DEF Reply, Told, Answer, Typed, TypeOK
  <2>4. job' \in Jobs /\ JobOK'
    BY <1>6, NoJobType DEF Reply, JobOK, NoJob
  <2>5. QED
    BY <1>6, <2>2, <2>3, <2>4 DEF Reply, Typed, TypeOK
<1>7. ASSUME NEW r \in Requests, Retry(r) PROVE Typed'
  BY <1>7 DEF Retry, Typed, TypeOK, JobOK
<1>8. ASSUME NEW r \in Requests, Deliver(r) PROVE Typed'
  <2>1. copies' \in [Requests -> 0..MaxCopies] /\ inbox' \in Seq(Requests)
    BY <1>8 DEF Deliver, Typed, TypeOK
  <2>2. QED
    BY <1>8, <2>1 DEF Deliver, Typed, TypeOK, JobOK
<1>9. CASE Connect
  BY <1>9 DEF Connect, Typed, TypeOK, JobOK
<1>10. CASE Disconnect
  <2>1. inbox' \in Seq(Requests)
    BY <1>10 DEF Disconnect
  <2>2. QED
    BY <1>10, <2>1 DEF Disconnect, Typed, TypeOK, JobOK
<1>11. CASE Crash
  <2>1. inbox' \in Seq(Requests)
    BY <1>11 DEF Crash
  <2>2. job' \in Jobs /\ JobOK'
    BY <1>11, NoJobType DEF Crash, JobOK, NoJob
  <2>3. crashes' \in 0..MaxCrashes
    BY <1>11 DEF Crash, Typed, TypeOK
  <2>4. hurt' \subseteq Items
    BY <1>11 DEF Crash, Typed, TypeOK, JobOK
  <2>5. QED
    BY <1>11, <2>1, <2>2, <2>3, <2>4 DEF Crash, Restored, Typed, TypeOK
<1>12. CASE UNCHANGED vars
  BY <1>12 DEF vars, Typed, TypeOK, JobOK
<1>13. QED
  BY <1>1, <1>2, <1>3, <1>4, <1>5, <1>6, <1>7, <1>8, <1>9, <1>10, <1>11, <1>12
  DEF Next, Handler

\* Type correctness of the device's side of a dispatch.
THEOREM TypeCorrect == Spec => []TypeOK
<1>1. Typed => TypeOK
  BY DEF Typed
<1>2. QED
  BY <1>1, TypedInit, TypedNext, PTL DEF Spec

-----------------------------------------------------------------------------
(* Request ids *)

\* What is in the log file or in the healer's table has been seen, and the job
\* that has an effect to come is on a request that is in neither.
Idempotent ==
    /\ logged \subseteq seen
    /\ \A r \in Requests : retries[r] # 0 => r \in seen
    /\ \A r \in Requests : retries[r] <= 1
    /\ job.pc # "idle" => job.req \in seen
    /\ job.pc \in {"effect", "mark", "log"} => job.fresh /\ job.req \notin logged
    /\ job.pc # "idle" /\ job.fresh => retries[job.req] = 0
    /\ job.pc # "idle" /\ ~job.fresh => job.ok

LEMMA IdempotentInit == Init => Idempotent
BY DEF Init, Idempotent, NoJob

LEMMA IdempotentNext == Typed /\ Idempotent /\ [Next]_vars => Idempotent'
<1> SUFFICES ASSUME Typed, Idempotent, [Next]_vars PROVE Idempotent'
  OBVIOUS
<1> USE DEF memory, disk, wire, ghosts
<1>a. /\ job \in Jobs /\ retries \in [Requests -> Nat]
      /\ (job.pc # "idle" => job.req \in Requests)
  BY DEF Typed, TypeOK, JobOK
<1>1. CASE Take
  <2> DEFINE r == Head(inbox)
  <2>1. /\ r \in Requests /\ job'.req = r /\ retries' = retries /\ logged' = logged
        /\ \/ /\ r \in seen /\ seen' = seen
              /\ job'.pc = "reply" /\ job'.ok /\ ~job'.fresh
           \/ /\ r \notin seen /\ seen' = seen \cup {r}
              /\ job'.pc \in {"effect", "log"} /\ job'.fresh
    BY <1>1, TakeType DEF Take
  <2> HIDE DEF r
  <2>2. QED
    BY <2>1 DEF Idempotent
<1>2. ASSUME NEW i \in Items, Perform(i) PROVE Idempotent'
  <2>1. /\ job'.req = job.req /\ job'.ok = job.ok /\ job'.fresh = job.fresh
        /\ job'.pc = "mark" /\ job.pc = "effect"
    BY <1>2, <1>a DEF Perform, Jobs
  <2>2. QED
    BY <1>2, <2>1 DEF Perform, Idempotent
<1>3. ASSUME NEW i \in Items, Raise(i) PROVE Idempotent'
  <2>1. job.pc = "effect" /\ GoesOn(FALSE, job.did) /\ job.did \in SUBSET Items
    BY <1>3, <1>a DEF Raise, Jobs
  <2>2. /\ job'.req = job.req /\ job'.fresh = job.fresh
        /\ job'.pc \in {"log", "effect"}
    BY <2>1, GoesOnType
  <2>3. QED
    BY <1>3, <2>1, <2>2 DEF Raise, Idempotent
<1>4. CASE Mark
  <2>1. job.item \in Items /\ job.did \in SUBSET Items /\ job.pc = "mark"
    BY <1>4 DEF Mark, Typed, TypeOK, JobOK, Jobs
  <2>2. job.did \cup {job.item} \in SUBSET Items
    BY <2>1
  <2>3. /\ job'.req = job.req /\ job'.fresh = job.fresh
        /\ job'.pc \in {"log", "effect"}
    BY <1>4, <2>1, <2>2, GoesOnType DEF Mark
  <2>4. QED
    BY <1>4, <2>1, <2>3 DEF Mark, Idempotent
<1>5. CASE Log
  <2>1. /\ job'.req = job.req /\ job'.ok = job.ok /\ job'.fresh = job.fresh
        /\ job'.pc = "reply" /\ job.pc = "log"
    BY <1>5, <1>a DEF Log, Jobs
  <2>2. QED
    BY <1>5, <2>1 DEF Log, Idempotent
<1>6. CASE Reply
  <2>1. /\ job.pc = "reply" /\ job.req \in Requests /\ job'.pc = "idle"
        /\ (~job.ok => job.fresh) /\ (job.fresh => retries[job.req] = 0)
        /\ job.req \in seen
    BY <1>6, <1>a DEF Reply, Idempotent, NoJob
  <2>2. \A r \in Requests : retries'[r] # 0 => r \in seen /\ retries'[r] <= 1
    <3>1. CASE job.ok
      BY <1>6, <1>a, <2>1, <3>1 DEF Reply, HealerForgets, Idempotent
    <3>2. CASE ~job.ok
      BY <1>6, <1>a, <2>1, <3>2 DEF Reply, HealerCounts, Idempotent
    <3>3. QED
      BY <3>1, <3>2
  <2>3. retries' \in [Requests -> Nat]
    BY <1>6, TypedNext DEF Next, Handler, Typed, TypeOK
  <2>4. QED
    BY <1>6, <2>1, <2>2, <2>3 DEF Reply, Idempotent
<1>7. ASSUME NEW r \in Requests, Retry(r) PROVE Idempotent'
  BY <1>7, <1>a DEF Retry, Idempotent
<1>8. CASE Crash
  <2>1. /\ seen' = logged /\ logged' = logged /\ job'.pc = "idle"
        /\ \A r \in Requests : retries'[r] = 0
    BY <1>8 DEF Crash, Restored, NoJob
  <2>2. QED
    BY <2>1 DEF Idempotent
<1>9. CASE UNCHANGED <<seen, job, retries, logged>>
  BY <1>9 DEF Idempotent
<1>10. QED
  BY <1>1, <1>2, <1>3, <1>4, <1>5, <1>6, <1>7, <1>8, <1>9
  DEF Next, Handler, Deliver, Connect, Disconnect, vars

\* A request fails at most once in a life of the process, so no retry entry ever
\* comes near max_retry.
THEOREM FailsAtMostOnceCorrect == Spec => []FailsAtMostOnce
<1>1. Typed /\ Idempotent => FailsAtMostOnce
  BY DEF Idempotent, FailsAtMostOnce
<1>2. Init => Typed /\ Idempotent
  BY TypedInit, IdempotentInit
<1>3. Typed /\ Idempotent /\ [Next]_vars => (Typed /\ Idempotent)'
  BY TypedNext, IdempotentNext
<1>4. QED
  BY <1>1, <1>2, <1>3, PTL DEF Spec

\* Who counts an effect: the two steps of the handler that may have one.
LEMMA DoneNext ==
    ASSUME Typed, [Next]_vars
    PROVE  \/ done' = done
           \/ /\ job.pc = "effect" /\ job.req \in Requests
              /\ \A r \in Requests : done'[r] = IF r = job.req THEN done[r] + 1 ELSE done[r]
<1> USE DEF memory, disk, wire, ghosts
<1>1. ASSUME NEW i \in Items, Perform(i) \/ Raise(i)
      PROVE  \/ done' = done
             \/ /\ job.pc = "effect" /\ job.req \in Requests
                /\ \A r \in Requests : done'[r] = IF r = job.req THEN done[r] + 1 ELSE done[r]
  BY <1>1, EffectType DEF Perform, Raise, Typed, JobOK
<1>2. QED
  BY <1>1 DEF Next, Handler, Take, Mark, Log, Reply, Retry, Deliver, Connect,
              Disconnect, Crash, vars

\* What the log file has is over: whatever is delivered again, before or after a
\* crash, it has no further effect.
THEOREM LoggedIsOverCorrect == Spec => LoggedIsOver
<1> DEFINE Kept == \A r \in logged : done'[r] = done[r]
<1>1. Typed /\ Idempotent /\ [Next]_vars => [Kept]_vars
  <2>1. SUFFICES ASSUME Typed, Idempotent, [Next]_vars PROVE Kept
    OBVIOUS
  <2>2. logged \subseteq Requests /\ (job.pc = "effect" => job.req \notin logged)
    BY <2>1 DEF Typed, TypeOK, Idempotent
  <2>3. QED
    BY <2>1, <2>2, DoneNext
<1>2. Init => Typed /\ Idempotent
  BY TypedInit, IdempotentInit
<1>3. Typed /\ Idempotent /\ [Next]_vars => (Typed /\ Idempotent)'
  BY TypedNext, IdempotentNext
<1>4. Spec => [][Kept]_vars
  BY <1>1, <1>2, <1>3, PTL DEF Spec
<1>5. QED
  BY <1>4 DEF LoggedIsOver

-----------------------------------------------------------------------------
(* No second effect in one life of the process *)

\* What n lives of the process may do for a request.
Quota(r, n) == n * Len(Command[r].items)

LEMMA QuotaGrows ==
    \A r \in Requests, n \in Nat :
        /\ Quota(r, n) \in Nat /\ Len(Command[r].items) \in Nat
        /\ Quota(r, n + 1) = Quota(r, n) + Len(Command[r].items)
<1>1. \A n, l \in Nat : n * l \in Nat /\ (n + 1) * l = n * l + l
  OBVIOUS
<1>2. \A r \in Requests : Len(Command[r].items) \in Nat
  BY CommandType, LenProperties
<1> QED BY <1>1, <1>2 DEF Quota

Once ==
    /\ \A r \in Requests : r \notin seen => done[r] <= Quota(r, crashes)
    /\ \A r \in Requests : done[r] <= Quota(r, crashes + 1)
    /\ job.pc = "effect" => done[job.req] + Len(job.todo) <= Quota(job.req, crashes + 1)
    /\ job.pc = "mark" => done[job.req] + Len(Tail(job.todo)) <= Quota(job.req, crashes + 1)

LEMMA OnceInit == Init => Once
BY QuotaGrows DEF Init, Once, NoJob

LEMMA OnceNext == Typed /\ Idempotent /\ Once /\ [Next]_vars => Once'
<1> SUFFICES ASSUME Typed, Idempotent, Once, [Next]_vars PROVE Once'
  OBVIOUS
<1> USE DEF memory, disk, wire, ghosts
<1>a. /\ job \in Jobs /\ done \in [Requests -> Nat] /\ crashes \in Nat
      /\ (job.pc # "idle" => job.req \in Requests /\ job.req \in seen)
      /\ (job.pc \in {"effect", "mark"} => job.todo # <<>>)
  BY DEF Typed, TypeOK, JobOK, Idempotent
<1>b. /\ job.pc # "idle" => Quota(job.req, crashes + 1) \in Nat
      /\ \A r \in Requests : /\ Quota(r, crashes) \in Nat
                            /\ Quota(r, crashes + 1) = Quota(r, crashes) + Len(Command[r].items)
                            /\ Len(Command[r].items) \in Nat
  <2>1. crashes + 1 \in Nat
    BY <1>a
  <2> QED BY <1>a, <2>1, QuotaGrows
<1>c. job.todo # <<>> => /\ Len(job.todo) \in Nat /\ Len(Tail(job.todo)) = Len(job.todo) - 1
                         /\ Tail(job.todo) \in Seq(Items \cup {None})
  BY <1>a DEF Jobs
<1>1. CASE Take
  <2> DEFINE r == Head(inbox)
  <2>1. /\ r \in Requests /\ job'.req = r /\ done' = done /\ seen \subseteq seen'
        /\ crashes' = crashes
        /\ \/ job'.pc = "reply"
           \/ r \notin seen /\ job'.pc \in {"effect", "log"} /\ job'.todo = Command[r].items
    BY <1>1, TakeType DEF Take
  <2> HIDE DEF r
  <2>2. r \notin seen => done[r] + Len(Command[r].items) <= Quota(r, crashes + 1)
    BY <2>1, <1>a, <1>b DEF Once
  <2>3. QED
    BY <2>1, <2>2 DEF Once
<1>2. ASSUME NEW i \in Items, Perform(i) PROVE Once'
  <2>1. /\ job'.req = job.req /\ job'.todo = job.todo /\ job'.pc = "mark" /\ seen' = seen
        /\ job.pc = "effect" /\ job.req \in Requests /\ job.todo # <<>> /\ crashes' = crashes
    BY <1>2, <1>a DEF Perform, Jobs
  <2>2. \A r \in Requests : done'[r] = IF r = job.req THEN done[r] + 1 ELSE done[r]
    BY <1>2, EffectType DEF Perform
  <2>3. done[job.req] + 1 + Len(Tail(job.todo)) <= Quota(job.req, crashes + 1)
    BY <2>1, <1>a, <1>b, <1>c DEF Once
  <2>4. /\ done[job.req] \in Nat /\ Len(Tail(job.todo)) \in Nat /\ job.req \in seen
        /\ Quota(job.req, crashes + 1) \in Nat /\ done'[job.req] = done[job.req] + 1
    BY <2>1, <2>2, <1>a, <1>b, <1>c
  <2>5. /\ done'[job.req] + Len(Tail(job.todo)) <= Quota(job.req, crashes + 1)
        /\ done'[job.req] <= Quota(job.req, crashes + 1)
    BY <2>3, <2>4
  <2>6. \A r \in Requests : /\ done'[r] <= Quota(r, crashes + 1)
                            /\ r \notin seen' => done'[r] <= Quota(r, crashes)
    BY <2>1, <2>2, <2>4, <2>5 DEF Once
  <2>7. QED
    BY <2>1, <2>5, <2>6 DEF Once
<1>3. ASSUME NEW i \in Items, Raise(i) PROVE Once'
  <2>1. /\ job.pc = "effect" /\ GoesOn(FALSE, job.did) /\ job.did \in SUBSET Items
        /\ job.req \in Requests /\ job.todo # <<>> /\ seen' = seen /\ crashes' = crashes
    BY <1>3, <1>a DEF Raise, Jobs
  <2>2. /\ job'.req = job.req /\ job'.todo = Tail(job.todo)
        /\ job'.pc \in {"log", "effect"}
    BY <2>1, GoesOnType
  <2>3. \/ done' = done
        \/ \A r \in Requests : done'[r] = IF r = job.req THEN done[r] + 1 ELSE done[r]
    BY DoneNext
  <2>4. done[job.req] + 1 + Len(Tail(job.todo)) <= Quota(job.req, crashes + 1)
    BY <2>1, <1>a, <1>b, <1>c DEF Once
  <2>5. /\ done[job.req] \in Nat /\ Len(Tail(job.todo)) \in Nat /\ job.req \in seen
        /\ Quota(job.req, crashes + 1) \in Nat
    BY <2>1, <1>a, <1>b, <1>c
  <2>6. CASE done' = done
    <3>1. done'[job.req] + Len(Tail(job.todo)) <= Quota(job.req, crashes + 1)
      BY <2>4, <2>5, <2>6
    <3>2. QED
      BY <2>1, <2>2, <2>6, <3>1 DEF Once
  <2>7. CASE \A r \in Requests : done'[r] = IF r = job.req THEN done[r] + 1 ELSE done[r]
    <3>1. done'[job.req] = done[job.req] + 1
      BY <2>1, <2>7
    <3>2. done'[job.req] + Len(Tail(job.todo)) <= Quota(job.req, crashes + 1)
      BY <3>1, <2>4, <2>5
    <3>3. done'[job.req] <= Quota(job.req, crashes + 1)
      BY <3>1, <2>4, <2>5
    <3>4. \A r \in Requests : done'[r] <= Quota(r, crashes + 1)
      BY <2>7, <3>3 DEF Once
    <3>5. \A r \in Requests : r \notin seen' => done'[r] <= Quota(r, crashes)
      BY <2>1, <2>5, <2>7 DEF Once
    <3>6. QED
      BY <2>1, <2>2, <3>2, <3>4, <3>5 DEF Once
  <2>8. QED
    BY <2>3, <2>6, <2>7
<1>4. CASE Mark
  <2>1. job.item \in Items /\ job.did \in SUBSET Items /\ job.pc = "mark" /\ seen' = seen
        /\ done' = done /\ crashes' = crashes
    BY <1>4 DEF Mark, Typed, TypeOK, JobOK, Jobs
  <2>2. job.did \cup {job.item} \in SUBSET Items
    BY <2>1
  <2>3. /\ job'.req = job.req /\ job'.todo = Tail(job.todo)
        /\ job'.pc \in {"log", "effect"}
    BY <1>4, <2>1, <2>2, GoesOnType DEF Mark
  <2>4. QED
    BY <2>1, <2>3 DEF Once
<1>5. CASE Log \/ Reply
  <2>1. job'.pc \notin {"effect", "mark"} /\ done' = done /\ seen' = seen /\ crashes' = crashes
    BY <1>5, <1>a DEF Log, Reply, NoJob, Jobs
  <2>2. QED
    BY <2>1 DEF Once
<1>6. CASE Crash
  <2>1. /\ crashes' = crashes + 1 /\ done' = done /\ job'.pc = "idle"
        /\ crashes + 1 \in Nat
    BY <1>6, <1>a DEF Crash, NoJob
  <2>2. \A r \in Requests : done'[r] <= Quota(r, crashes')
    BY <2>1 DEF Once
  <2>3. \A r \in Requests : done'[r] <= Quota(r, crashes' + 1)
    <3>1. \A r \in Requests : /\ Quota(r, crashes') \in Nat /\ Len(Command[r].items) \in Nat
                              /\ Quota(r, crashes' + 1) = Quota(r, crashes') + Len(Command[r].items)
      BY <2>1, QuotaGrows
    <3>2. \A r \in Requests : done'[r] \in Nat
      BY <2>1, <1>a
    <3> QED BY <2>2, <3>1, <3>2
  <2>4. QED
    BY <2>1, <2>2, <2>3 DEF Once
<1>7. CASE UNCHANGED <<seen, job, done, crashes>>
  BY <1>7 DEF Once
<1>8. QED
  BY <1>1, <1>2, <1>3, <1>4, <1>5, <1>6, <1>7
  DEF Next, Handler, Retry, Deliver, Connect, Disconnect, vars

\* In one life of the process no request has more effects than it has items, however
\* often it is delivered or retried and whatever raises in between.
THEOREM ExecutedOnceCorrect == Spec => []ExecutedOnce
<1> DEFINE IInv == Typed /\ Idempotent /\ Once
<1>1. Init => IInv
  BY TypedInit, IdempotentInit, OnceInit
<1>2. IInv /\ [Next]_vars => IInv'
  BY TypedNext, IdempotentNext, OnceNext
<1>3. IInv => ExecutedOnce
  BY DEF Once, Quota, ExecutedOnce
<1>4. QED
  BY <1>1, <1>2, <1>3, PTL DEF Spec

-----------------------------------------------------------------------------
(* What a success means, and what the table of managed items protects *)

LEMMA ToSetOfTail ==
    ASSUME NEW S, NEW s \in Seq(S), s # <<>>
    PROVE  ToSet(s) = {Head(s)} \cup ToSet(Tail(s))
<1>1. /\ Len(s) \in Nat /\ Len(s) >= 1 /\ DOMAIN s = 1..Len(s)
      /\ DOMAIN Tail(s) = 1..(Len(s) - 1)
      /\ \A i \in 1..(Len(s) - 1) : Tail(s)[i] = s[i + 1]
      /\ Head(s) = s[1]
  OBVIOUS
<1>2. \A x \in ToSet(s) : x \in {Head(s)} \cup ToSet(Tail(s))
  <2>1. TAKE x \in ToSet(s)
  <2>2. PICK i \in 1..Len(s) : x = s[i]
    BY <1>1 DEF ToSet
  <2>3. CASE i = 1
    BY <1>1, <2>2, <2>3
  <2>4. CASE i # 1
    <3>1. i - 1 \in 1..(Len(s) - 1) /\ x = Tail(s)[i - 1]
      BY <1>1, <2>2, <2>4
    <3>2. QED
      BY <1>1, <3>1 DEF ToSet
  <2>5. QED
    BY <2>3, <2>4
<1>3. \A x \in ToSet(Tail(s)) : x \in ToSet(s)
  <2>1. TAKE x \in ToSet(Tail(s))
  <2>2. PICK i \in 1..(Len(s) - 1) : x = Tail(s)[i]
    BY <1>1 DEF ToSet
  <2>3. i + 1 \in 1..Len(s) /\ x = s[i + 1]
    BY <1>1, <2>2
  <2>4. QED
    BY <1>1, <2>3 DEF ToSet
<1>4. Head(s) \in ToSet(s)
  BY <1>1 DEF ToSet
<1>5. QED
  BY <1>2, <1>3, <1>4

LEMMA ToSetOfOne ==
    ASSUME NEW S, NEW s \in Seq(S), Len(s) = 1
    PROVE  s # <<>> /\ Tail(s) = <<>> /\ ToSet(s) = {Head(s)}
<1>1. s # <<>>
  <2> SUFFICES ASSUME s = <<>> PROVE FALSE
    OBVIOUS
  <2>1. Len(s) = 0
    BY EmptySeq, Zenon
  <2>2. QED
    BY <2>1
<1>2. Tail(s) = <<>>
  <2>1. Tail(s) \in Seq(S) /\ Len(Tail(s)) = Len(s) - 1
    BY <1>1
  <2>2. Len(Tail(s)) = 0
    BY <2>1
  <2>3. QED
    BY <2>1, <2>2, EmptySeq
<1>3. ToSet(<<>>) = {}
  BY DEF ToSet
<1>4. QED
  BY <1>1, <1>2, <1>3, ToSetOfTail

\* An item that was put or taken and marked or unmarked as the command says.
Settled(i) ==
    /\ i \in managed <=> action \in Marks
    /\ action \in Marks => i \in present
    /\ action \in Takes => i \notin present

\* While a handler is at work its job says what is in place: what is done and what
\* is to do make up the command, only skills have several items, and the item
\* between its effect and its mark is where the effect has put it.
InPlace ==
    /\ job.pc \in {"effect", "mark"} =>
          /\ job.ok => job.did \cup ToSet(job.todo) = ToSet(Command[job.req].items)
          /\ action # "sync" => job.did = {} /\ Len(job.todo) = 1
    /\ job.pc = "mark" =>
          /\ action # "create" => job.item = Head(job.todo)
          /\ action \in Marks => job.item \in present
          /\ action \in Takes => job.item \notin present
    /\ job.pc \in {"log", "reply"} /\ job.ok /\ job.fresh =>
          /\ action # "create" => job.did = ToSet(Command[job.req].items)
          /\ action = "create" => job.did # {}
    /\ job.pc # "idle" /\ job.fresh => \A i \in job.did : Settled(i)

LEMMA InPlaceInit == Init => InPlace
BY DEF Init, InPlace, NoJob, action

\* A handler that goes on without the item at hand, after a failure.
LEMMA InPlaceGivesUp ==
    ASSUME Typed, InPlace, job.pc \in {"effect", "mark"}, job.fresh,
           GoesOn(FALSE, job.did), \A i \in job.did : Settled(i)'
    PROVE  InPlace'
<1>1. /\ job.did \in SUBSET Items /\ job.todo \in Seq(Items \cup {None})
      /\ job.todo # <<>> /\ job.req \in Requests
  BY DEF Typed, TypeOK, JobOK, Jobs
<1>2. /\ job'.req = job.req /\ job'.fresh = job.fresh /\ ~job'.ok
      /\ job'.todo = Tail(job.todo) /\ job'.did = job.did
      /\ job'.pc = IF Tail(job.todo) = <<>> THEN "log" ELSE "effect"
  BY <1>1, GoesOnType
<1>3. job'.pc = "effect" => action = "sync"
  BY <1>1, <1>2, ToSetOfOne DEF InPlace, action
<1>4. QED
  BY <1>2, <1>3 DEF InPlace, action

LEMMA InPlaceNext == Typed /\ Idempotent /\ InPlace /\ [Next]_vars => InPlace'
<1> SUFFICES ASSUME Typed, Idempotent, InPlace, [Next]_vars PROVE InPlace'
  OBVIOUS
<1> USE DEF memory, disk, wire, ghosts
<1>a. /\ job \in Jobs
      /\ (job.pc # "idle" => job.req \in Requests)
      /\ (job.pc \in {"effect", "mark"} => job.todo # <<>> /\ job.fresh)
      /\ (job.pc = "mark" => job.item \in Items)
      /\ job.did \in SUBSET Items /\ job.todo \in Seq(Items \cup {None})
  BY DEF Typed, TypeOK, JobOK, Idempotent, Jobs
<1>b. \A r \in Requests :
        /\ Command[r].action = "create" => Command[r].items = <<None>>
        /\ Command[r].action # "sync" => Len(Command[r].items) = 1
  OBVIOUS
<1>1. CASE Take
  <2> DEFINE r == Head(inbox)
             c == Command[r]
  <2>1. /\ r \in Requests /\ job'.req = r
        /\ \/ job'.pc = "reply" /\ job'.ok /\ ~job'.fresh
           \/ /\ job'.pc \in {"effect", "log"}
              /\ job'.todo = c.items /\ job'.did = {}
              /\ job'.pc = "effect" => job'.todo # <<>>
    BY <1>1, TakeType
  <2>2. job'.pc = "log" /\ job'.ok => c.items = <<>>
    BY <1>1, <2>1 DEF Take, NoJob
  <2>3. c.items = <<>> => c.action = "sync"
    <3>1. Len(<<>>) = 0
      OBVIOUS
    <3>2. c.action # "sync" => Len(c.items) = 1
      BY <1>b, <2>1
    <3> HIDE DEF c
    <3>3. QED
      BY <3>1, <3>2
  <2>4. ToSet(<<>>) = {}
    BY DEF ToSet
  <2> HIDE DEF r
  <2>5. QED
    BY <2>1, <2>2, <2>3, <2>4, <1>b DEF InPlace, action
<1>2. ASSUME NEW i \in Items, Perform(i) PROVE InPlace'
  <2>1. /\ job'.req = job.req /\ job'.ok = job.ok /\ job'.fresh = job.fresh
        /\ job'.todo = job.todo /\ job'.did = job.did /\ job'.item = i
        /\ job'.pc = "mark" /\ job.pc = "effect" /\ managed' = managed
    BY <1>2, <1>a DEF Perform, Jobs
  <2>2. /\ action # "create" => i = Head(job.todo)
        /\ action \in Needs => i \in present
        /\ present' = IF action \in Puts THEN present \cup {i}
                      ELSE IF action \in Takes THEN present \ {i} ELSE present
    BY <1>2 DEF Perform, Target, Effect
  <2>3. /\ action \in Marks => i \in present'
        /\ action \in Takes => i \notin present'
    BY <2>2 DEF Marks, Puts, Takes, Needs
  <2>4. \A j \in job.did : Settled(j)'
    BY <1>a, <2>1, <2>2 DEF InPlace, Settled, Puts, Takes, Marks, action
  <2>5. QED
    BY <2>1, <2>2, <2>3, <2>4 DEF InPlace, action
<1>3. ASSUME NEW i \in Items, Raise(i) PROVE InPlace'
  <2>1. /\ job.pc = "effect" /\ GoesOn(FALSE, job.did) /\ managed' = managed
        /\ \/ present' = present
           \/ present' = IF action \in Puts THEN present \cup {i}
                         ELSE IF action \in Takes THEN present \ {i} ELSE present
    BY <1>3 DEF Raise, Effect
  <2>2. job'.req = job.req
    BY <1>a, <2>1, GoesOnType
  <2>3. \A j \in job.did : Settled(j)'
    BY <1>a, <2>1, <2>2 DEF InPlace, Settled, Puts, Takes, Marks, action
  <2>4. QED
    BY <1>a, <2>1, <2>3, InPlaceGivesUp
<1>4. CASE Mark
  <2>1. /\ job.pc = "mark" /\ job.item \in Items /\ present' = present
        /\ job.did \cup {job.item} \in SUBSET Items
    BY <1>4, <1>a DEF Mark
  <2>2. CASE managed' = Marked(job.item) /\ GoesOn(TRUE, job.did \cup {job.item})
    <3>1. /\ job'.req = job.req /\ job'.fresh = job.fresh /\ job'.ok = (job.ok /\ TRUE)
          /\ job'.todo = Tail(job.todo) /\ job'.did = job.did \cup {job.item}
          /\ job'.pc = IF Tail(job.todo) = <<>> THEN "log" ELSE "effect"
      BY <2>1, <2>2, GoesOnType
    <3>2. job.ok \in BOOLEAN
      BY <1>a DEF Jobs
    <3>3. job'.ok => job.ok
      BY <3>1, <3>2
    <3>4. managed' = IF action \in Marks THEN managed \cup {job.item}
                                         ELSE managed \ {job.item}
      BY <2>2 DEF Marked
    <3>5. \A j \in job'.did : Settled(j)'
      BY <1>a, <2>1, <3>1, <3>4 DEF InPlace, Settled, Puts, Takes, Marks, action
    <3>6. action # "sync" => Tail(job.todo) = <<>>
      BY <1>a, <2>1, ToSetOfOne DEF InPlace, action
    <3>7. job.ok /\ action # "create" =>
            job'.did \cup ToSet(Tail(job.todo)) = ToSet(Command[job.req].items)
      <4>1. ToSet(job.todo) = {Head(job.todo)} \cup ToSet(Tail(job.todo))
        BY <1>a, <2>1, ToSetOfTail
      <4>2. QED
        BY <2>1, <3>1, <4>1 DEF InPlace, action
    <3>8. ToSet(<<>>) = {}
      BY DEF ToSet
    <3>9. CASE Tail(job.todo) = <<>>
      BY <3>1, <3>3, <3>5, <3>7, <3>8, <3>9 DEF InPlace, action
    <3>10. CASE Tail(job.todo) # <<>>
      BY <3>1, <3>3, <3>5, <3>6, <3>7, <3>10 DEF InPlace, action
    <3>11. QED
      BY <3>9, <3>10
  <2>3. CASE GoesOn(FALSE, job.did) /\ managed' = managed
    <3>1. job'.req = job.req
      BY <1>a, <2>1, <2>3, GoesOnType
    <3>2. \A j \in job.did : Settled(j)'
      BY <1>a, <2>1, <2>3, <3>1 DEF InPlace, Settled, action
    <3>3. QED
      BY <1>a, <2>1, <2>3, <3>2, InPlaceGivesUp
  <2>4. QED
    BY <1>4, <2>2, <2>3 DEF Mark
<1>5. CASE Log
  <2>1. /\ job'.req = job.req /\ job'.ok = job.ok /\ job'.fresh = job.fresh
        /\ job'.did = job.did /\ job'.pc = "reply" /\ job.pc = "log"
        /\ managed' = managed /\ present' = present
    BY <1>5, <1>a DEF Log, Jobs
  <2>2. QED
    BY <2>1 DEF InPlace, Settled, action
<1>6. CASE Reply \/ Crash
  <2>1. job'.pc = "idle"
    BY <1>6 DEF Reply, Crash, NoJob
  <2>2. QED
    BY <2>1 DEF InPlace, action
<1>7. CASE UNCHANGED <<job, managed, present>>
  BY <1>7 DEF InPlace, Settled, action
<1>8. QED
  BY <1>1, <1>2, <1>3, <1>4, <1>5, <1>6, <1>7
  DEF Next, Handler, Retry, Deliver, Connect, Disconnect, vars

\* When the device is about to report a success that is no repetition, every item of
\* the command is put and managed, or taken and unmanaged.
THEOREM SuccessIsInPlaceCorrect == Spec => []SuccessIsInPlace
<1> DEFINE IInv == Typed /\ Idempotent /\ InPlace
<1>1. Init => IInv
  BY TypedInit, IdempotentInit, InPlaceInit
<1>2. IInv /\ [Next]_vars => IInv'
  BY TypedNext, IdempotentNext, InPlaceNext
<1>3. IInv => SuccessIsInPlace
  BY DEF InPlace, Settled, SuccessIsInPlace, action
<1>4. QED
  BY <1>1, <1>2, <1>3, PTL DEF Spec

\* What is managed and gone, while a handler is between an effect and its mark too.
Gone == managed \ present \subseteq hurt \cup (IF job.pc = "mark" THEN {job.item} ELSE {})

LEMMA GoneNext == Typed /\ InPlace /\ Gone /\ [Next]_vars => Gone'
<1> SUFFICES ASSUME Typed, InPlace, Gone, [Next]_vars PROVE Gone'
  OBVIOUS
<1> USE DEF memory, disk, wire, ghosts
<1>a. job \in Jobs /\ job.did \in SUBSET Items /\ (job.pc = "mark" => job.item \in Items)
  BY DEF Typed, TypeOK, JobOK, Jobs
<1>1. CASE Take
  BY <1>1, TakeType DEF Take, Gone
<1>2. ASSUME NEW i \in Items, Perform(i) PROVE Gone'
  <2>1. /\ job'.item = i /\ job'.pc = "mark" /\ job.pc = "effect"
        /\ managed' = managed /\ hurt' = hurt
    BY <1>2, <1>a DEF Perform, Jobs
  <2>2. present \ {i} \subseteq present'
    BY <1>2 DEF Perform, Effect
  <2>3. QED
    BY <2>1, <2>2 DEF Gone
<1>3. ASSUME NEW i \in Items, Raise(i) PROVE Gone'
  <2>1. /\ job.pc = "effect" /\ GoesOn(FALSE, job.did) /\ managed' = managed
        /\ \/ present' = present /\ hurt' = hurt
           \/ present \ {i} \subseteq present' /\ hurt' = hurt \cup {i}
    BY <1>3 DEF Raise, Effect
  <2>2. job'.pc # "mark"
    BY <1>a, <2>1, GoesOnType
  <2>3. QED
    BY <2>1, <2>2 DEF Gone
<1>4. CASE Mark
  <2>1. /\ job.pc = "mark" /\ present' = present
        /\ job.did \cup {job.item} \in SUBSET Items
    BY <1>4, <1>a DEF Mark
  <2>2. job'.pc # "mark"
    BY <1>4, <1>a, <2>1, GoesOnType DEF Mark
  <2>3. CASE managed' = Marked(job.item) /\ hurt' = hurt
    BY <2>1, <2>2, <2>3 DEF Gone, Marked, InPlace
  <2>4. CASE managed' = managed /\ hurt' = hurt \cup {job.item}
    BY <2>1, <2>2, <2>4 DEF Gone
  <2>5. QED
    BY <1>4, <2>3, <2>4 DEF Mark
<1>5. CASE Log \/ Reply
  <2>1. /\ job.pc # "mark" /\ job'.pc # "mark"
        /\ managed' = managed /\ present' = present /\ hurt' = hurt
    BY <1>5, <1>a DEF Log, Reply, NoJob, Jobs
  <2>2. QED
    BY <2>1 DEF Gone
<1>6. CASE Crash
  BY <1>6 DEF Crash, NoJob, Gone
<1>7. CASE UNCHANGED <<job, managed, present, hurt>>
  BY <1>7 DEF Gone
<1>8. QED
  BY <1>1, <1>2, <1>3, <1>4, <1>5, <1>6, <1>7
  DEF Next, Handler, Retry, Deliver, Connect, Disconnect, vars

\* Between two commands everything that is managed exists, but for what a fault or a
\* crash struck between its effect and its mark.
THEOREM ManagedExistsCorrect == Spec => []ManagedExists
<1> DEFINE IInv == Typed /\ Idempotent /\ InPlace /\ Gone
<1>1. Init => IInv
  <2>1. Init => Gone
    BY DEF Init, Gone, NoJob
  <2>2. QED
    BY <2>1, TypedInit, IdempotentInit, InPlaceInit
<1>2. IInv /\ [Next]_vars => IInv'
  BY TypedNext, IdempotentNext, InPlaceNext, GoneNext
<1>3. IInv => ManagedExists
  BY DEF Gone, ManagedExists
<1>4. QED
  BY <1>1, <1>2, <1>3, PTL DEF Spec

-----------------------------------------------------------------------------
(* The refinement of Execution *)

\* What Execution sees of a job, by the handler's place.
LEMMA UnderwayIs ==
    /\ job.pc = "idle" => Underway = {} /\ EffectsLeft = 0
    /\ job.pc = "effect" => EffectsLeft = Len(job.todo)
    /\ job.pc = "mark" => EffectsLeft = Len(Tail(job.todo))
    /\ job.pc \in {"log", "reply"} => EffectsLeft = 0
    /\ job.pc # "idle" /\ job.fresh => Underway = {job.req}
    /\ ~job.fresh => Underway = {}
BY DEF Underway, EffectsLeft

LEMMA ExecutionInit == Init => E!Init
<1> SUFFICES ASSUME Init PROVE E!Init
  OBVIOUS
<1>1. job.pc = "idle"
  BY DEF Init, NoJob
<1>2. Underway = {} /\ EffectsLeft = 0
  BY <1>1, UnderwayIs
<1>3. QED
  BY <1>2 DEF Init, E!Init

\* The job goes on after an item whose effect is behind it or did not take place.
LEMMA GoesOnLeaves ==
    ASSUME Typed, job.pc \in {"effect", "mark"}, NEW ok \in BOOLEAN,
           NEW did \in SUBSET Items, GoesOn(ok, did), job.fresh
    PROVE  Underway' = Underway /\ EffectsLeft' = Len(Tail(job.todo))
<1>1. /\ job'.req = job.req /\ job'.fresh = job.fresh /\ job'.todo = Tail(job.todo)
      /\ job'.pc = IF Tail(job.todo) = <<>> THEN "log" ELSE "effect"
  BY GoesOnType
<1>2. Underway' = {job.req} /\ Underway = {job.req}
  BY <1>1 DEF Underway
<1>3. CASE Tail(job.todo) = <<>>
  <2>1. Tail(job.todo) \in Seq(Items \cup {None}) /\ Len(Tail(job.todo)) = 0
    BY <1>3, EmptySeq
  <2>2. QED
    BY <1>1, <1>2, <1>3, <2>1 DEF EffectsLeft
<1>4. CASE Tail(job.todo) # <<>>
  BY <1>1, <1>2, <1>4 DEF EffectsLeft
<1>5. QED
  BY <1>3, <1>4

LEMMA ExecutionNext == Typed /\ Idempotent /\ [Next]_vars => [E!Next]_(E!vars)
<1> DEFINE Same == UNCHANGED <<seen, logged, Underway, EffectsLeft, done, said>>
           Goal == E!Next \/ Same
<1> SUFFICES ASSUME Typed, Idempotent, [Next]_vars PROVE Goal
  BY DEF E!vars
<1> USE DEF memory, disk, wire, ghosts
<1>a. /\ job \in Jobs /\ done \in [Requests -> Nat]
      /\ (job.pc # "idle" => job.req \in Requests /\ job.req \in seen)
      /\ (job.pc \in {"effect", "mark"} => job.todo # <<>>)
      /\ (job.pc \in {"effect", "mark", "log"} => job.fresh)
      /\ job.ok \in BOOLEAN /\ job.fresh \in BOOLEAN
      /\ (job.pc # "idle" /\ ~job.fresh => job.ok)
  BY DEF Typed, TypeOK, JobOK, Idempotent, Jobs
<1>b. job.todo # <<>> => /\ Len(job.todo) \in Nat /\ Len(job.todo) > 0
                         /\ Len(Tail(job.todo)) = Len(job.todo) - 1
  BY <1>a DEF Jobs
<1>1. ASSUME Take PROVE Goal
  <2> DEFINE r == Head(inbox)
  <2>1. /\ r \in Requests /\ job'.req = r
        /\ \/ /\ r \in seen /\ seen' = seen /\ ~job'.fresh
           \/ /\ r \notin seen /\ seen' = seen \cup {r}
              /\ job'.pc \in {"effect", "log"} /\ job'.fresh
              /\ job'.todo = Command[r].items
    BY <1>1, TakeType
  <2>2. /\ job.pc = "idle" /\ UNCHANGED <<logged, done, said>>
    BY <1>1 DEF Take
  <2>3. Underway = {} /\ EffectsLeft = 0
    BY <2>2, UnderwayIs
  <2> HIDE DEF r
  <2>4. CASE r \in seen
    <3>1. job'.pc = "reply" /\ ~job'.fresh /\ seen' = seen
      BY <1>1, <2>1, <2>4, TakeType DEF r
    <3>2. Underway' = {} /\ EffectsLeft' = 0
      BY <3>1 DEF Underway, EffectsLeft
    <3>3. QED
      BY <2>2, <2>3, <3>1, <3>2
  <2>5. CASE r \notin seen
    <3>1. /\ seen' = seen \cup {r} /\ job'.fresh
          /\ job'.pc \in {"effect", "log"} /\ job'.todo = Command[r].items
      BY <2>1, <2>5
    <3>2. Underway' = {r}
      BY <2>1, <3>1 DEF Underway
    <3>3. EffectsLeft' \in 0..Len(Command[r].items)
      <4>1. Len(Command[r].items) \in Nat
        BY <2>1, CommandType, LenProperties
      <4>2. EffectsLeft' \in {0, Len(Command[r].items)}
        BY <3>1 DEF EffectsLeft
      <4>3. QED
        BY <4>1, <4>2
    <3>4. E!Start(r)
      BY <2>1, <2>2, <2>3, <2>5, <3>1, <3>2, <3>3 DEF E!Start
    <3>5. QED
      BY <2>1, <3>4 DEF E!Next
  <2>6. QED
    BY <2>4, <2>5
<1>2. ASSUME NEW i \in Items, Perform(i) PROVE Goal
  <2>1. /\ job.pc = "effect" /\ UNCHANGED <<seen, logged, said>>
        /\ job' = [job EXCEPT !.pc = "mark", !.item = i] /\ Effect(i)
    BY <1>2 DEF Perform
  <2>2. job'.pc = "mark" /\ job'.req = job.req /\ job'.fresh = job.fresh
        /\ job'.todo = job.todo
    BY <2>1, <1>a DEF Jobs
  <2>3. Underway = {job.req} /\ Underway' = {job.req} /\ job.req \in Requests
    BY <2>1, <2>2, <1>a DEF Underway
  <2>4. /\ EffectsLeft = Len(job.todo) /\ EffectsLeft' = Len(Tail(job.todo))
    BY <2>1, <2>2 DEF EffectsLeft
  <2>5. EffectsLeft > 0 /\ EffectsLeft' = EffectsLeft - 1
    BY <2>1, <2>4, <1>a, <1>b
  <2>6. E!Work(job.req)
    BY <2>1, <2>3, <2>5 DEF E!Work, Effect
  <2>7. QED
    BY <2>3, <2>6 DEF E!Next
<1>3. ASSUME NEW i \in Items, Raise(i) PROVE Goal
  <2>1. /\ job.pc = "effect" /\ UNCHANGED <<seen, logged, said>>
        /\ GoesOn(FALSE, job.did) /\ job.did \in SUBSET Items
        /\ (done' = done \/ Effect(i))
    BY <1>3, <1>a DEF Raise, Jobs
  <2>2. Underway' = Underway /\ EffectsLeft' = Len(Tail(job.todo))
    BY <2>1, <1>a, GoesOnLeaves
  <2>3. Underway = {job.req} /\ job.req \in Requests /\ EffectsLeft = Len(job.todo)
    BY <2>1, <1>a, UnderwayIs
  <2>4. EffectsLeft > 0 /\ EffectsLeft' = EffectsLeft - 1
    BY <2>1, <2>2, <2>3, <1>a, <1>b
  <2>5. E!Work(job.req)
    BY <2>1, <2>2, <2>3, <2>4 DEF E!Work, Effect
  <2>6. QED
    BY <2>3, <2>5 DEF E!Next
<1>4. ASSUME Mark PROVE Goal
  <2>1. /\ job.pc = "mark" /\ UNCHANGED <<seen, logged, done, said>>
        /\ job.item \in Items /\ job.did \in SUBSET Items
        /\ (GoesOn(TRUE, job.did \cup {job.item}) \/ GoesOn(FALSE, job.did))
    BY <1>4 DEF Mark, Typed, TypeOK, JobOK, Jobs
  <2>2. job.did \cup {job.item} \in SUBSET Items
    BY <2>1
  <2>3. Underway' = Underway /\ EffectsLeft' = Len(Tail(job.todo))
    BY <2>1, <2>2, <1>a, GoesOnLeaves
  <2>4. QED
    BY <2>1, <2>3, UnderwayIs
<1>5. ASSUME Log PROVE Goal
  <2>1. /\ job.pc = "log" /\ UNCHANGED <<seen, done, said>>
        /\ (logged' = logged \cup {job.req} \/ logged' = logged)
        /\ job' = [job EXCEPT !.pc = "reply"]
    BY <1>5 DEF Log
  <2>2. job'.pc = "reply" /\ job'.req = job.req /\ job'.fresh = job.fresh
    BY <2>1, <1>a DEF Jobs
  <2>3. Underway = {job.req} /\ Underway' = {job.req} /\ job.req \in Requests
    BY <2>1, <2>2, <1>a DEF Underway
  <2>4. EffectsLeft = 0 /\ EffectsLeft' = 0
    BY <2>1, <2>2 DEF EffectsLeft
  <2>5. CASE logged' = logged
    BY <2>1, <2>3, <2>4, <2>5
  <2>6. CASE logged' = logged \cup {job.req}
    <3>1. E!Record(job.req)
      BY <2>1, <2>3, <2>4, <2>6 DEF E!Record
    <3>2. QED
      BY <2>3, <3>1 DEF E!Next
  <2>7. QED
    BY <2>1, <2>5, <2>6
<1>6. ASSUME Reply PROVE Goal
  <2>1. /\ job.pc = "reply" /\ UNCHANGED <<seen, logged, done>>
        /\ said' = Told /\ job' = NoJob
    BY <1>6 DEF Reply
  <2>2. job'.pc = "idle"
    BY <2>1 DEF NoJob
  <2>3. Underway' = {} /\ EffectsLeft = 0 /\ EffectsLeft' = 0
    BY <2>1, <2>2 DEF Underway, EffectsLeft
  <2>4. said' \in {said, said \cup {Answer}}
    BY <2>1 DEF Told
  <2>5. CASE job.fresh
    <3>1. Underway = {job.req} /\ job.req \in Requests
      BY <2>1, <2>5, <1>a DEF Underway
    <3>2. Answer = [req |-> job.req, ok |-> job.ok, fresh |-> TRUE]
      BY <2>5, <1>a DEF Answer
    <3>3. E!Finish(job.req, job.ok)
      BY <2>1, <2>3, <2>4, <3>1, <3>2 DEF E!Finish
    <3>4. QED
      BY <3>1, <3>3, <1>a DEF E!Next
  <2>6. CASE ~job.fresh
    <3>1. Underway = {} /\ job.req \in Requests /\ job.req \in seen /\ job.ok = TRUE
      BY <2>1, <2>6, <1>a DEF Underway
    <3>2. Answer = [req |-> job.req, ok |-> TRUE, fresh |-> FALSE]
      BY <2>6, <3>1, <1>a DEF Answer
    <3>3. CASE said' = said
      BY <2>1, <2>3, <3>1, <3>3
    <3>4. CASE said' = said \cup {Answer}
      <4>1. E!Repeat(job.req)
        BY <2>1, <2>3, <3>1, <3>2, <3>4 DEF E!Repeat
      <4>2. QED
        BY <3>1, <4>1 DEF E!Next
    <3>5. QED
      BY <2>4, <3>3, <3>4
  <2>7. QED
    BY <2>5, <2>6
<1>7. ASSUME Crash PROVE Goal
  <2>1. /\ seen' = logged /\ UNCHANGED <<logged, done, said>> /\ job'.pc = "idle"
    BY <1>7 DEF Crash, Restored, NoJob
  <2>2. Underway' = {} /\ EffectsLeft' = 0
    BY <2>1 DEF Underway, EffectsLeft
  <2>3. QED
    BY <2>1, <2>2 DEF E!Next, E!Die
<1>8. ASSUME UNCHANGED <<seen, logged, job, done, said>> PROVE Goal
  BY <1>8 DEF Underway, EffectsLeft
<1>9. QED
  BY <1>1, <1>2, <1>3, <1>4, <1>5, <1>6, <1>7, <1>8
  DEF Next, Handler, Retry, Deliver, Connect, Disconnect, vars

\* The device keeps what Execution promises: each step of its handlers starts a
\* request, has one effect or fails to, records, answers, or is none of Execution's,
\* for any commands, faults, repetitions and crashes.
THEOREM ExecutionCorrect == Spec => ExecutionSpec
<1>1. Init => Typed /\ Idempotent
  BY TypedInit, IdempotentInit
<1>2. Typed /\ Idempotent /\ [Next]_vars => (Typed /\ Idempotent)'
  BY TypedNext, IdempotentNext
<1>3. QED
  BY <1>1, <1>2, ExecutionInit, ExecutionNext, PTL DEF Spec, ExecutionSpec, E!Spec
=============================================================================
