----------------------------- MODULE SidecarExec -----------------------------
(***************************************************************************)
(* The device's side of a dispatch: DispatchExecutor (sidecar/dispatch.py) *)
(* with its request-id set and its log file, the table of managed items    *)
(* (sidecar/managed_registry.py), the bookkeeping of SelfHealer            *)
(* (sidecar/selfheal.py) and the WebSocket callbacks that use them         *)
(* (sidecar/sidecar.py).                                                   *)
(*                                                                         *)
(* One thread, the receive loop, takes messages one by one; its steps are  *)
(* the calls that touch something a crash does not take away, because a    *)
(* crash may come between any two of them.  CherryStudio is external: it   *)
(* keeps the items, answers 404 for an agent it does not have, and gives a *)
(* created agent a new id, which its answer is assumed to carry: without   *)
(* one _extract_id would mark the id or the name of the command instead.   *)
(***************************************************************************)
EXTENDS Naturals, Sequences, SequencesExt

CONSTANTS
    Requests,    \* request ids
    Items,       \* agents, providers and skills, each a kind and an id
    NewAgents,   \* the agents CherryStudio has still to give an id
    Command,     \* what each request asks for
    None,        \* the place of an id CherryStudio is to choose
    Faults,      \* what may go wrong, a subset of FaultKinds
    MaxRetry,    \* SelfHealer.max_retry
    MaxInbox,    \* bound: messages on the way to the device at once
    Found,       \* bound: the items that may be there at the start
    MaxCopies,   \* bound: how often the server sends one request
    Quotas,      \* bound: which requests a behaviour has, and how often each is sent
    MaxCrashes   \* bound: how often the sidecar process dies

\* "refused": an API or file operation raises and nothing was done; "late": it
\* raises although it was done; "registry": writing the managed table raises;
\* "log": appending to the log file raises OSError, which is swallowed.
FaultKinds == {"refused", "late", "registry", "log"}

Puts == {"create", "add", "sync"}       \* the item is there afterwards
Takes == {"delete", "remove"}           \* it is gone afterwards
Needs == {"update", "delete"}           \* 404 without it
Marks == Puts \cup {"update"}           \* mark_managed; the others unmark
Actions == Puts \cup Takes \cup {"update", "disable"}

ASSUME SidecarExecAssumption ==
    /\ None \notin Items /\ NewAgents \subseteq Items /\ Found \subseteq Items \ NewAgents
    /\ Command \in [Requests -> [action : Actions, items : Seq(Items \cup {None}),
                                 intact : BOOLEAN]]
    /\ \A r \in Requests :
          /\ Command[r].action = "create" => Command[r].items = <<None>>
          /\ Command[r].action # "create" => None \notin ToSet(Command[r].items)
          /\ Command[r].action # "sync" => Len(Command[r].items) = 1
    /\ Faults \subseteq FaultKinds
    /\ Quotas \subseteq [Requests -> 0..MaxCopies]
    /\ MaxRetry \in Nat /\ MaxInbox \in Nat /\ MaxCopies \in Nat /\ MaxCrashes \in Nat

VARIABLES
    \* what a crash takes away
    seen,       \* DispatchExecutor._seen_request_ids
    job,        \* the handler the receive loop is in
    pending,    \* SelfHealer._pending
    retries,    \* SelfHealer._retries: attempts of a request, 0 for no entry
    \* what it leaves
    logged,     \* request ids in the dispatch log file
    present,    \* the items CherryStudio and the deploy directory have
    managed,    \* managed_entity
    \* the connection
    connected,  \* WSClient._connected
    inbox,      \* messages written to the device and not yet taken
    copies,     \* MaxCopies less how often the server may still send a request
    crashes,
    \* auxiliary
    done,       \* how often an item of a request was put, updated or taken
    said,       \* what the server was told
    hurt        \* items a fault or a crash struck between their effect and their mark

memory == <<seen, job, pending, retries>>
disk == <<logged, present, managed>>
wire == <<connected, inbox, copies>>
ghosts == <<done, said, hurt>>
vars == <<memory, disk, wire, crashes, ghosts>>

Steps == {"idle", "effect", "mark", "log", "reply"}
NoJob == [pc |-> "idle", req |-> None, todo |-> <<>>, item |-> None,
          did |-> {}, ok |-> TRUE, fresh |-> TRUE]

Jobs == [pc : Steps, req : Requests \cup {None}, todo : Seq(Items \cup {None}),
         item : Items \cup {None}, did : SUBSET Items, ok : BOOLEAN, fresh : BOOLEAN]

TypeOK ==
    /\ seen \subseteq Requests /\ logged \subseteq Requests /\ pending \subseteq Requests
    /\ job \in Jobs
    /\ retries \in [Requests -> Nat]
    /\ present \subseteq Items /\ managed \subseteq Items
    /\ connected \in BOOLEAN /\ inbox \in Seq(Requests)
    /\ copies \in [Requests -> 0..MaxCopies] /\ crashes \in 0..MaxCrashes
    /\ done \in [Requests -> Nat]
    /\ said \subseteq [req : Requests, ok : BOOLEAN, fresh : BOOLEAN]
    /\ hurt \subseteq Items

\* Items that are there and managed at the start: none, or those an earlier
\* dispatch left; the others of present are the employee's own.
Init ==
    /\ seen = {} /\ pending = {} /\ logged = {}
    /\ job = NoJob
    /\ retries = [r \in Requests |-> 0]
    /\ managed \in SUBSET Found
    /\ \E own \in SUBSET Found : present = managed \cup own
    /\ connected = FALSE /\ inbox = <<>>
    /\ \E q \in Quotas : copies = [r \in Requests |-> MaxCopies - q[r]]
    /\ crashes = 0
    /\ done = [r \in Requests |-> 0] /\ said = {} /\ hurt = {}

-----------------------------------------------------------------------------
(* DispatchExecutor.handle_dispatch_agent, _provider, _skills *)

action == Command[job.req].action

\* _check_idempotent looks in memory, which Restored fills when the process starts.
KnownByFile(r) == r \in logged
Known(r) == r \in seen

\* The next message: a request id seen before is a success at once, a fingerprint
\* that verify_sha256 does not find right is a failure that is logged.
Take ==
    /\ job.pc = "idle" /\ inbox # <<>>
    /\ LET r == Head(inbox)
           c == Command[r]
           new == [NoJob EXCEPT !.req = r]
       IN  \/ /\ Known(r)
              /\ job' = [new EXCEPT !.pc = "reply", !.fresh = FALSE]
              /\ UNCHANGED seen
           \/ /\ ~Known(r)
              /\ seen' = seen \cup {r}
              /\ job' = [new EXCEPT !.pc = IF c.intact /\ c.items # <<>> THEN "effect" ELSE "log",
                                    !.todo = c.items, !.ok = c.intact]
    /\ inbox' = Tail(inbox)
    /\ UNCHANGED <<pending, retries, disk, connected, copies, crashes, ghosts>>

\* One item is put, updated or taken; CherryStudio chooses the id of a new agent.
Target(i) == IF action = "create" THEN i \in NewAgents \ present ELSE i = Head(job.todo)

Effect(i) ==
    /\ present' = IF action \in Puts THEN present \cup {i}
                  ELSE IF action \in Takes THEN present \ {i} ELSE present
    /\ done' = [done EXCEPT ![job.req] = @ + 1]

\* The handler goes on after an item: to the next, or to the log line.
GoesOnLastWins(ok, did) ==
    job' = [job EXCEPT !.pc = IF Tail(job.todo) = <<>> THEN "log" ELSE "effect",
                       !.todo = Tail(@), !.item = None, !.ok = ok, !.did = did]
GoesOn(ok, did) ==
    job' = [job EXCEPT !.pc = IF Tail(job.todo) = <<>> THEN "log" ELSE "effect",
                       !.todo = Tail(@), !.item = None, !.ok = @ /\ ok, !.did = did]

Perform(i) ==
    /\ job.pc = "effect"
    /\ Target(i)
    /\ action \in Needs => i \in present
    /\ Effect(i)
    /\ job' = [job EXCEPT !.pc = "mark", !.item = i]
    /\ UNCHANGED <<seen, pending, retries, logged, managed, wire, crashes, said, hurt>>

\* The call raises: a skill is skipped, any other command is over.
Raise(i) ==
    /\ job.pc = "effect"
    /\ Target(i)
    /\ \/ /\ "refused" \in Faults \/ (action \in Needs /\ i \notin present)
          /\ UNCHANGED <<present, done, hurt>>
       \/ /\ "late" \in Faults /\ (action \in Needs => i \in present)
          /\ Effect(i)
          /\ hurt' = hurt \cup {i}
    /\ GoesOn(FALSE, job.did)
    /\ UNCHANGED <<seen, pending, retries, logged, managed, wire, crashes, said>>

\* mark_managed or unmark, each a transaction of its own.
MarkedAlways(i) == managed \cup {i}
Marked(i) == IF action \in Marks THEN managed \cup {i} ELSE managed \ {i}

Mark ==
    /\ job.pc = "mark"
    /\ \/ /\ managed' = Marked(job.item)
          /\ GoesOn(TRUE, job.did \cup {job.item})
          /\ UNCHANGED hurt
       \/ /\ "registry" \in Faults
          /\ GoesOn(FALSE, job.did)
          /\ hurt' = hurt \cup {job.item}
          /\ UNCHANGED managed
    /\ UNCHANGED <<seen, pending, retries, logged, present, wire, crashes, done, said>>

\* _log: the request id goes to the file whether the command succeeded or not.
Log ==
    /\ job.pc = "log"
    /\ \/ logged' = logged \cup {job.req}
       \/ "log" \in Faults /\ UNCHANGED logged
    /\ job' = [job EXCEPT !.pc = "reply"]
    /\ UNCHANGED <<seen, pending, retries, present, managed, wire, crashes, ghosts>>

\* track_pending, on_dispatch_result, and the answer, which WSClient.send drops
\* without a word when the connection is gone.
HealerUncounts == [retries EXCEPT ![job.req] = @ - 1]
HealerForgets == [retries EXCEPT ![job.req] = 0]
HealerCounts == [retries EXCEPT ![job.req] = @ + 1]

Answer == [req |-> job.req, ok |-> job.ok, fresh |-> job.fresh]
ToldSuccess == IF connected /\ job.ok THEN said \cup {Answer} ELSE said
Told == IF connected THEN said \cup {Answer} ELSE said

Reply ==
    /\ job.pc = "reply"
    /\ \/ /\ job.ok
          /\ pending' = pending \ {job.req} /\ retries' = HealerForgets
       \/ /\ ~job.ok
          /\ pending' = pending \cup {job.req} /\ retries' = HealerCounts
    /\ said' = Told
    /\ job' = NoJob
    /\ UNCHANGED <<seen, disk, wire, crashes, done, hurt>>

-----------------------------------------------------------------------------
(* SelfHealer.retry_injections, one entry.  Its entry point check() has no     *)
(* caller in the runner: MaxRetry = 0 is the program as it runs.               *)

\* _retry_dispatch calls the same handler with the same request id: an id that is
\* seen counts as a successful retry.
Retry(r) ==
    /\ retries[r] \in 1..MaxRetry
    /\ Known(r)
    /\ retries' = [retries EXCEPT ![r] = 0]
    /\ pending' = pending \ {r}
    /\ UNCHANGED <<seen, job, disk, wire, crashes, ghosts>>

-----------------------------------------------------------------------------
(* The server, the connection and the process *)

\* The server sends a request, for the first time or, after a send that raised,
\* again (DeviceSession: DispatchRaises and FlushReturns).
Deliver(r) ==
    /\ connected
    /\ Len(inbox) < MaxInbox /\ copies[r] < MaxCopies
    /\ inbox' = Append(inbox, r)
    /\ copies' = [copies EXCEPT ![r] = @ + 1]
    /\ UNCHANGED <<memory, disk, connected, crashes, ghosts>>

Connect ==
    /\ ~connected
    /\ connected' = TRUE
    /\ UNCHANGED <<memory, disk, inbox, copies, crashes, ghosts>>

\* on_disconnected only lists what is pending: no resend_cb is ever set.
Disconnect ==
    /\ connected
    /\ connected' = FALSE /\ inbox' = <<>>
    /\ UNCHANGED <<memory, disk, copies, crashes, ghosts>>

\* The process dies and is started again: _load_log restores the request ids.
RestoredNothing == {}
Restored == logged

Crash ==
    /\ crashes < MaxCrashes
    /\ crashes' = crashes + 1
    /\ seen' = Restored /\ pending' = {} /\ retries' = [r \in Requests |-> 0]
    /\ job' = NoJob
    /\ hurt' = IF job.pc = "mark" THEN hurt \cup {job.item} ELSE hurt
    /\ connected' = FALSE /\ inbox' = <<>>
    /\ UNCHANGED <<disk, copies, done, said>>

Handler == Take \/ (\E i \in Items : Perform(i) \/ Raise(i)) \/ Mark \/ Log \/ Reply

Next ==
    \/ Handler
    \/ \E r \in Requests : Retry(r) \/ Deliver(r)
    \/ Connect \/ Disconnect \/ Crash

Spec == Init /\ [][Next]_vars

-----------------------------------------------------------------------------
(* What must hold *)

\* A request that arrives again in the same process, or that the healer retries,
\* has no second effect; every death of the process lets it start once more.
ExecutedOnce ==
    \A r \in Requests : done[r] <= (crashes + 1) * Len(Command[r].items)

\* The module keeps what a device promises of its requests (Execution): whatever is
\* delivered again, raises, is lost or retried, and wherever a crash comes, a request
\* is started once in a life of the process, has its effects before it is recorded
\* and answered and none after, and is over for later lives once the file has it.
Underway == IF job.pc # "idle" /\ job.fresh THEN {job.req} ELSE {}
EffectsLeft ==
    CASE job.pc = "effect" -> Len(job.todo)
      [] job.pc = "mark" -> Len(Tail(job.todo))
      [] OTHER -> 0
E == INSTANCE Execution WITH
         Cost <- [r \in Requests |-> Len(Command[r].items)],
         known <- seen, over <- logged, running <- Underway, left <- EffectsLeft,
         told <- said
ExecutionSpec == E!Spec

\* What the log file has is over, whatever is delivered again.
LoggedIsOver ==
    [][\A r \in logged : done'[r] = done[r]]_vars

\* A success that is no repetition is real when it is told: each item of the
\* command is put and managed, or taken and unmanaged, for skills all of them.
SuccessIsInPlace ==
    job.pc = "reply" /\ job.ok /\ job.fresh =>
        /\ action # "create" => job.did = ToSet(Command[job.req].items)
        /\ action = "create" => job.did # {}
        /\ \A i \in job.did :
              /\ i \in managed <=> action \in Marks
              /\ action \in Marks => i \in present
              /\ action \in Takes => i \notin present

\* The retry limit is never reached: a request fails at most once in a process,
\* since its second delivery and its retry count as successes.
FailsAtMostOnce == \A r \in Requests : retries[r] <= 1

\* Between two commands, whatever was sent, raised or died before, the table of
\* managed items protects nothing that is gone, but for the items that a fault or
\* a crash struck after their effect and before their mark.
ManagedExists == job.pc = "idle" => managed \ present \subseteq hurt

\* Every message the receive loop has is answered, unless the connection goes: a
\* request it has not seen with an answer to its execution, one it has seen with a
\* success that says it is a repetition.  (Answers of an earlier life of the process,
\* whose log line was lost, count as well.)
Answered ==
    \A r \in Requests, again \in BOOLEAN :
        (connected /\ r \in ToSet(inbox) /\ Known(r) = again) ~>
            (~connected \/ \E ok \in BOOLEAN :
                               /\ [req |-> r, ok |-> ok, fresh |-> ~again] \in said
                               /\ again => ok)

Fairness == WF_vars(Handler)
FairSpec == Spec /\ Fairness

-----------------------------------------------------------------------------
(* What the documentation says and the code does not do *)

\* sdd 3.9, sent again "idempotent, not created twice": a crash between
\* create_agent and the log line lets the second copy create a second agent.
NotCreatedTwice ==
    \A r \in Requests : Command[r].action = "create" => done[r] <= 1

=============================================================================
