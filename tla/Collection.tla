----------------------------- MODULE Collection -----------------------------
(***************************************************************************)
(* What the server collects from a device: the reports of the periodic     *)
(* thread (SidecarRunner._run_periodic of sidecar/sidecar.py, Collector of *)
(* sidecar/collect.py) and the answers to fetch_agent_files, on their way  *)
(* to CollectService (server/collect.py), which inserts their rows one by  *)
(* one on the SQLite connection that all services of the server share      *)
(* (server/db.py).                                                         *)
(*                                                                         *)
(* The gateway of CherryStudio is external: it answers, refuses, is not    *)
(* there, or answers what nobody expects.  Time is not counted: which      *)
(* reports are due in a round of the thread is open, but for the first     *)
(* round of a process, in which all are.  Several devices differ from one  *)
(* in nothing but the commits they cause, which OtherCommits stands for.   *)
(* The database works: it refuses records it cannot bind, but no INSERT of *)
(* a good one and no commit fails.                                         *)
(***************************************************************************)
EXTENDS Naturals, FiniteSets

CONSTANTS
    Requests,    \* request ids of fetch_agent_files
    Oddities,    \* what may be odd in an answer of the gateway, a subset of OddityKinds
    RowCount,    \* rows of a report that has any
    MaxTotal,    \* bound: how far the usage that the gateway counts grows
    MaxWire      \* bound: messages on the way to the server at once

\* "raises": a step of the thread raises what it does not catch (int() of a count
\* that is no number, an answer that breaks off, the table of managed items);
\* "row": the last record cannot be stored, its provider is no text.
OddityKinds == {"raises", "row"}

ASSUME CollectionAssumption ==
    /\ Oddities \subseteq OddityKinds
    /\ RowCount \in Nat \ {0} /\ MaxTotal \in Nat /\ MaxWire \in Nat

VARIABLES
    \* the device's process
    todo,      \* the reports still to make in this round of _run_periodic
    alive,     \* the periodic thread runs
    key,       \* _managed_key, ForkClient.api_key: none, the gateway's now, or an older one
    \* the gateway
    total,     \* the usage it has counted: an answer has all of it
    \* the connection
    linked,    \* the device is connected
    wire,      \* messages on the way to the server, on this connection or an older one
    \* the server
    job,       \* the handler that is inserting
    tx,        \* rows inserted and not committed
    stored     \* rows committed: usage_agg and agent_files

device == <<todo, alive, key, total>>
network == <<linked, wire>>
server == <<job, tx, stored>>
vars == <<device, network, server>>

-----------------------------------------------------------------------------
(* Messages and their rows *)

Reports == {"usage", "status", "recon"}

\* Of usage the total, of agent_files the request.  What else is in a report that is
\* odd, or has errors instead of records, makes no difference to the server.
Usage(n) == [kind |-> "usage", of |-> n]
Files(r) == [kind |-> "files", of |-> r]
Odd == [kind |-> "odd", of |-> 0]
Empty == [kind |-> "empty", of |-> 0]
Status == [kind |-> "status", of |-> 0]

Fine == {Usage(n) : n \in 0..MaxTotal} \cup {Files(r) : r \in Requests}
Messages == Fine \cup {Odd, Empty, Status}

Size(m) == IF m \in Fine \cup {Odd} THEN RowCount ELSE 0
Rows(m) == {[of |-> m, at |-> i] : i \in 1..Size(m)}
AllRows == UNION {Rows(m) : m \in Messages}

\* sqlite3 refuses to bind the record.
Refused(m, i) == m = Odd /\ i = RowCount

NoJob == [pc |-> "idle", msg |-> Status, at |-> 1]
Jobs == [pc : {"idle", "insert", "commit", "ack"}, msg : Messages,
         at : 1..RowCount + 1]

TypeOK ==
    /\ todo \subseteq Reports /\ alive \in BOOLEAN
    /\ key \in {"none", "now", "old"}
    /\ total \in 0..MaxTotal
    /\ linked \in BOOLEAN /\ wire \subseteq Messages
    /\ job \in Jobs
    /\ tx \subseteq AllRows /\ stored \subseteq AllRows

Init ==
    /\ todo = Reports /\ alive = TRUE /\ key = "none" /\ total = 0
    /\ linked = FALSE /\ wire = {}
    /\ job = NoJob /\ tx = {} /\ stored = {}

-----------------------------------------------------------------------------
(* The periodic thread *)

\* WSClient.send: without a connection the message is dropped without a word.
Send(m) ==
    /\ Cardinality(wire) < MaxWire
    /\ wire' = IF linked THEN wire \cup {m} ELSE wire
    /\ UNCHANGED linked

\* The reports of a round are made in this order.
IsNext(report) ==
    /\ alive
    /\ report \in todo
    /\ report = "status" => "usage" \notin todo
    /\ report = "recon" => todo = {"recon"}

Round(due) ==
    /\ alive /\ todo = {} /\ due # {}
    /\ todo' = due
    /\ UNCHANGED <<alive, key, total, network, server>>

\* ForkClient._request: the gateway may answer who has its key.
MayAnswer == key = "now"

\* collect_usage: any failure of the request becomes a report without records.
CollectUsage(m) ==
    \/ m = Usage(total) /\ MayAnswer
    \/ m = Odd /\ MayAnswer /\ "row" \in Oddities
    \/ m = Empty

ReportUsage(m) ==
    /\ IsNext("usage")
    /\ CollectUsage(m)
    /\ Send(m)
    /\ todo' = todo \ {"usage"}
    /\ UNCHANGED <<alive, key, total, server>>

ReportStatus ==
    /\ IsNext("status")
    /\ Send(Status)
    /\ todo' = todo \ {"status"}
    /\ UNCHANGED <<alive, key, total, server>>

\* The first database of all users that has a key need not be the running gateway's.
InDatabase == {"none", "now", "old"}

\* _fetch_managed_key: the loopback route, else a database.
Found == {"now"} \cup InDatabase

\* _ensure_managed_key: once there is a key it is not asked for again.
FetchKeyUnsynced == UNCHANGED key
FetchKey == IF key = "none" THEN key' \in Found ELSE UNCHANGED key

\* The comparison that follows is logged and changes nothing.
Reconcile ==
    /\ IsNext("recon")
    /\ FetchKey
    /\ todo' = todo \ {"recon"}
    /\ UNCHANGED <<alive, total, network, server>>

\* Nothing catches an exception of a step: the thread is over, the process is not.
ThreadDies ==
    /\ "raises" \in Oddities
    /\ \E report \in Reports : IsNext(report) /\ (report = "usage" => MayAnswer)
    /\ alive' = FALSE /\ todo' = {}
    /\ UNCHANGED <<key, total, network, server>>

\* collect_agent_files: a listing that fails, or a white list that is empty or has none
\* of the files, gives no files.
FilesOf(r, m) == (m = Files(r) /\ MayAnswer) \/ m = Empty

\* DispatchService.fetch_agent_files and the answer of _handle_fetch_agent_files, in
\* the receive loop.  The row of the request stays pending whatever comes back.
CollectFiles(r, m) ==
    /\ linked
    /\ FilesOf(r, m)
    /\ Send(m)
    /\ UNCHANGED <<device, server>>

\* The process ends and is started again: the key is fetched anew.
DeviceRestarts ==
    /\ todo' = Reports /\ alive' = TRUE /\ key' = "none"
    /\ linked' = FALSE
    /\ wire' \in SUBSET wire
    /\ UNCHANGED <<total, server>>

-----------------------------------------------------------------------------
(* The gateway and the connection *)

Uses ==
    /\ total < MaxTotal
    /\ total' = total + 1
    /\ UNCHANGED <<todo, alive, key, network, server>>

\* CherryStudio makes a new key, which the device only asks for after a restart.
KeyChanges ==
    /\ key = "now"
    /\ key' = "old"
    /\ UNCHANGED <<todo, alive, total, network, server>>

Connect ==
    /\ ~linked
    /\ linked' = TRUE
    /\ UNCHANGED <<device, wire, server>>

Break ==
    /\ linked
    /\ linked' = FALSE
    /\ wire' \in SUBSET wire
    /\ UNCHANGED <<device, server>>

-----------------------------------------------------------------------------
(* The server *)

\* conn.commit() ends the transaction of the connection, whoever began it.
CommitsNothing == UNCHANGED <<tx, stored>>
Commits == tx' = {} /\ stored' = stored \cup tx

\* _route hands a report to record_usage or record_agent_files, a status to touch.
Takes(m) ==
    /\ job.pc = "idle" /\ m \in wire
    /\ wire' = wire \ {m}
    /\ \/ /\ m = Status
          /\ Commits
          /\ UNCHANGED job
       \/ /\ m # Status
          /\ job' = [pc |-> IF Size(m) = 0 THEN "commit" ELSE "insert", msg |-> m, at |-> 1]
          /\ UNCHANGED <<tx, stored>>
    /\ UNCHANGED <<device, linked>>

\* One INSERT.  A record that is refused ends the handler with an error answer, and
\* what it has inserted stays in the transaction.
InsertedNext == [of |-> job.msg, at |-> job.at + 1]
Inserted == [of |-> job.msg, at |-> job.at]

AddsCommitted == stored' = stored \cup tx \cup {Inserted} /\ tx' = {}
Adds == tx' = tx \cup {Inserted} /\ UNCHANGED stored

Insert ==
    /\ job.pc = "insert"
    /\ \/ /\ ~Refused(job.msg, job.at)
          /\ Adds
          /\ job' = [job EXCEPT !.at = @ + 1,
                                !.pc = IF job.at = RowCount THEN "commit" ELSE "insert"]
       \/ /\ Refused(job.msg, job.at)
          /\ job' = NoJob
          /\ UNCHANGED <<tx, stored>>
    /\ UNCHANGED <<device, network>>

\* The transaction ends; db.audit begins and ends one more, whose row is not modelled.
Commit ==
    /\ job.pc = "commit"
    /\ Commits
    /\ job' = [job EXCEPT !.pc = "ack"]
    /\ UNCHANGED <<device, network>>

\* usage_ack, agent_files_ack: the await at which other coroutines run.
Acknowledge ==
    /\ job.pc = "ack"
    /\ job' = NoJob
    /\ UNCHANGED <<device, network, tx, stored>>

\* Another service commits, between two handlers.
OtherCommits ==
    /\ job.pc = "idle" /\ tx # {}
    /\ Commits
    /\ UNCHANGED <<device, network, job>>

\* The server process dies, in the middle of a handler or not.
ServerRestarts ==
    /\ job' = NoJob /\ tx' = {}
    /\ linked' = FALSE /\ wire' = {}
    /\ UNCHANGED <<device, stored>>

ServerStep == Insert \/ Commit \/ Acknowledge

Next ==
    \/ \E due \in SUBSET Reports : Round(due)
    \/ \E m \in Messages : ReportUsage(m) \/ Takes(m)
    \/ ReportStatus \/ Reconcile \/ ThreadDies \/ DeviceRestarts
    \/ Uses \/ KeyChanges \/ Connect \/ Break
    \/ \E r \in Requests, m \in Messages : CollectFiles(r, m)
    \/ ServerStep \/ OtherCommits \/ ServerRestarts

Spec == Init /\ [][Next]_vars

-----------------------------------------------------------------------------
(* What must hold *)

\* collect.py:32, a report of which every record can be stored is in the tables with
\* all its rows or not at all: a server that dies between two insertions, a refused
\* record of another report and other services' commits on the same connection never
\* leave a part of it.
WholeReports ==
    \A m \in Fine : Rows(m) \subseteq stored \/ Rows(m) \cap stored = {}

\* What the server is about to acknowledge survives its death.
AcknowledgedIsStored == job.pc = "ack" => Rows(job.msg) \subseteq stored

\* The module keeps what the collection promises (ReportStore): every step that is not
\* a stutter takes a report that was so, commits a whole one and no other with it, or
\* ends its handler; and nothing takes back what is stored.
Real == {m \in Fine : m.kind = "usage" => m.of <= total}
Current == IF job.pc \in {"insert", "commit"} /\ job.msg \in Fine THEN {job.msg} ELSE {}
Answer == IF job.pc = "ack" /\ job.msg \in Fine THEN {job.msg} ELSE {}
Kept == {m \in Fine : Rows(m) \subseteq stored}
S == INSTANCE ReportStore WITH
         Reports <- Fine, real <- Real, current <- Current, answer <- Answer, kept <- Kept
StoreSpec == S!Spec

\* Usage and reconciliation come round again and again, the thread gets to send
\* although others fill the wire, the gateway answers and gives its key now and then,
\* and the server's loop runs every handler and takes what has arrived.  (The wire is a
\* set: with more than one message on the way this would be wanted of each.)
ThreadStep == (\E m \in Messages : ReportUsage(m)) \/ ReportStatus \/ Reconcile

Fairness ==
    /\ SF_vars(\E due \in SUBSET Reports : "usage" \in due /\ Round(due))
    /\ SF_vars(\E due \in SUBSET Reports : "recon" \in due /\ Round(due))
    /\ SF_vars(ThreadStep)
    /\ SF_vars(ReportUsage(Usage(total)))
    /\ SF_vars(Reconcile /\ key' # "none")
    /\ WF_vars(ServerStep \/ \E m \in Messages : Takes(m))

FairSpec == Spec /\ Fairness

\* The collection works at all, although the first report of a process is always made
\* without a key, and whatever went wrong before: once the thread lives, the connection
\* holds and the key it has or will get is the gateway's, the server has the usage of
\* now when it comes to rest (MaxTotal).
UsageArrives ==
    <>[](alive /\ linked /\ key # "old") => []<>(Rows(Usage(total)) \subseteq stored)

=============================================================================
