-------------------------- MODULE CollectionProofs --------------------------
(***************************************************************************)
(* Theorems about Collection, for every set of requests, every number of   *)
(* rows, whatever may be odd in an answer, and every bound.                *)
(***************************************************************************)
EXTENDS Collection, TLAPS

USE CollectionAssumption

-----------------------------------------------------------------------------
(* Rows *)

Row(m, i) == [of |-> m, at |-> i]

\* A row belongs to one report.
LEMMA RowsOf ==
    ASSUME NEW m, NEW x \in Rows(m)
    PROVE  x.of = m /\ \E i \in 1..Size(m) : x = Row(m, i)
BY DEF Rows, Row

LEMMA RowsApart ==
    ASSUME NEW m, NEW n, m # n
    PROVE  Rows(m) \cap Rows(n) = {}
<1>1. SUFFICES ASSUME NEW x \in Rows(m), x \in Rows(n) PROVE FALSE
  OBVIOUS
<1>2. x.of = m /\ x.of = n
  BY <1>1, RowsOf
<1>3. QED
  BY <1>2

LEMMA Sizes == \A m : Size(m) \in {0, RowCount}
BY DEF Size

LEMMA OddIsNotFine == Odd \notin Fine
BY DEF Odd, Fine, Usage, Files

LEMMA FineIsMessage == Fine \subseteq Messages /\ Status \in Messages
BY DEF Messages

LEMMA FineSize == \A m \in Fine : Size(m) = RowCount
BY DEF Size

\* What an INSERT adds.
LEMMA InsertedIs ==
    /\ Inserted = Row(job.msg, job.at)
    /\ job.at \in 1..Size(job.msg) => Inserted \in Rows(job.msg)
    /\ job.msg \in Messages /\ job.at \in 1..Size(job.msg) => Inserted \in AllRows
BY DEF Inserted, Row, Rows, AllRows

-----------------------------------------------------------------------------
(* Types *)

\* A handler that inserts has a row left to insert.
HasRow == job.pc = "insert" => Size(job.msg) = RowCount /\ job.at \in 1..RowCount

Typed == TypeOK /\ HasRow

LEMMA NoJobTyped == NoJob \in Jobs /\ NoJob.pc = "idle"
BY FineIsMessage DEF NoJob, Jobs

LEMMA TypedInit == Init => Typed
<1>1. 0 \in 0..MaxTotal
  OBVIOUS
<1>2. ASSUME Init PROVE job \in Jobs /\ job.pc = "idle"
  BY <1>2, NoJobTyped DEF Init
<1>3. QED
  BY <1>1, <1>2 DEF Init, Typed, TypeOK, HasRow, Reports

LEMMA SendTypes ==
    ASSUME Typed, NEW m \in Messages, Send(m)
    PROVE  wire' \subseteq Messages /\ linked' \in BOOLEAN
BY DEF Send, Typed, TypeOK

LEMMA CommitsTypes ==
    ASSUME Typed, Commits
    PROVE  tx' \subseteq AllRows /\ stored' \subseteq AllRows
BY DEF Commits, Typed, TypeOK

\* The actions that leave the server's handler and its rows alone.
Elsewhere ==
    \/ \E due \in SUBSET Reports : Round(due)
    \/ \E m \in Messages : ReportUsage(m)
    \/ ReportStatus \/ Reconcile \/ ThreadDies \/ DeviceRestarts
    \/ Uses \/ KeyChanges \/ Connect \/ Break
    \/ \E r \in Requests, m \in Messages : CollectFiles(r, m)

LEMMA ElsewhereServer ==
    ASSUME Elsewhere
    PROVE  job' = job /\ tx' = tx /\ stored' = stored
BY DEF Elsewhere, Round, ReportUsage, ReportStatus, Reconcile, ThreadDies, DeviceRestarts,
       Uses, KeyChanges, Connect, Break, CollectFiles, server

LEMMA NextCases ==
    ASSUME [Next]_vars
    PROVE  \/ Elsewhere
           \/ \E m \in Messages : Takes(m)
           \/ Insert \/ Commit \/ Acknowledge \/ OtherCommits \/ ServerRestarts
           \/ UNCHANGED vars
BY DEF Next, Elsewhere, ServerStep

LEMMA ElsewhereTypes ==
    ASSUME Typed, Elsewhere
    PROVE  Typed'
<1> DEFINE Rest == /\ todo' \subseteq Reports /\ alive' \in BOOLEAN
                   /\ key' \in {"none", "now", "old"} /\ total' \in 0..MaxTotal
                   /\ linked' \in BOOLEAN /\ wire' \subseteq Messages
<1>1. SUFFICES Rest
  BY ElsewhereServer DEF Typed, TypeOK, HasRow
<1>2. CASE \E due \in SUBSET Reports : Round(due)
  BY <1>2 DEF Round, Typed, TypeOK, network
<1>3. ASSUME NEW m \in Messages, ReportUsage(m) PROVE Rest
  BY <1>3, SendTypes DEF ReportUsage, Typed, TypeOK
<1>4. CASE ReportStatus
  BY <1>4, SendTypes, FineIsMessage DEF ReportStatus, Typed, TypeOK
<1>5. CASE Reconcile
  BY <1>5 DEF Reconcile, FetchKey, Found, InDatabase, Typed, TypeOK, network
<1>6. CASE ThreadDies
  BY <1>6 DEF ThreadDies, Typed, TypeOK, network
<1>7. CASE DeviceRestarts
  BY <1>7 DEF DeviceRestarts, Typed, TypeOK
<1>8. CASE Uses
  BY <1>8 DEF Uses, Typed, TypeOK, network
<1>9. CASE KeyChanges
  BY <1>9 DEF KeyChanges, Typed, TypeOK, network
<1>10. CASE Connect
  BY <1>10 DEF Connect, Typed, TypeOK, device
<1>11. CASE Break
  BY <1>11 DEF Break, Typed, TypeOK, device
<1>12. ASSUME NEW r \in Requests, NEW m \in Messages, CollectFiles(r, m) PROVE Rest
  BY <1>12, SendTypes DEF CollectFiles, Typed, TypeOK, device
<1>13. QED
  BY <1>2, <1>3, <1>4, <1>5, <1>6, <1>7, <1>8, <1>9, <1>10, <1>11, <1>12 DEF Elsewhere

\* An insertion moves on to the next row, to the commit, or out of the handler.
LEMMA InsertTypes ==
    ASSUME Typed, Insert
    PROVE  Typed'
<1> USE DEF Typed, TypeOK, HasRow
<1>1. job \in Jobs /\ job.pc = "insert" /\ job.at \in 1..RowCount /\ Size(job.msg) = RowCount
  BY DEF Insert
<1>2. job.msg \in Messages
  BY <1>1 DEF Jobs
<1>3. UNCHANGED <<todo, alive, key, total, linked, wire>>
  BY DEF Insert, device, network
<1>4. CASE Refused(job.msg, job.at) /\ job' = NoJob /\ UNCHANGED <<tx, stored>>
  BY <1>3, <1>4, NoJobTyped
<1>5. CASE /\ Adds
           /\ job' = [job EXCEPT !.at = @ + 1,
                                 !.pc = IF job.at = RowCount THEN "commit" ELSE "insert"]
  <2>1. Inserted \in AllRows
    BY <1>1, <1>2, InsertedIs
  <2>2. tx' \subseteq AllRows /\ stored' \subseteq AllRows
    BY <1>5, <2>1 DEF Adds
  <2>3. job.at + 1 \in 1..RowCount + 1
    BY <1>1
  <2>4. job' \in Jobs
    BY <1>1, <1>5, <2>3 DEF Jobs
  <2>5. job'.msg = job.msg /\ job'.at = job.at + 1
    BY <1>1, <1>5 DEF Jobs
  <2>6. job'.pc = "insert" => job.at # RowCount
    BY <1>1, <1>5 DEF Jobs
  <2>7. Size(job.msg)' = RowCount
    BY <1>1, <2>5 DEF Size
  <2>8. QED
    BY <1>1, <1>3, <2>2, <2>3, <2>4, <2>5, <2>6, <2>7
<1>6. QED
  BY <1>4, <1>5 DEF Insert

LEMMA TakesTypes ==
    ASSUME Typed, NEW m \in Messages, Takes(m)
    PROVE  Typed'
<1> USE DEF Typed, TypeOK, HasRow
<1>1. UNCHANGED <<todo, alive, key, total, linked>> /\ wire' \subseteq Messages
  BY DEF Takes, device
<1>2. CASE Commits /\ UNCHANGED job
  BY <1>1, <1>2, CommitsTypes DEF Takes
<1>3. CASE /\ job' = [pc |-> IF Size(m) = 0 THEN "commit" ELSE "insert", msg |-> m, at |-> 1]
           /\ UNCHANGED <<tx, stored>>
  <2>1. job' \in Jobs
    BY <1>3 DEF Jobs
  <2>2. job'.msg = m /\ job'.at = 1 /\ (job'.pc = "insert" => Size(m) # 0)
    BY <1>3
  <2>3. job'.pc = "insert" => Size(job.msg)' = RowCount
    BY <2>2, Sizes DEF Size
  <2>4. QED
    BY <1>1, <1>3, <2>1, <2>2, <2>3
<1>4. QED
  BY <1>2, <1>3 DEF Takes

LEMMA TypedNext == Typed /\ [Next]_vars => Typed'
<1> SUFFICES ASSUME Typed, [Next]_vars PROVE Typed'
  OBVIOUS
<1>1. CASE Elsewhere
  BY <1>1, ElsewhereTypes
<1>2. CASE \E m \in Messages : Takes(m)
  BY <1>2, TakesTypes
<1>3. CASE Insert
  BY <1>3, InsertTypes
<1>4. CASE Commit
  <2>1. job' \in Jobs /\ job'.pc # "insert"
    BY <1>4 DEF Commit, Typed, TypeOK, Jobs
  <2>2. QED
    BY <1>4, <2>1, CommitsTypes DEF Commit, Typed, TypeOK, HasRow, device, network
<1>5. CASE Acknowledge
  BY <1>5, NoJobTyped DEF Acknowledge, Typed, TypeOK, HasRow, device, network
<1>6. CASE OtherCommits
  BY <1>6, CommitsTypes DEF OtherCommits, Typed, TypeOK, HasRow, device, network
<1>7. CASE ServerRestarts
  BY <1>7, NoJobTyped DEF ServerRestarts, Typed, TypeOK, HasRow, device
<1>8. CASE UNCHANGED vars
  BY <1>8 DEF vars, device, network, server, Typed, TypeOK, HasRow
<1>9. QED
  BY <1>1, <1>2, <1>3, <1>4, <1>5, <1>6, <1>7, <1>8, NextCases

\* The types of the collection hold in every reachable state.
THEOREM TypeCorrect == Spec => []TypeOK
<1>1. Typed => TypeOK
  BY DEF Typed
<1>2. QED
  BY <1>1, TypedInit, TypedNext, PTL DEF Spec

-----------------------------------------------------------------------------
(* Rows of the open transaction *)

\* A handler that inserts has the rows before job.at in the transaction, one that is
\* to commit has them all, and of a report that can be stored nothing is in the
\* transaction unless its handler runs.
SoFar == job.pc = "insert" => \A i \in 1..job.at - 1 : Row(job.msg, i) \in tx

AllInserted == job.pc = "commit" => Rows(job.msg) \subseteq tx

OwnRows ==
    \A m \in Fine :
        (job.pc \in {"insert", "commit"} /\ job.msg = m) \/ Rows(m) \cap tx = {}

Sound == SoFar /\ AllInserted /\ OwnRows /\ AcknowledgedIsStored /\ WholeReports

LEMMA SoundInit == Init => Sound
BY DEF Init, NoJob, Sound, SoFar, AllInserted, OwnRows, AcknowledgedIsStored, WholeReports

\* A commit that takes all rows of a report or none keeps reports whole.
LEMMA CommitsWhole ==
    ASSUME WholeReports, Commits,
           \A m \in Fine : Rows(m) \subseteq tx \/ Rows(m) \cap tx = {}
    PROVE  WholeReports' /\ tx' = {} /\ stored \subseteq stored' /\ tx \subseteq stored'
<1>1. tx' = {} /\ stored' = stored \cup tx
  BY DEF Commits
<1>2. ASSUME NEW m \in Fine
      PROVE  Rows(m) \subseteq stored' \/ Rows(m) \cap stored' = {}
  <2>1. Rows(m) \subseteq tx \/ Rows(m) \cap tx = {}
    OBVIOUS
  <2>2. Rows(m) \subseteq stored \/ Rows(m) \cap stored = {}
    BY DEF WholeReports
  <2>3. QED
    BY <1>1, <2>1, <2>2
<1>3. WholeReports'
  BY <1>2 DEF WholeReports, Rows, Size, Fine, Usage, Files, Odd
<1>4. QED
  BY <1>1, <1>3

\* A handler that is idle has no report of which a part is in the transaction.
LEMMA IdleWhole ==
    ASSUME Sound, job.pc = "idle"
    PROVE  \A m \in Fine : Rows(m) \cap tx = {}
BY DEF Sound, OwnRows

LEMMA TakesSound ==
    ASSUME Typed, Sound, NEW m \in Messages, Takes(m)
    PROVE  Sound'
<1>1. job.pc = "idle" /\ \A f \in Fine : Rows(f) \cap tx = {}
  BY IdleWhole DEF Takes
<1>2. CASE Commits /\ UNCHANGED job
  <2>1. WholeReports' /\ tx' = {}
    BY <1>1, <1>2, CommitsWhole DEF Sound
  <2>2. job'.pc = "idle"
    BY <1>1, <1>2
  <2>3. QED
    BY <2>1, <2>2 DEF Sound, SoFar, AllInserted, OwnRows, AcknowledgedIsStored
<1>3. CASE /\ job' = [pc |-> IF Size(m) = 0 THEN "commit" ELSE "insert", msg |-> m, at |-> 1]
           /\ UNCHANGED <<tx, stored>>
  <2>1. job'.pc \in {"insert", "commit"} /\ job'.msg = m /\ job'.at = 1
    BY <1>3
  <2>2. SoFar'
    BY <2>1 DEF SoFar
  <2>3. AllInserted'
    <3>1. job'.pc = "commit" => Size(m) = 0
      BY <1>3
    <3>2. Size(m) = 0 => Rows(m) = {}
      BY DEF Rows
    <3>3. Rows(job.msg)' = Rows(m)
      BY <2>1 DEF Rows, Size
    <3>4. QED
      BY <3>1, <3>2, <3>3 DEF AllInserted
  <2>4. OwnRows'
    <3>1. ASSUME NEW f \in Fine PROVE (Rows(f) \cap tx)' = {}
      BY <1>1, <1>3 DEF Rows, Size
    <3>2. QED
      BY <3>1 DEF OwnRows, Fine
  <2>5. AcknowledgedIsStored'
    BY <2>1 DEF AcknowledgedIsStored
  <2>6. WholeReports'
    BY <1>3 DEF Sound, WholeReports
  <2>7. QED
    BY <2>2, <2>3, <2>4, <2>5, <2>6 DEF Sound
<1>4. QED
  BY <1>2, <1>3 DEF Takes

LEMMA InsertSound ==
    ASSUME Typed, Sound, Insert
    PROVE  Sound'
<1>1. job.pc = "insert" /\ job \in Jobs /\ job.at \in 1..RowCount /\ Size(job.msg) = RowCount
  BY DEF Insert, Typed, TypeOK, HasRow
<1>2. CASE Refused(job.msg, job.at) /\ job' = NoJob /\ UNCHANGED <<tx, stored>>
  <2>1. job.msg \notin Fine
    BY <1>2, OddIsNotFine DEF Refused
  <2>2. \A m \in Fine : Rows(m) \cap tx = {}
    BY <2>1 DEF Sound, OwnRows
  <2>3. \A m \in Fine : (Rows(m) \cap tx)' = {}
    BY <1>2, <2>2
  <2>4. job'.pc = "idle"
    BY <1>2, NoJobTyped
  <2>5. WholeReports'
    BY <1>2 DEF Sound, WholeReports
  <2>6. QED
    BY <2>3, <2>4, <2>5 DEF Sound, SoFar, AllInserted, OwnRows, AcknowledgedIsStored
<1>3. CASE /\ Adds
           /\ job' = [job EXCEPT !.at = @ + 1,
                                 !.pc = IF job.at = RowCount THEN "commit" ELSE "insert"]
  <2>1. tx' = tx \cup {Row(job.msg, job.at)} /\ stored' = stored
    BY <1>3, InsertedIs DEF Adds
  <2>2. /\ job'.msg = job.msg /\ job'.at = job.at + 1
        /\ job'.pc = IF job.at = RowCount THEN "commit" ELSE "insert"
    BY <1>1, <1>3 DEF Jobs
  <2>3. \A i \in 1..job.at : Row(job.msg, i) \in tx'
    BY <1>1, <2>1 DEF Sound, SoFar
  <2>4. SoFar'
    <3>1. 1..job'.at - 1 = 1..job.at
      BY <1>1, <2>2
    <3>2. QED
      BY <2>2, <2>3, <3>1 DEF SoFar, Row
  <2>5. AllInserted'
    <3>1. SUFFICES ASSUME job'.pc = "commit" PROVE Rows(job.msg) \subseteq tx'
      BY <2>2 DEF AllInserted, Rows, Size
    <3>2. job.at = RowCount
      BY <2>2, <3>1
    <3>3. QED
      BY <1>1, <2>3, <3>2, RowsOf
  <2>6. OwnRows'
    <3>1. SUFFICES ASSUME NEW m \in Fine, m # job.msg PROVE Rows(m) \cap tx' = {}
      BY <2>2 DEF OwnRows, Fine, Rows, Size
    <3>2. Rows(m) \cap tx = {}
      BY <3>1 DEF Sound, OwnRows
    <3>3. Row(job.msg, job.at) \notin Rows(m)
      BY <3>1, RowsOf DEF Row
    <3>4. QED
      BY <2>1, <3>2, <3>3
  <2>7. AcknowledgedIsStored'
    BY <2>2 DEF AcknowledgedIsStored
  <2>8. WholeReports'
    BY <2>1 DEF Sound, WholeReports
  <2>9. QED
    BY <2>4, <2>5, <2>6, <2>7, <2>8 DEF Sound
<1>4. QED
  BY <1>2, <1>3 DEF Insert

LEMMA CommitSound ==
    ASSUME Typed, Sound, Commit
    PROVE  Sound'
<1>1. job.pc = "commit" /\ Commits /\ job' = [job EXCEPT !.pc = "ack"] /\ job \in Jobs
  BY DEF Commit, Typed, TypeOK
<1>2. Rows(job.msg) \subseteq tx
  BY <1>1 DEF Sound, AllInserted
<1>3. \A m \in Fine : Rows(m) \subseteq tx \/ Rows(m) \cap tx = {}
  BY <1>2 DEF Sound, OwnRows
<1>4. WholeReports' /\ tx' = {} /\ tx \subseteq stored'
  BY <1>1, <1>3, CommitsWhole DEF Sound
<1>5. job'.pc = "ack" /\ job'.msg = job.msg
  BY <1>1 DEF Jobs
<1>6. AcknowledgedIsStored'
  BY <1>2, <1>4, <1>5 DEF AcknowledgedIsStored, Rows, Size
<1>7. QED
  BY <1>4, <1>5, <1>6 DEF Sound, SoFar, AllInserted, OwnRows

LEMMA SoundNext == Typed /\ Sound /\ [Next]_vars => Sound'
<1> SUFFICES ASSUME Typed, Sound, [Next]_vars PROVE Sound'
  OBVIOUS
<1>1. ASSUME job' = job, tx' = tx, stored' = stored PROVE Sound'
  BY <1>1 DEF Sound, SoFar, AllInserted, OwnRows, AcknowledgedIsStored, WholeReports
<1>2. CASE Elsewhere \/ UNCHANGED vars
  BY <1>1, <1>2, ElsewhereServer DEF vars, server
<1>3. CASE \E m \in Messages : Takes(m)
  BY <1>3, TakesSound
<1>4. CASE Insert
  BY <1>4, InsertSound
<1>5. CASE Commit
  BY <1>5, CommitSound
<1>6. CASE Acknowledge
  <2>1. job.pc = "ack" /\ job'.pc = "idle" /\ UNCHANGED <<tx, stored>>
    BY <1>6, NoJobTyped DEF Acknowledge
  <2>2. \A m \in Fine : Rows(m) \cap tx = {}
    BY <2>1 DEF Sound, OwnRows
  <2>3. QED
    BY <2>1, <2>2
       DEF Sound, SoFar, AllInserted, OwnRows, AcknowledgedIsStored, WholeReports
<1>7. CASE OtherCommits
  <2>1. job.pc = "idle" /\ job' = job /\ Commits
    BY <1>7 DEF OtherCommits
  <2>2. WholeReports' /\ tx' = {}
    BY <2>1, IdleWhole, CommitsWhole DEF Sound
  <2>3. QED
    BY <2>1, <2>2 DEF Sound, SoFar, AllInserted, OwnRows, AcknowledgedIsStored
<1>8. CASE ServerRestarts
  <2>1. job'.pc = "idle" /\ tx' = {} /\ stored' = stored
    BY <1>8, NoJobTyped DEF ServerRestarts
  <2>2. QED
    BY <2>1 DEF Sound, SoFar, AllInserted, OwnRows, AcknowledgedIsStored, WholeReports
<1>9. QED
  BY <1>2, <1>3, <1>4, <1>5, <1>6, <1>7, <1>8, NextCases

\* A report of which every record can be stored is in the tables whole or not at all,
\* in the shared transaction of every other service.
THEOREM WholeReportsCorrect == Spec => []WholeReports
<1>1. Sound => WholeReports
  BY DEF Sound
<1>2. QED
  BY <1>1, TypedInit, TypedNext, SoundInit, SoundNext, PTL DEF Spec

\* What is acknowledged is committed.
THEOREM AcknowledgedIsStoredCorrect == Spec => []AcknowledgedIsStored
<1>1. Sound => AcknowledgedIsStored
  BY DEF Sound
<1>2. QED
  BY <1>1, TypedInit, TypedNext, SoundInit, SoundNext, PTL DEF Spec

-----------------------------------------------------------------------------
(* The refinement of ReportStore *)

\* A report on the way tells nothing but what the gateway has counted, or files.
Truthful == wire \cap Fine \subseteq Real

LEMMA UsageIsReal ==
    ASSUME Typed
    PROVE  (Usage(total) \in Fine => Usage(total) \in Real)
           /\ \A r \in Requests : Files(r) \in Real
<1>1. total <= total
  BY DEF Typed, TypeOK
<1>2. Usage(total).of = total /\ \A r \in Requests : Files(r).kind = "files"
  BY DEF Usage, Files
<1>3. \A r \in Requests : Files(r) \in Fine
  BY DEF Fine
<1>4. QED
  BY <1>1, <1>2, <1>3 DEF Real

\* What was so stays so: the gateway never counts less.
LEMMA RealGrows ==
    ASSUME Typed, [Next]_vars
    PROVE  Real \subseteq Real' /\ Real' \subseteq Fine
<1>1. total \in Nat /\ total' \in Nat /\ total <= total'
  <2>1. Typed'
    BY TypedNext
  <2>2. total \in Nat /\ total' \in Nat
    BY <2>1 DEF Typed, TypeOK
  <2>3. total' = total \/ total' = total + 1
    BY DEF Next, Round, ReportUsage, ReportStatus, Reconcile, ThreadDies, DeviceRestarts,
           Uses, KeyChanges, Connect, Break, CollectFiles, Takes, ServerStep, Insert,
           Commit, Acknowledge, OtherCommits, ServerRestarts, vars, device
  <2>4. QED
    BY <2>2, <2>3
<1>2. ASSUME NEW m \in Real PROVE m \in Real'
  <2>1. m \in Fine /\ (m.kind = "usage" => m.of <= total)
    BY <1>2 DEF Real
  <2>2. m.kind = "usage" => m.of \in Nat
    <3>1. CASE \E n \in 0..MaxTotal : m = Usage(n)
      BY <3>1 DEF Usage
    <3>2. CASE \E r \in Requests : m = Files(r)
      BY <3>2 DEF Files
    <3>3. QED
      BY <2>1, <3>1, <3>2 DEF Fine
  <2>3. m.kind = "usage" => m.of <= total'
    BY <1>1, <2>1, <2>2
  <2>4. QED
    BY <2>1, <2>3 DEF Real, Fine, Usage, Files
<1>3. Real' \subseteq Fine
  BY DEF Real, Fine, Usage, Files
<1>4. QED
  BY <1>2, <1>3

LEMMA SendTells ==
    ASSUME NEW m, Send(m), Truthful, m \in Fine => m \in Real
    PROVE  wire' \cap Fine \subseteq Real
BY DEF Send, Truthful

LEMMA TruthfulNext == Typed /\ Truthful /\ [Next]_vars => Truthful'
<1> SUFFICES ASSUME Typed, Truthful, [Next]_vars PROVE Truthful'
  OBVIOUS
<1>a. Status \notin Fine /\ Empty \notin Fine /\ Odd \notin Fine
  BY OddIsNotFine DEF Status, Empty, Fine, Usage, Files
<1>1. SUFFICES wire' \cap Fine \subseteq Real
  <2>1. Truthful' <=> wire' \cap Fine \subseteq Real'
    BY DEF Truthful, Fine, Usage, Files
  <2>2. QED
    BY <2>1, <1>1, RealGrows
<1>2. ASSUME NEW m \in Messages, ReportUsage(m) PROVE wire' \cap Fine \subseteq Real
  <2>1. Send(m) /\ (m = Usage(total) \/ m = Odd \/ m = Empty)
    BY <1>2 DEF ReportUsage, CollectUsage
  <2>2. m \in Fine => m \in Real
    BY <2>1, <1>a, UsageIsReal
  <2>3. QED
    BY <2>1, <2>2, SendTells
<1>3. ASSUME ReportStatus PROVE wire' \cap Fine \subseteq Real
  <2>1. Send(Status)
    BY <1>3 DEF ReportStatus
  <2>2. QED
    BY <2>1, <1>a, SendTells
<1>4. ASSUME NEW r \in Requests, NEW m \in Messages, CollectFiles(r, m)
      PROVE  wire' \cap Fine \subseteq Real
  <2>1. Send(m) /\ (m = Files(r) \/ m = Empty)
    BY <1>4 DEF CollectFiles, FilesOf
  <2>2. m \in Fine => m \in Real
    BY <2>1, <1>a, UsageIsReal
  <2>3. QED
    BY <2>1, <2>2, SendTells
<1>5. ASSUME wire' \subseteq wire PROVE wire' \cap Fine \subseteq Real
  BY <1>5 DEF Truthful
<1>6. QED
  BY <1>2, <1>3, <1>4, <1>5
  DEF Next, Round, Reconcile, ThreadDies, DeviceRestarts, Uses, KeyChanges, Connect,
      Break, Takes, ServerStep, Insert, Commit, Acknowledge, OtherCommits,
      ServerRestarts, vars, network

\* A commit between two handlers completes no report, and one of a handler its own.
LEMMA CommitsKeep ==
    ASSUME Commits, \A m \in Fine : Rows(m) \subseteq tx \/ Rows(m) \cap tx = {}, WholeReports
    PROVE  Kept' = Kept \cup {m \in Fine : Rows(m) \subseteq tx}
<1>1. stored' = stored \cup tx
  BY DEF Commits
<1>2. ASSUME NEW m \in Fine
      PROVE  Rows(m) \subseteq stored' <=> (Rows(m) \subseteq stored \/ Rows(m) \subseteq tx)
  <2>1. Rows(m) \subseteq tx \/ Rows(m) \cap tx = {}
    OBVIOUS
  <2>2. QED
    BY <1>1, <2>1
<1>3. Kept' = {m \in Fine : Rows(m) \subseteq stored'}
  BY DEF Kept, Rows, Size, Fine, Usage, Files, Odd
<1>4. QED
  BY <1>2, <1>3 DEF Kept

LEMMA FineHasRows == \A m \in Fine : Rows(m) # {}
<1>1. ASSUME NEW m \in Fine PROVE Rows(m) # {}
  <2>1. Size(m) = RowCount /\ 1 \in 1..RowCount
    BY <1>1, FineSize
  <2>2. Row(m, 1) \in Rows(m)
    BY <2>1 DEF Rows, Row
  <2>3. QED
    BY <2>2
<1>2. QED
  BY <1>1

\* What ReportStore sees of a handler, by its place.
LEMMA HandlerIs ==
    /\ job.pc = "idle" => Current = {} /\ Answer = {}
    /\ job.pc \in {"insert", "commit"} =>
          Answer = {} /\ Current = IF job.msg \in Fine THEN {job.msg} ELSE {}
    /\ job.pc = "ack" => Current = {} /\ Answer = IF job.msg \in Fine THEN {job.msg} ELSE {}
BY DEF Current, Answer

LEMMA StoreInit == Init => S!Init
<1> SUFFICES ASSUME Init PROVE S!Init
  OBVIOUS
<1>1. job.pc = "idle" /\ stored = {}
  BY NoJobTyped DEF Init
<1>2. Kept = {}
  BY <1>1, FineHasRows DEF Kept
<1>3. Real \subseteq Fine
  BY DEF Real
<1>4. QED
  BY <1>1, <1>2, <1>3, HandlerIs DEF S!Init

LEMMA StoreNext == Typed /\ Sound /\ Truthful /\ [Next]_vars => [S!Next]_(S!vars)
<1> DEFINE Same == UNCHANGED <<Real, Current, Answer, Kept>>
           Goal == S!Next \/ Same
<1> SUFFICES ASSUME Typed, Sound, Truthful, [Next]_vars PROVE Goal
  BY DEF S!vars
<1>a. Real \subseteq Real' /\ Real' \subseteq Fine /\ job \in Jobs
  BY RealGrows DEF Typed, TypeOK
<1>b. ASSUME total' = total PROVE Real' = Real
  BY <1>b DEF Real, Fine, Usage, Files
<1>c. ASSUME stored' = stored PROVE Kept' = Kept
  BY <1>c DEF Kept, Rows, Size, Fine, Usage, Files, Odd
<1>d. ASSUME job' = job PROVE Current' = Current /\ Answer' = Answer
  BY <1>d DEF Current, Answer, Fine, Usage, Files
<1>e. \A m \in Fine : m \in Fine'
  BY DEF Fine, Usage, Files
<1>f. WholeReports /\ OwnRows /\ AllInserted
  BY DEF Sound
<1>1. CASE Elsewhere
  <2>1. job' = job /\ stored' = stored
    BY <1>1, ElsewhereServer
  <2>2. UNCHANGED <<Current, Answer, Kept>>
    BY <2>1, <1>c, <1>d
  <2>3. S!Happen
    BY <2>2, <1>a DEF S!Happen
  <2>4. QED
    BY <2>3 DEF S!Next
<1>2. ASSUME NEW m \in Messages, Takes(m) PROVE Goal
  <2>1. job.pc = "idle" /\ m \in wire /\ total' = total
    BY <1>2 DEF Takes, device
  <2>2. Current = {} /\ Answer = {} /\ Real' = Real
    BY <2>1, <1>b, HandlerIs
  <2>3. CASE Commits /\ UNCHANGED job
    <3>1. \A f \in Fine : Rows(f) \cap tx = {}
      BY <2>1, IdleWhole
    <3>2. {f \in Fine : Rows(f) \subseteq tx} = {}
      BY <3>1, FineHasRows
    <3>3. Kept' = Kept
      BY <2>3, <3>1, <3>2, <1>f, CommitsKeep
    <3>4. QED
      BY <2>2, <2>3, <3>3, <1>d
  <2>4. CASE /\ job' = [pc |-> IF Size(m) = 0 THEN "commit" ELSE "insert", msg |-> m, at |-> 1]
             /\ UNCHANGED <<tx, stored>>
    <3>1. Kept' = Kept
      BY <2>4, <1>c
    <3>2. job'.pc \in {"insert", "commit"} /\ job'.msg = m
      BY <2>4
    <3>3. Answer' = {} /\ Current' = IF m \in Fine THEN {m} ELSE {}
      BY <3>2 DEF Current, Answer, Fine, Usage, Files
    <3>4. CASE m \in Fine
      <4>1. m \in Real
        BY <2>1, <3>4 DEF Truthful
      <4>2. S!Begin(m)
        BY <2>2, <3>1, <3>3, <3>4, <4>1 DEF S!Begin
      <4>3. QED
        BY <3>4, <4>2 DEF S!Next
    <3>5. CASE m \notin Fine
      BY <2>2, <3>1, <3>3, <3>5
    <3>6. QED
      BY <3>4, <3>5
  <2>5. QED
    BY <1>2, <2>3, <2>4 DEF Takes
<1>3. CASE Insert
  <2>1. job.pc = "insert" /\ total' = total /\ stored' = stored
    BY <1>3 DEF Insert, Adds, device
  <2>2. Real' = Real /\ Kept' = Kept /\ Answer = {}
    BY <2>1, <1>b, <1>c, HandlerIs
  <2>3. CASE Refused(job.msg, job.at)
    <3>1. job.msg \notin Fine /\ job' = NoJob
      BY <1>3, <2>3, OddIsNotFine DEF Insert, Refused
    <3>2. Current = {} /\ job'.pc = "idle"
      BY <2>1, <3>1, HandlerIs, NoJobTyped
    <3>3. Current' = {} /\ Answer' = {}
      BY <3>2 DEF Current, Answer
    <3>4. QED
      BY <2>2, <3>2, <3>3
  <2>4. CASE ~Refused(job.msg, job.at)
    <3>1. job' = [job EXCEPT !.at = @ + 1,
                             !.pc = IF job.at = RowCount THEN "commit" ELSE "insert"]
      BY <1>3, <2>4 DEF Insert
    <3>2. job'.pc \in {"insert", "commit"} /\ job'.msg = job.msg
      BY <3>1, <1>a DEF Jobs
    <3>3. Answer' = {} /\ Current' = Current
      BY <2>1, <3>2 DEF Current, Answer, Fine, Usage, Files
    <3>4. QED
      BY <2>2, <3>3
  <2>5. QED
    BY <2>3, <2>4
<1>4. CASE Commit
  <2>1. job.pc = "commit" /\ total' = total /\ Commits /\ job' = [job EXCEPT !.pc = "ack"]
    BY <1>4 DEF Commit, device
  <2>2. job'.pc = "ack" /\ job'.msg = job.msg /\ Real' = Real
    BY <2>1, <1>a, <1>b DEF Jobs
  <2>3. Rows(job.msg) \subseteq tx
    BY <2>1, <1>f DEF AllInserted
  <2>4. \A m \in Fine : m = job.msg \/ Rows(m) \cap tx = {}
    BY <1>f DEF OwnRows
  <2>5. \A m \in Fine : Rows(m) \subseteq tx \/ Rows(m) \cap tx = {}
    BY <2>3, <2>4
  <2>6. {m \in Fine : Rows(m) \subseteq tx} = IF job.msg \in Fine THEN {job.msg} ELSE {}
    BY <2>3, <2>4, FineHasRows
  <2>7. Kept' = Kept \cup (IF job.msg \in Fine THEN {job.msg} ELSE {})
    BY <2>1, <2>5, <2>6, <1>f, CommitsKeep
  <2>8. /\ Answer = {} /\ Current' = {}
        /\ Current = IF job.msg \in Fine THEN {job.msg} ELSE {}
        /\ Answer' = IF job.msg \in Fine THEN {job.msg} ELSE {}
    BY <2>1, <2>2 DEF Current, Answer, Fine, Usage, Files
  <2>9. CASE job.msg \in Fine
    <3>1. S!Keep(job.msg)
      BY <2>2, <2>7, <2>8, <2>9 DEF S!Keep
    <3>2. QED
      BY <2>9, <3>1 DEF S!Next
  <2>10. CASE job.msg \notin Fine
    BY <2>2, <2>7, <2>8, <2>10
  <2>11. QED
    BY <2>9, <2>10
<1>5. CASE Acknowledge
  <2>1. job.pc = "ack" /\ job'.pc = "idle" /\ total' = total /\ stored' = stored
    BY <1>5, NoJobTyped DEF Acknowledge, device
  <2>2. Current = {} /\ Current' = {} /\ Answer' = {} /\ UNCHANGED <<Real, Kept>>
    BY <2>1, <1>b, <1>c DEF Current, Answer
  <2>3. QED
    BY <2>2 DEF S!Next, S!End
<1>6. CASE OtherCommits
  <2>1. job.pc = "idle" /\ total' = total /\ job' = job /\ Commits
    BY <1>6 DEF OtherCommits, device
  <2>2. \A f \in Fine : Rows(f) \cap tx = {}
    BY <2>1, IdleWhole
  <2>3. {f \in Fine : Rows(f) \subseteq tx} = {}
    BY <2>2, FineHasRows
  <2>4. Kept' = Kept
    BY <2>1, <2>2, <2>3, <1>f, CommitsKeep
  <2>5. QED
    BY <2>1, <2>4, <1>b, <1>d
<1>7. CASE ServerRestarts
  <2>1. job'.pc = "idle" /\ total' = total /\ stored' = stored
    BY <1>7, NoJobTyped DEF ServerRestarts, device
  <2>2. Current' = {} /\ Answer' = {} /\ UNCHANGED <<Real, Kept>>
    BY <2>1, <1>b, <1>c DEF Current, Answer
  <2>3. QED
    BY <2>2 DEF S!Next, S!End
<1>8. CASE UNCHANGED vars
  BY <1>8, <1>b, <1>c, <1>d DEF vars, device, server
<1>9. QED
  BY <1>1, <1>2, <1>3, <1>4, <1>5, <1>6, <1>7, <1>8, NextCases

\* The server stores what ReportStore promises: whatever is refused, cut short or
\* committed by others, only whole reports that were so come to be stored, each before
\* its acknowledgement, and none is lost again.
THEOREM StoreCorrect == Spec => StoreSpec
<1>1. Init => Typed /\ Sound /\ Truthful
  BY TypedInit, SoundInit DEF Init, Truthful
<1>2. Typed /\ Sound /\ Truthful /\ [Next]_vars => (Typed /\ Sound /\ Truthful)'
  BY TypedNext, SoundNext, TruthfulNext
<1>3. QED
  BY <1>1, <1>2, StoreInit, StoreNext, PTL DEF Spec, StoreSpec, S!Spec
=============================================================================
