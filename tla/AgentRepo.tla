------------------------------ MODULE AgentRepo ------------------------------
(***************************************************************************)
(* One package of the agent repository: its rows in agent_configs,         *)
(* agent_versions and deploy_status (server/agent_repo.py), the admin      *)
(* endpoints that change them and push versions to devices                 *)
(* (server/main.py), and what the devices and their receipts do            *)
(* (sidecar/dispatch.py, server/dispatch.py).                              *)
(*                                                                         *)
(* No table or endpoint relates two packages, so one is modelled.  Between *)
(* the server and a device messages and receipts are sets: a message       *)
(* queued for an offline device can be overtaken by one sent directly, may *)
(* be delivered again after a send that raised, or be lost (DeviceSession  *)
(* has the details).                                                       *)
(*                                                                         *)
(* A version k stands for "1.k.0"; what an administrator types is such a   *)
(* version, or None for a version that is missing.                         *)
(***************************************************************************)
EXTENDS Naturals, FiniteSets

CONSTANTS
    Devices,     \* device ids
    AgentIds,    \* ids CherryStudio gives its agents
    PackageIds,  \* agent ids an administrator puts into packages, and None
    Given,       \* versions an administrator types, and None
    Pushers,     \* coroutines that can be inside _push_agents at once
    None,
    MaxRev,      \* bound: revs of the package
    MaxSent,     \* bound: dispatches
    MaxDeletes   \* bound: how often the package is deleted

ASSUME AgentRepoAssumption ==
    /\ None \notin AgentIds /\ None \notin Nat
    /\ PackageIds \subseteq AgentIds \cup {None}
    /\ Given \subseteq Nat \cup {None}
    /\ MaxRev \in Nat /\ MaxSent \in Nat /\ MaxDeletes \in Nat

VARIABLES
    versions,   \* the rows of agent_versions
    latest,     \* agent_configs.latest_rev, 0 without a row
    deploy,     \* deploy_status of each device
    push,       \* the coroutines in _push_agents
    way,        \* messages for a device, queued or written
    sent,       \* request ids used so far
    receipts,   \* successful results on the way back
    seen,       \* request ids a device has executed
    exists,     \* the agents CherryStudio has on a device
    content,    \* the version of the package an agent has, if any
    deletes,
    had,        \* auxiliary: what a device has installed
    ever        \* auxiliary: all rows that versions has had

repo == <<versions, latest, ever>>
device == <<seen, exists, content, had>>
vars == <<repo, deploy, push, way, sent, receipts, device, deletes>>

Rows == [rev : 1..MaxRev, version : Nat, id : AgentIds \cup {None}]
Deployed == [rev : 1..MaxRev, version : Nat]
Messages == [req : 1..MaxSent, row : Rows, careful : BOOLEAN]
Pushes == [row : Rows, todo : SUBSET Devices, careful : BOOLEAN]

NoRow == [rev |-> 0, version |-> 0, id |-> None]
NoDeploy == [rev |-> 0, version |-> 0]
NoPush == [row |-> NoRow, todo |-> {}, careful |-> FALSE]

TypeOK ==
    /\ versions \subseteq Rows /\ latest \in 0..MaxRev
    /\ deploy \in [Devices -> Deployed \cup {NoDeploy}]
    /\ push \in [Pushers -> Pushes \cup {NoPush}]
    /\ way \in [Devices -> SUBSET Messages] /\ sent \in 0..MaxSent
    /\ receipts \in [Devices -> SUBSET Deployed]
    /\ seen \in [Devices -> SUBSET (1..MaxSent)]
    /\ exists \in [Devices -> SUBSET AgentIds]
    /\ content \in [Devices -> [AgentIds -> Rows \cup {NoRow}]]
    /\ deletes \in 0..MaxDeletes
    /\ had \in [Devices -> SUBSET Deployed]
    /\ ever \subseteq Rows

\* Nothing is in the repository; the employees may have agents of their own.
Init ==
    /\ versions = {} /\ latest = 0 /\ ever = {}
    /\ deploy = [d \in Devices |-> NoDeploy]
    /\ push = [p \in Pushers |-> NoPush]
    /\ way = [d \in Devices |-> {}] /\ sent = 0
    /\ receipts = [d \in Devices |-> {}]
    /\ seen = [d \in Devices |-> {}]
    /\ exists \in [Devices -> SUBSET AgentIds]
    /\ content = [d \in Devices |-> [i \in AgentIds |-> NoRow]]
    /\ deletes = 0
    /\ had = [d \in Devices |-> {}]

-----------------------------------------------------------------------------
(* AgentRepo *)

FirstVersion == 0                   \* "1.0.0"
Version(rev) == CHOOSE v \in {row.version : row \in {x \in versions : x.rev = rev}} : TRUE

\* MAX(rev)+1 over the rows of agent_versions, 1 when there is none.
NextRevLatest == latest
NextRev == IF versions = {} THEN 1
           ELSE 1 + CHOOSE m \in {row.rev : row \in versions} : \A row \in versions : row.rev <= m

\* A version that is missing or that of the latest rev becomes "1.{next_rev}.0".
NextVersionMissing(v) == IF v = Version(latest) THEN NextRev ELSE v
NextVersion(v) == IF v = None \/ v = Version(latest) THEN NextRev ELSE v

Insert(rev, version, id) ==
    /\ rev <= MaxRev
    /\ LET row == [rev |-> rev, version |-> version, id |-> id]
       IN  versions' = versions \cup {row} /\ ever' = ever \cup {row}
    /\ latest' = rev

CreateConfig(v, id) ==
    Insert(1, IF v = None THEN FirstVersion ELSE v, id)

UpdateInPlace(v, id) ==
    /\ latest < MaxRev
    /\ LET new == [rev |-> NextRev, version |-> NextVersion(v), id |-> id]
       IN  /\ versions' = {row \in versions : row.rev # latest} \cup {new}
           /\ ever' = ever \cup {new}
    /\ latest' = NextRev
UpdateConfig(v, id) ==
    Insert(NextRev, NextVersion(v), id)

\* record_deploy, an UPSERT whatever the repository holds by now.
RecordLatest(d, x) == deploy' = [deploy EXCEPT ![d] = [x EXCEPT !.rev = latest]]
RecordDeploy(d, x) == deploy' = [deploy EXCEPT ![d] = x]

-----------------------------------------------------------------------------
(* The admin endpoints *)

\* POST agent-configs and agent-configs/import: 409 when the package is there.
Create(v, id) ==
    /\ latest = 0
    /\ CreateConfig(v, id)
    /\ UNCHANGED <<deploy, push, way, sent, receipts, device, deletes>>

\* PUT agent-configs/{name}: 404 without the package, 400 without an agent id.
Update(v, id) ==
    /\ latest # 0 /\ id # None
    /\ UpdateConfig(v, id)
    /\ UNCHANGED <<deploy, push, way, sent, receipts, device, deletes>>

\* devices/{device_id}/agent-import: an agent of a device, as version 1.0.0,
\* creates the package or becomes its next rev.
Import(d, i) ==
    /\ i \in exists[d] \cap PackageIds
    /\ \/ latest = 0 /\ CreateConfig(FirstVersion, i)
       \/ latest # 0 /\ UpdateConfig(FirstVersion, i)
    /\ UNCHANGED <<deploy, push, way, sent, receipts, device, deletes>>

\* DELETE agent-configs/{name}: the rows of all three tables.  A package is
\* never locked: set_locked has no caller.
DeleteLeavesDeploy ==
    /\ latest # 0
    /\ deletes < MaxDeletes /\ deletes' = deletes + 1
    /\ versions' = {} /\ latest' = 0
    /\ UNCHANGED <<ever, deploy, push, way, sent, receipts, device>>
Delete ==
    /\ latest # 0
    /\ deletes < MaxDeletes /\ deletes' = deletes + 1
    /\ versions' = {} /\ latest' = 0
    /\ deploy' = [d \in Devices |-> NoDeploy]
    /\ UNCHANGED <<ever, push, way, sent, receipts, device>>

\* push/agents and agent-configs/{name}/rollback-to/{rev}: the version is read
\* once, before the loop over the devices; careful is if_changed.
StartPush(p, row, targets, careful) ==
    /\ push[p] = NoPush
    /\ targets # {}
    /\ push' = [push EXCEPT ![p] = [row |-> row, todo |-> targets, careful |-> careful]]
    /\ UNCHANGED <<repo, deploy, way, sent, receipts, device, deletes>>

Rest(p, d) ==
    LET todo == push[p].todo \ {d}
    IN  IF todo = {} THEN NoPush ELSE [push[p] EXCEPT !.todo = todo]

UpToDate(p, d) == push[p].careful /\ deploy[d].rev >= push[p].row.rev

\* The next device is skipped, or the dispatch to it starts.
PushSkips(p, d) ==
    /\ d \in push[p].todo
    /\ UpToDate(p, d)
    /\ push' = [push EXCEPT ![p] = Rest(p, d)]
    /\ UNCHANGED <<repo, deploy, way, sent, receipts, device, deletes>>

PushSends(p, d) ==
    /\ d \in push[p].todo
    /\ ~UpToDate(p, d)
    /\ sent < MaxSent /\ sent' = sent + 1
    /\ way' = [way EXCEPT ![d] = @ \cup
                 {[req |-> sent', row |-> push[p].row, careful |-> push[p].careful]}]
    /\ push' = [push EXCEPT ![p] = Rest(p, d)]
    /\ UNCHANGED <<repo, deploy, receipts, device, deletes>>

\* confirm_agent_deploy of a successful result that names its rev.
Confirm(d, x) ==
    /\ x \in receipts[d]
    /\ RecordDeploy(d, x)
    /\ receipts' = [receipts EXCEPT ![d] = @ \ {x}]
    /\ UNCHANGED <<repo, push, way, sent, device, deletes>>

-----------------------------------------------------------------------------
(* The device and the network *)

\* A package without an agent id creates an agent, any other updates its agent.
Place(d, row) == IF row.id = None THEN AgentIds \ exists[d] ELSE {row.id} \cap exists[d]

Apply(d, i, row) ==
    /\ exists' = [exists EXCEPT ![d] = @ \cup {i}]
    /\ content' = [content EXCEPT ![d][i] = row]
    /\ had' = [had EXCEPT ![d] = @ \cup {[rev |-> row.rev, version |-> row.version]}]

\* The message is executed, or not because the agent is not there or the call
\* fails, possibly after it took effect; only a success names its rev.  The
\* message stays when the server's send raised all the same.
Execute(d, m) ==
    /\ m \in way[d] /\ m.req \notin seen[d]
    /\ seen' = [seen EXCEPT ![d] = @ \cup {m.req}]
    /\ \E again \in BOOLEAN : way' = [way EXCEPT ![d] = IF again THEN @ ELSE @ \ {m}]
    /\ \/ /\ \E i \in Place(d, m.row) : Apply(d, i, m.row)
          /\ \/ receipts' = [receipts EXCEPT ![d] = @ \cup
                               {[rev |-> m.row.rev, version |-> m.row.version]}]
             \/ UNCHANGED receipts
       \/ UNCHANGED <<exists, content, had, receipts>>
    /\ UNCHANGED <<repo, deploy, push, sent, deletes>>

\* A request id that comes again is answered without a rev.
Skip(d, m) ==
    /\ m \in way[d] /\ m.req \in seen[d]
    /\ way' = [way EXCEPT ![d] = @ \ {m}]
    /\ UNCHANGED <<repo, deploy, push, sent, receipts, device, deletes>>

\* The connection breaks: what was written on it may be lost.
Cut(d) ==
    /\ \E lost \in SUBSET way[d] : way' = [way EXCEPT ![d] = @ \ lost]
    /\ \E lost \in SUBSET receipts[d] : receipts' = [receipts EXCEPT ![d] = @ \ lost]
    /\ UNCHANGED <<repo, deploy, push, sent, device, deletes>>

-----------------------------------------------------------------------------

Next ==
    \/ \E v \in Given, id \in PackageIds : Create(v, id) \/ Update(v, id)
    \/ Delete
    \/ \E p \in Pushers :
          \/ \E row \in versions, targets \in SUBSET Devices, careful \in BOOLEAN :
                StartPush(p, row, targets, careful)
          \/ \E d \in Devices : PushSkips(p, d) \/ PushSends(p, d)
    \/ \E d \in Devices :
          \/ \E i \in AgentIds : Import(d, i)
          \/ \E x \in receipts[d] : Confirm(d, x)
          \/ \E m \in way[d] : Execute(d, m) \/ Skip(d, m)
          \/ Cut(d)

Spec == Init /\ [][Next]_vars

-----------------------------------------------------------------------------
(* What must hold *)

\* agent_versions and agent_configs agree: the revs are 1 to latest_rev, each
\* once, through updates, imports over an existing package and deletions.
RevsAreContiguous ==
    /\ {row.rev : row \in versions} = 1..latest
    /\ \A x, y \in versions : x.rev = y.rev => x = y

\* A row of the history is never changed, and goes only when the package goes.
HistoryIsKept == [][versions \subseteq versions' \/ latest' = 0]_vars

\* More than that (Publication): the rows are a history to which versions are appended,
\* a device installs only rows that were once in it, each into the agent it names, and
\* the anchors tell only what was installed.
P == INSTANCE Publication WITH
         Agents <- AgentIds, Unknown <- NoDeploy,
         history <- [k \in 1..latest |-> CHOOSE row \in versions : row.rev = k],
         published <- ever, installed <- had, anchor <- deploy
PublicationSpec == P!Spec

\* The reconciliation anchor is true: what deploy_status says of a device the
\* device has installed, whatever was lost, overtaken or delivered again.
DeployedWasInstalled ==
    \A d \in Devices : deploy[d] # NoDeploy => deploy[d] \in had[d]

\* As long as the package is not deleted, a rev means the same on the server, in
\* deploy_status and on every device, pushes under way included.
RevIsTheSameEverywhere ==
    deletes = 0 => \A d \in Devices :
        /\ deploy[d] # NoDeploy =>
              \E row \in versions : row.rev = deploy[d].rev /\ row.version = deploy[d].version
        /\ \A i \in AgentIds : content[d][i] # NoRow => content[d][i] \in versions
        /\ \A m \in way[d] : m.row \in versions

=============================================================================
