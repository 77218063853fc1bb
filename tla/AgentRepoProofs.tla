--------------------------- MODULE AgentRepoProofs ---------------------------
(* Theorems about AgentRepo, for any devices, agents, versions and bounds.    *)
EXTENDS AgentRepo, SequenceTheorems, TLAPS

USE AgentRepoAssumption

-----------------------------------------------------------------------------
(* What the steps do to the repository *)

\* MAX(rev)+1 is the rev after the latest.
LEMMA NextRevIsNext ==
    ASSUME TypeOK, RevsAreContiguous
    PROVE  NextRev = latest + 1
<1> DEFINE R == {row.rev : row \in versions}
<1>1. R = 1..latest /\ latest \in Nat
  BY DEF RevsAreContiguous, TypeOK
<1>2. CASE versions = {}
  <2>1. R = {}
    BY <1>2
  <2>2. latest = 0
    <3>1. latest > 0 => 1 \in 1..latest
      BY <1>1
    <3> QED BY <1>1, <2>1, <3>1
  <2> QED BY <1>2, <2>2 DEF NextRev
<1>3. CASE versions # {}
  <2> DEFINE M(m) == m \in R /\ \A row \in versions : row.rev <= m
  <2>1. latest \in R
    <3>1. PICK row \in versions : TRUE
      BY <1>3
    <3>2. row.rev \in 1..latest
      BY <1>1
    <3> QED BY <1>1, <3>2
  <2>2. \A row \in versions : row.rev \in 1..latest
    BY <1>1
  <2>3. M(latest)
    BY <1>1, <2>1, <2>2
  <2>4. ASSUME NEW m, M(m) PROVE m = latest
    <3>1. PICK top \in versions : top.rev = latest
      BY <2>1
    <3>2. m \in 1..latest /\ latest <= m
      BY <1>1, <2>4, <3>1
    <3> QED BY <1>1, <3>2
  <2>5. (CHOOSE m \in R : \A row \in versions : row.rev <= m) = latest
    <3>1. \E m \in R : \A row \in versions : row.rev <= m
      BY <2>3
    <3> DEFINE c == CHOOSE m \in R : \A row \in versions : row.rev <= m
    <3>2. M(c)
      BY <3>1
    <3> HIDE DEF c, M
    <3>3. c = latest
      BY <2>4, <3>2
    <3> QED BY <3>3 DEF c
  <2> QED BY <1>1, <1>3, <2>5 DEF NextRev
<1> QED BY <1>2, <1>3

\* Either nothing changes, or a row is added, or the package is deleted.
Added(version, id) ==
    /\ latest + 1 <= MaxRev
    /\ versions' = versions \cup {[rev |-> latest + 1, version |-> version, id |-> id]}
    /\ ever' = ever \cup {[rev |-> latest + 1, version |-> version, id |-> id]}
    /\ latest' = latest + 1

Emptied == versions' = {} /\ latest' = 0 /\ ever' = ever /\ deletes' # 0

LEMMA CreateAdds ==
    ASSUME TypeOK, RevsAreContiguous, latest = 0,
           NEW v \in Nat \cup {None}, NEW id \in AgentIds \cup {None}, CreateConfig(v, id)
    PROVE  \E n \in Nat : Added(n, id)
<1>1. FirstVersion \in Nat
  BY DEF FirstVersion
<1>2. (IF v = None THEN FirstVersion ELSE v) \in Nat
  BY <1>1
<1> QED BY <1>2 DEF CreateConfig, Insert, Added

LEMMA UpdateAdds ==
    ASSUME TypeOK, RevsAreContiguous,
           NEW v \in Nat \cup {None}, NEW id \in AgentIds \cup {None}, UpdateConfig(v, id)
    PROVE  \E n \in Nat : Added(n, id)
<1>1. NextRev = latest + 1 /\ latest + 1 \in Nat
  BY NextRevIsNext DEF TypeOK
<1>2. NextVersion(v) \in Nat
  BY <1>1 DEF NextVersion
<1> QED BY <1>1, <1>2 DEF UpdateConfig, Insert, Added

\* The repository is one such change, whatever the step.
LEMMA RepoStep ==
    ASSUME TypeOK, RevsAreContiguous, [Next]_vars
    PROVE  \/ UNCHANGED repo
           \/ \E n \in Nat, id \in AgentIds \cup {None} :
                 Added(n, id) /\ UNCHANGED <<deploy, push, way, receipts, content, had>>
           \/ Emptied /\ deploy' = [d \in Devices |-> NoDeploy] /\ UNCHANGED <<content, had>>
<1>1. ASSUME NEW v \in Given, NEW id \in PackageIds, Create(v, id) \/ Update(v, id)
      PROVE  /\ \E n \in Nat : Added(n, id)
             /\ id \in AgentIds \cup {None}
             /\ UNCHANGED <<deploy, push, way, receipts, content, had>>
  <2>1. v \in Nat \cup {None} /\ id \in AgentIds \cup {None}
    OBVIOUS
  <2>2. CASE Create(v, id)
    BY <2>1, <2>2, CreateAdds DEF Create, device
  <2>3. CASE Update(v, id)
    BY <2>1, <2>3, UpdateAdds DEF Update, device
  <2> QED BY <1>1, <2>2, <2>3
<1>2. ASSUME NEW d \in Devices, NEW i \in AgentIds, Import(d, i)
      PROVE  /\ \E n \in Nat : Added(n, i)
             /\ UNCHANGED <<deploy, push, way, receipts, content, had>>
  <2>1. FirstVersion \in Nat \cup {None}
    BY DEF FirstVersion
  <2>2. \E n \in Nat : Added(n, i)
    BY <1>2, <2>1, CreateAdds, UpdateAdds DEF Import
  <2> QED BY <1>2, <2>2 DEF Import, device
<1>3. CASE Delete
  BY <1>3 DEF Delete, Emptied, device, TypeOK
<1>4. ASSUME NEW p \in Pushers, NEW row \in versions, NEW targets \in SUBSET Devices,
             NEW careful \in BOOLEAN, StartPush(p, row, targets, careful)
      PROVE  UNCHANGED repo
  BY <1>4 DEF StartPush
<1>5. ASSUME NEW p \in Pushers, NEW d \in Devices, PushSkips(p, d) \/ PushSends(p, d)
      PROVE  UNCHANGED repo
  BY <1>5 DEF PushSkips, PushSends
<1>6. ASSUME NEW d \in Devices, NEW x \in receipts[d], Confirm(d, x)
      PROVE  UNCHANGED repo
  BY <1>6 DEF Confirm
<1>7. ASSUME NEW d \in Devices, NEW m \in way[d], Execute(d, m) \/ Skip(d, m)
      PROVE  UNCHANGED repo
  BY <1>7 DEF Execute, Skip
<1>8. ASSUME NEW d \in Devices, Cut(d) PROVE UNCHANGED repo
  BY <1>8 DEF Cut
<1>9. CASE UNCHANGED vars
  BY <1>9 DEF vars
<1> QED BY <1>1, <1>2, <1>3, <1>4, <1>5, <1>6, <1>7, <1>8, <1>9 DEF Next

-----------------------------------------------------------------------------
(* The repository: types and history *)

LEMMA RowTyped ==
    ASSUME TypeOK, NEW n \in Nat, NEW id \in AgentIds \cup {None}, latest + 1 <= MaxRev
    PROVE  [rev |-> latest + 1, version |-> n, id |-> id] \in Rows
  BY DEF Rows, TypeOK

LEMMA RepoTypes ==
    ASSUME TypeOK, RevsAreContiguous, [Next]_vars
    PROVE  versions' \subseteq Rows /\ ever' \subseteq Rows /\ latest' \in 0..MaxRev
<1>1. versions \subseteq Rows /\ ever \subseteq Rows /\ latest \in 0..MaxRev
  BY DEF TypeOK
<1>2. CASE UNCHANGED repo
  BY <1>1, <1>2 DEF repo
<1>3. ASSUME NEW n \in Nat, NEW id \in AgentIds \cup {None}, Added(n, id)
      PROVE  versions' \subseteq Rows /\ ever' \subseteq Rows /\ latest' \in 0..MaxRev
  BY <1>1, <1>3, RowTyped DEF Added
<1>4. CASE Emptied
  BY <1>1, <1>4 DEF Emptied
<1> QED BY <1>2, <1>3, <1>4, RepoStep

LEMMA RevsStep ==
    ASSUME TypeOK, RevsAreContiguous, [Next]_vars
    PROVE  RevsAreContiguous'
<1>1. latest \in Nat
  BY DEF TypeOK
<1>2. CASE UNCHANGED repo
  BY <1>2 DEF repo, RevsAreContiguous
<1>3. ASSUME NEW n \in Nat, NEW id \in AgentIds \cup {None}, Added(n, id)
      PROVE  RevsAreContiguous'
  <2> DEFINE new == [rev |-> latest + 1, version |-> n, id |-> id]
  <2>1. versions' = versions \cup {new} /\ latest' = latest + 1 /\ new.rev = latest + 1
    BY <1>3 DEF Added
  <2> HIDE DEF new
  <2>2. {row.rev : row \in versions'} = {row.rev : row \in versions} \cup {latest + 1}
    BY <2>1
  <2>3. {row.rev : row \in versions} = 1..latest
    BY DEF RevsAreContiguous
  <2>4. 1..(latest + 1) = 1..latest \cup {latest + 1}
    BY <1>1
  <2>5. ASSUME NEW x \in versions', NEW y \in versions', x.rev = y.rev PROVE x = y
    <3>1. \A z \in versions : z.rev \in 1..latest
      BY <2>3
    <3>2. \A z \in versions : z.rev # latest + 1
      BY <1>1, <3>1
    <3>3. CASE x \in versions /\ y \in versions
      BY <2>5, <3>3 DEF RevsAreContiguous
    <3>4. CASE x = new \/ y = new
      BY <2>1, <2>5, <3>2, <3>4
    <3> QED BY <2>1, <3>3, <3>4
  <2> QED BY <2>1, <2>2, <2>3, <2>4, <2>5 DEF RevsAreContiguous
<1>4. CASE Emptied
  <2>1. {row.rev : row \in versions'} = {} /\ 1..latest' = {}
    BY <1>4 DEF Emptied
  <2> QED BY <1>4, <2>1 DEF Emptied, RevsAreContiguous
<1> QED BY <1>2, <1>3, <1>4, RepoStep

\* A step that adds a row keeps the others, any other that touches them empties.
LEMMA HistoryStep ==
    ASSUME TypeOK, RevsAreContiguous, [Next]_vars
    PROVE  versions \subseteq versions' \/ latest' = 0
  BY RepoStep DEF repo, Added, Emptied

-----------------------------------------------------------------------------
(* Types of the rest *)

LEMMA RestTyped ==
    ASSUME TypeOK, NEW p \in Pushers, NEW d \in Devices, d \in push[p].todo
    PROVE  /\ push[p] \in Pushes
           /\ Rest(p, d) \in Pushes \cup {NoPush}
<1>1. push[p] \in Pushes
  BY DEF TypeOK, NoPush
<1>2. [push[p] EXCEPT !.todo = push[p].todo \ {d}] \in Pushes
  BY <1>1 DEF Pushes
<1> QED BY <1>1, <1>2 DEF Rest

\* The tables other than the repository's, under each action.
Others ==
    /\ deploy \in [Devices -> Deployed \cup {NoDeploy}]
    /\ push \in [Pushers -> Pushes \cup {NoPush}]
    /\ way \in [Devices -> SUBSET Messages] /\ sent \in 0..MaxSent
    /\ receipts \in [Devices -> SUBSET Deployed]
    /\ seen \in [Devices -> SUBSET (1..MaxSent)]
    /\ exists \in [Devices -> SUBSET AgentIds]
    /\ content \in [Devices -> [AgentIds -> Rows \cup {NoRow}]]
    /\ deletes \in 0..MaxDeletes
    /\ had \in [Devices -> SUBSET Deployed]

LEMMA OthersStep == TypeOK /\ [Next]_vars => Others'
<1> SUFFICES ASSUME TypeOK, [Next]_vars PROVE Others'
  OBVIOUS
<1>1. ASSUME NEW v \in Given, NEW id \in PackageIds, Create(v, id) \/ Update(v, id)
      PROVE  Others'
  BY <1>1 DEF Create, Update, device, TypeOK, Others
<1>2. ASSUME NEW d \in Devices, NEW i \in AgentIds, Import(d, i) PROVE Others'
  BY <1>2 DEF Import, device, TypeOK, Others
<1>3. CASE Delete
  <2>1. [d \in Devices |-> NoDeploy] \in [Devices -> Deployed \cup {NoDeploy}]
    OBVIOUS
  <2> QED BY <1>3, <2>1 DEF Delete, device, TypeOK, Others
<1>4. ASSUME NEW p \in Pushers, NEW row \in versions, NEW targets \in SUBSET Devices,
             NEW careful \in BOOLEAN, StartPush(p, row, targets, careful)
      PROVE  Others'
  <2>1. [row |-> row, todo |-> targets, careful |-> careful] \in Pushes
    BY DEF TypeOK, Pushes
  <2>2. push' \in [Pushers -> Pushes \cup {NoPush}]
    BY <1>4, <2>1 DEF StartPush, TypeOK
  <2> QED BY <1>4, <2>2 DEF StartPush, device, TypeOK, Others
<1>5. ASSUME NEW p \in Pushers, NEW d \in Devices, PushSkips(p, d) PROVE Others'
  <2>1. push' \in [Pushers -> Pushes \cup {NoPush}]
    BY <1>5, RestTyped DEF PushSkips, TypeOK
  <2> QED BY <1>5, <2>1 DEF PushSkips, device, TypeOK, Others
<1>6. ASSUME NEW p \in Pushers, NEW d \in Devices, PushSends(p, d) PROVE Others'
  <2>1. push[p] \in Pushes /\ Rest(p, d) \in Pushes \cup {NoPush}
    BY <1>6, RestTyped DEF PushSends
  <2>2. push' \in [Pushers -> Pushes \cup {NoPush}]
    BY <1>6, <2>1 DEF PushSends, TypeOK
  <2>3. sent' \in 1..MaxSent
    BY <1>6 DEF PushSends, TypeOK
  <2>4. [req |-> sent', row |-> push[p].row, careful |-> push[p].careful] \in Messages
    BY <2>1, <2>3 DEF Pushes, Messages
  <2>5. way' \in [Devices -> SUBSET Messages]
    BY <1>6, <2>4 DEF PushSends, TypeOK
  <2> QED BY <1>6, <2>2, <2>3, <2>5 DEF PushSends, device, TypeOK, Others
<1>7. ASSUME NEW d \in Devices, NEW x \in receipts[d], Confirm(d, x) PROVE Others'
  <2>1. x \in Deployed
    BY DEF TypeOK
  <2>2. deploy' \in [Devices -> Deployed \cup {NoDeploy}]
    BY <1>7, <2>1 DEF Confirm, RecordDeploy, TypeOK
  <2>3. receipts' \in [Devices -> SUBSET Deployed]
    BY <1>7 DEF Confirm, TypeOK
  <2> QED BY <1>7, <2>2, <2>3 DEF Confirm, device, TypeOK, Others
<1>8. ASSUME NEW d \in Devices, NEW m \in way[d], Execute(d, m) PROVE Others'
  <2>1. m.req \in 1..MaxSent /\ m.row \in Rows
    BY DEF TypeOK, Messages
  <2>2. [rev |-> m.row.rev, version |-> m.row.version] \in Deployed
    BY <2>1 DEF Rows, Deployed
  <2>3. seen' \in [Devices -> SUBSET (1..MaxSent)]
    BY <1>8, <2>1 DEF Execute, TypeOK
  <2>4. way' \in [Devices -> SUBSET Messages]
    BY <1>8 DEF Execute, TypeOK
  <2>5. receipts' \in [Devices -> SUBSET Deployed]
    BY <1>8, <2>2 DEF Execute, TypeOK
  <2>6. /\ exists' \in [Devices -> SUBSET AgentIds]
        /\ content' \in [Devices -> [AgentIds -> Rows \cup {NoRow}]]
        /\ had' \in [Devices -> SUBSET Deployed]
    <3>1. ASSUME NEW i \in Place(d, m.row), Apply(d, i, m.row)
          PROVE  /\ exists' \in [Devices -> SUBSET AgentIds]
                 /\ content' \in [Devices -> [AgentIds -> Rows \cup {NoRow}]]
                 /\ had' \in [Devices -> SUBSET Deployed]
      <4>1. i \in AgentIds
        BY DEF Place, TypeOK
      <4>2. content' = [content EXCEPT ![d] = [content[d] EXCEPT ![i] = m.row]]
        BY <3>1 DEF Apply
      <4>3. [content[d] EXCEPT ![i] = m.row] \in [AgentIds -> Rows \cup {NoRow}]
        BY <2>1, <4>1 DEF TypeOK
      <4> QED BY <2>2, <3>1, <4>1, <4>2, <4>3 DEF Apply, TypeOK
    <3>2. CASE UNCHANGED <<exists, content, had>>
      BY <3>2 DEF TypeOK
    <3> QED BY <1>8, <3>1, <3>2 DEF Execute
  <2> QED BY <1>8, <2>3, <2>4, <2>5, <2>6 DEF Execute, TypeOK, Others
<1>9. ASSUME NEW d \in Devices, NEW m \in way[d], Skip(d, m) PROVE Others'
  <2>1. way' \in [Devices -> SUBSET Messages]
    BY <1>9 DEF Skip, TypeOK
  <2> QED BY <1>9, <2>1 DEF Skip, device, TypeOK, Others
<1>10. ASSUME NEW d \in Devices, Cut(d) PROVE Others'
  <2>1. way' \in [Devices -> SUBSET Messages]
    BY <1>10 DEF Cut, TypeOK
  <2>2. receipts' \in [Devices -> SUBSET Deployed]
    BY <1>10 DEF Cut, TypeOK
  <2> QED BY <1>10, <2>1, <2>2 DEF Cut, device, TypeOK, Others
<1>11. CASE UNCHANGED vars
  BY <1>11 DEF vars, repo, device, TypeOK, Others
<1> QED BY <1>1, <1>2, <1>3, <1>4, <1>5, <1>6, <1>7, <1>8, <1>9, <1>10, <1>11 DEF Next

-----------------------------------------------------------------------------
(* What deploy_status says was installed *)

\* A receipt tells of something the device has installed.
ReceiptsAreTrue == \A d \in Devices : receipts[d] \subseteq had[d]

IInv ==
    /\ TypeOK
    /\ RevsAreContiguous
    /\ ReceiptsAreTrue
    /\ DeployedWasInstalled

LEMMA Initially == Init => IInv
<1> SUFFICES ASSUME Init PROVE IInv
  OBVIOUS
<1>1. TypeOK
  BY DEF Init, TypeOK
<1>2. {row.rev : row \in versions} = {} /\ 1..latest = {}
  BY DEF Init
<1> QED BY <1>1, <1>2 DEF Init, IInv, RevsAreContiguous, ReceiptsAreTrue, DeployedWasInstalled

\* What was installed stays in had; what was true of the tables stays true.
LEMMA TruthStep == IInv /\ [Next]_vars => ReceiptsAreTrue' /\ DeployedWasInstalled'
<1> SUFFICES ASSUME IInv, [Next]_vars PROVE ReceiptsAreTrue' /\ DeployedWasInstalled'
  OBVIOUS
<1>0. TypeOK /\ ReceiptsAreTrue /\ DeployedWasInstalled
  BY DEF IInv
<1> DEFINE Goal == ReceiptsAreTrue' /\ DeployedWasInstalled'
<1>1. ASSUME UNCHANGED <<deploy, receipts, had>> PROVE Goal
  BY <1>0, <1>1 DEF ReceiptsAreTrue, DeployedWasInstalled
<1>2. CASE Delete
  <2>1. \A d \in Devices : deploy'[d] = NoDeploy
    BY <1>2 DEF Delete
  <2> QED BY <1>0, <1>2, <2>1 DEF Delete, device, ReceiptsAreTrue, DeployedWasInstalled
<1>3. ASSUME NEW d \in Devices, NEW x \in receipts[d], Confirm(d, x) PROVE Goal
  <2>1. x \in had[d] /\ had' = had
    BY <1>0, <1>3 DEF Confirm, device, ReceiptsAreTrue
  <2>2. \A e \in Devices : deploy'[e] = IF e = d THEN x ELSE deploy[e]
    BY <1>0, <1>3 DEF Confirm, RecordDeploy, TypeOK
  <2>3. \A e \in Devices : receipts'[e] \subseteq receipts[e]
    BY <1>0, <1>3 DEF Confirm, TypeOK
  <2> QED BY <1>0, <2>1, <2>2, <2>3 DEF ReceiptsAreTrue, DeployedWasInstalled
<1>4. ASSUME NEW d \in Devices, NEW m \in way[d], Execute(d, m) PROVE Goal
  <2> DEFINE x == [rev |-> m.row.rev, version |-> m.row.version]
  <2>1. deploy' = deploy
    BY <1>4 DEF Execute
  <2>2. CASE UNCHANGED <<had, receipts>>
    BY <1>1, <2>1, <2>2
  <2>3. ASSUME NEW i, Apply(d, i, m.row),
               receipts' = receipts \/ receipts' = [receipts EXCEPT ![d] = @ \cup {x}]
        PROVE  Goal
    <3>1. had' = [had EXCEPT ![d] = @ \cup {x}]
      BY <2>3 DEF Apply
    <3> HIDE DEF x
    <3>2. \A e \in Devices : had[e] \subseteq had'[e]
      BY <1>0, <3>1 DEF TypeOK
    <3>3. x \in had'[d]
      BY <1>0, <3>1 DEF TypeOK
    <3>4. \A e \in Devices : receipts'[e] \subseteq receipts[e] \cup (IF e = d THEN {x} ELSE {})
      BY <1>0, <2>3 DEF TypeOK
    <3> QED BY <1>0, <2>1, <3>2, <3>3, <3>4 DEF ReceiptsAreTrue, DeployedWasInstalled
  <2> HIDE DEF Goal
  <2> QED BY <1>4, <2>2, <2>3 DEF Execute
<1>5. ASSUME NEW d \in Devices, Cut(d) PROVE Goal
  <2>1. \A e \in Devices : receipts'[e] \subseteq receipts[e]
    BY <1>0, <1>5 DEF Cut, TypeOK
  <2> QED BY <1>0, <1>5, <2>1 DEF Cut, device, ReceiptsAreTrue, DeployedWasInstalled
<1>6. ASSUME NEW v \in Given, NEW id \in PackageIds, Create(v, id) \/ Update(v, id) PROVE Goal
  BY <1>1, <1>6 DEF Create, Update, device
<1>7. ASSUME NEW d \in Devices, NEW i \in AgentIds, Import(d, i) PROVE Goal
  BY <1>1, <1>7 DEF Import, device
<1>8. ASSUME NEW p \in Pushers, NEW row \in versions, NEW targets \in SUBSET Devices,
             NEW careful \in BOOLEAN, StartPush(p, row, targets, careful)
      PROVE  Goal
  BY <1>1, <1>8 DEF StartPush, device
<1>9. ASSUME NEW p \in Pushers, NEW d \in Devices, PushSkips(p, d) \/ PushSends(p, d) PROVE Goal
  BY <1>1, <1>9 DEF PushSkips, PushSends, device
<1>10. ASSUME NEW d \in Devices, NEW m \in way[d], Skip(d, m) PROVE Goal
  BY <1>1, <1>10 DEF Skip, device
<1>11. CASE UNCHANGED vars
  BY <1>1, <1>11 DEF vars, device
<1> QED BY <1>2, <1>3, <1>4, <1>5, <1>6, <1>7, <1>8, <1>9, <1>10, <1>11 DEF Next

LEMMA Inductive == IInv /\ [Next]_vars => IInv'
<1> SUFFICES ASSUME IInv, [Next]_vars PROVE IInv'
  OBVIOUS
<1>1. TypeOK'
  BY RepoTypes, OthersStep DEF IInv, TypeOK, Others
<1> QED BY <1>1, RevsStep, TruthStep DEF IInv

LEMMA Always == Spec => []IInv
  BY Initially, Inductive, PTL DEF Spec

-----------------------------------------------------------------------------

\* Every state has the declared types.
THEOREM TypeCorrect == Spec => []TypeOK
<1>1. IInv => TypeOK
  BY DEF IInv
<1> QED BY <1>1, Always, PTL

\* The revs of a package are 1 to latest_rev, each once.
THEOREM RevsCorrect == Spec => []RevsAreContiguous
<1>1. IInv => RevsAreContiguous
  BY DEF IInv
<1> QED BY <1>1, Always, PTL

\* What deploy_status says of a device was installed there.
THEOREM DeployCorrect == Spec => []DeployedWasInstalled
<1>1. IInv => DeployedWasInstalled
  BY DEF IInv
<1> QED BY <1>1, Always, PTL

\* No row of the history changes, and none goes before the package does.
THEOREM HistoryCorrect == Spec => HistoryIsKept
<1>1. IInv /\ [Next]_vars => [versions \subseteq versions' \/ latest' = 0]_vars
  BY HistoryStep DEF IInv
<1> QED BY <1>1, Always, PTL DEF Spec, HistoryIsKept

-----------------------------------------------------------------------------
(* Without deletions a rev means the same everywhere *)

Published(x) == \E row \in versions : row.rev = x.rev /\ row.version = x.version

\* Pushes and receipts under way are about versions of the repository too.
SameEverywhere ==
    /\ \A d \in Devices :
          /\ deploy[d] # NoDeploy => Published(deploy[d])
          /\ \A i \in AgentIds : content[d][i] # NoRow => content[d][i] \in versions
          /\ \A m \in way[d] : m.row \in versions
    /\ \A p \in Pushers : push[p].todo # {} => push[p].row \in versions
    /\ \A d \in Devices : \A x \in receipts[d] : Published(x)

LEMMA SameInitially == Init => SameEverywhere
  BY DEF Init, SameEverywhere, NoPush

\* Deletions are counted, and while there is none the repository only grows.
LEMMA Grows ==
    ASSUME IInv, [Next]_vars, deletes' = 0
    PROVE  deletes = 0 /\ versions \subseteq versions'
<1>1. deletes \in Nat /\ (UNCHANGED deletes \/ deletes' = deletes + 1)
  BY DEF IInv, TypeOK, Next, Create, Update, Import, Delete, StartPush, PushSkips, PushSends,
         Confirm, Execute, Skip, Cut, vars
<1>2. deletes = 0
  BY <1>1
<1> QED BY <1>2, RepoStep DEF IInv, repo, Added, Emptied

LEMMA SameStep ==
    ASSUME IInv, [Next]_vars, deletes' = 0, SameEverywhere
    PROVE  SameEverywhere'
<1>0. versions \subseteq versions' /\ TypeOK
  BY Grows DEF IInv
<1>1. ASSUME NEW x, Published(x) PROVE Published(x)'
  BY <1>0, <1>1 DEF Published
<1> DEFINE Deploys == \A d \in Devices : deploy[d] # NoDeploy => Published(deploy[d])
           Contents == \A d \in Devices : \A i \in AgentIds :
                          content[d][i] # NoRow => content[d][i] \in versions
           Ways == \A d \in Devices : \A m \in way[d] : m.row \in versions
           Pushing == \A p \in Pushers : push[p].todo # {} => push[p].row \in versions
           Receipts == \A d \in Devices : \A x \in receipts[d] : Published(x)
<1>2. SameEverywhere <=> Deploys /\ Contents /\ Ways /\ Pushing /\ Receipts
  BY DEF SameEverywhere, Published
<1>3. SameEverywhere' <=> (Deploys /\ Contents /\ Ways /\ Pushing /\ Receipts)'
  BY DEF SameEverywhere, Published
<1>4. Deploys'
  <2>1. CASE UNCHANGED deploy
    <3> SUFFICES ASSUME NEW d \in Devices, deploy'[d] # NoDeploy PROVE Published(deploy[d])'
      OBVIOUS
    <3>1. Published(deploy[d])
      BY <1>2, <2>1
    <3> QED BY <1>0, <2>1, <3>1 DEF Published
  <2>2. ASSUME NEW d \in Devices, NEW x \in receipts[d], Confirm(d, x) PROVE Deploys'
    <3>1. \A e \in Devices : deploy'[e] = IF e = d THEN x ELSE deploy[e]
      BY <1>0, <2>2 DEF Confirm, RecordDeploy, TypeOK
    <3>2. versions' = versions /\ Published(x)
      BY <1>2, <2>2 DEF Confirm, repo
    <3> QED BY <1>2, <3>1, <3>2 DEF Published
  <2>3. CASE Delete
    BY <1>0, <2>3 DEF Delete, TypeOK
  <2> HIDE DEF Deploys
  <2>4. CASE Next
    BY <2>1, <2>2, <2>3, <2>4
       DEF Next, Create, Update, Import, StartPush, PushSkips, PushSends, Execute, Skip, Cut
  <2> QED BY <2>1, <2>4 DEF vars
<1>5. Contents'
  <2>1. CASE UNCHANGED content
    BY <1>0, <1>2, <2>1
  <2>2. ASSUME NEW d \in Devices, NEW m \in way[d], NEW i, Apply(d, i, m.row)
        PROVE  Contents'
    <3>1. m.row \in versions
      BY <1>2
    <3>2. \A e \in Devices : \A j \in AgentIds :
             content'[e][j] = content[e][j] \/ content'[e][j] = m.row
      BY <1>0, <2>2 DEF Apply, TypeOK
    <3> QED BY <1>0, <1>2, <3>1, <3>2
  <2> HIDE DEF Contents
  <2>3. CASE Next
    BY <2>1, <2>2, <2>3
       DEF Next, Create, Update, Import, Delete, StartPush, PushSkips, PushSends, Confirm,
           Execute, Skip, Cut, device
  <2> QED BY <2>1, <2>3 DEF vars, device
<1>6. Ways'
  <2>1. ASSUME \A d \in Devices : way'[d] \subseteq way[d] PROVE Ways'
    BY <1>0, <1>2, <2>1
  <2>2. ASSUME NEW p \in Pushers, NEW d \in Devices, PushSends(p, d) PROVE Ways'
    <3> DEFINE m == [req |-> sent', row |-> push[p].row, careful |-> push[p].careful]
    <3>1. m.row \in versions
      BY <1>2, <2>2 DEF PushSends
    <3>2. way' = [way EXCEPT ![d] = @ \cup {m}]
      BY <2>2 DEF PushSends
    <3> HIDE DEF m
    <3>3. \A e \in Devices : way'[e] \subseteq way[e] \cup {m}
      BY <1>0, <3>2 DEF TypeOK
    <3> QED BY <1>0, <1>2, <3>1, <3>3
  <2>3. ASSUME NEW d \in Devices, NEW m \in way[d], Execute(d, m) \/ Skip(d, m)
        PROVE  \A e \in Devices : way'[e] \subseteq way[e]
    <3>1. way \in [Devices -> SUBSET Messages]
      BY <1>0 DEF TypeOK
    <3>2. way' = [way EXCEPT ![d] = @] \/ way' = [way EXCEPT ![d] = @ \ {m}]
      <4>1. CASE Execute(d, m)
        BY <4>1 DEF Execute
      <4>2. CASE Skip(d, m)
        BY <4>2 DEF Skip
      <4> QED BY <2>3, <4>1, <4>2
    <3> QED BY <3>1, <3>2
  <2>4. ASSUME NEW d \in Devices, Cut(d) PROVE \A e \in Devices : way'[e] \subseteq way[e]
    BY <1>0, <2>4 DEF Cut, TypeOK
  <2>5. CASE UNCHANGED way
    BY <2>1, <2>5
  <2> HIDE DEF Ways
  <2>6. CASE Next
    BY <2>1, <2>2, <2>3, <2>4, <2>5, <2>6
       DEF Next, Create, Update, Import, Delete, StartPush, PushSkips, Confirm
  <2> QED BY <2>5, <2>6 DEF vars
<1>7. Pushing'
  <2>1. CASE UNCHANGED push
    BY <1>0, <1>2, <2>1
  <2>2. ASSUME NEW p \in Pushers, NEW row \in versions, NEW targets \in SUBSET Devices,
               NEW careful \in BOOLEAN, StartPush(p, row, targets, careful)
        PROVE  Pushing'
    <3>1. \A q \in Pushers : push'[q].row = row \/ push'[q] = push[q]
      BY <1>0, <2>2 DEF StartPush, TypeOK
    <3> QED BY <1>0, <1>2, <3>1
  <2>3. ASSUME NEW p \in Pushers, NEW d \in Devices, PushSkips(p, d) \/ PushSends(p, d)
        PROVE  Pushing'
    <3>1. d \in push[p].todo /\ push' = [push EXCEPT ![p] = Rest(p, d)]
      BY <2>3 DEF PushSkips, PushSends
    <3>2. push[p].row \in versions /\ push[p] \in Pushes
      BY <1>0, <1>2, <3>1, RestTyped
    <3>3. Rest(p, d).todo # {} => Rest(p, d).row = push[p].row
      BY <3>2 DEF Rest, NoPush, Pushes
    <3>4. \A q \in Pushers : push'[q] = IF q = p THEN Rest(p, d) ELSE push[q]
      BY <1>0, <3>1 DEF TypeOK
    <3> QED BY <1>0, <1>2, <3>2, <3>3, <3>4
  <2> HIDE DEF Pushing
  <2>4. CASE Next
    BY <2>1, <2>2, <2>3, <2>4
       DEF Next, Create, Update, Import, Delete, Confirm, Execute, Skip, Cut
  <2> QED BY <2>1, <2>4 DEF vars
<1>8. Receipts'
  <2>1. ASSUME \A d \in Devices : receipts'[d] \subseteq receipts[d] PROVE Receipts'
    BY <1>0, <1>2, <2>1 DEF Published
  <2>2. ASSUME NEW d \in Devices, NEW m \in way[d],
               receipts' = [receipts EXCEPT ![d] = @ \cup
                              {[rev |-> m.row.rev, version |-> m.row.version]}]
        PROVE  Receipts'
    <3> DEFINE x == [rev |-> m.row.rev, version |-> m.row.version]
    <3>1. \A row \in {m.row} : row.rev = x.rev /\ row.version = x.version
      OBVIOUS
    <3>2. m.row \in versions' 
      BY <1>0, <1>2
    <3>3. receipts' = [receipts EXCEPT ![d] = @ \cup {x}]
      BY <2>2
    <3> HIDE DEF x
    <3>4. \A e \in Devices : receipts'[e] \subseteq receipts[e] \cup {x}
      BY <1>0, <3>3 DEF TypeOK
    <3> QED BY <1>0, <1>2, <3>1, <3>2, <3>4 DEF Published
  <2>3. ASSUME NEW d \in Devices, NEW x \in receipts[d], Confirm(d, x)
        PROVE  \A e \in Devices : receipts'[e] \subseteq receipts[e]
    BY <1>0, <2>3 DEF Confirm, TypeOK
  <2>4. ASSUME NEW d \in Devices, Cut(d)
        PROVE  \A e \in Devices : receipts'[e] \subseteq receipts[e]
    BY <1>0, <2>4 DEF Cut, TypeOK
  <2>5. CASE UNCHANGED receipts
    BY <2>1, <2>5
  <2>6. ASSUME NEW d \in Devices, NEW m \in way[d], Execute(d, m) PROVE Receipts'
    BY <2>2, <2>5, <2>6 DEF Execute
  <2> HIDE DEF Receipts
  <2>7. CASE Next
    BY <2>1, <2>3, <2>4, <2>5, <2>6, <2>7
       DEF Next, Create, Update, Import, Delete, StartPush, PushSkips, PushSends, Skip
  <2> QED BY <2>5, <2>7 DEF vars
<1> QED BY <1>3, <1>4, <1>5, <1>6, <1>7, <1>8

\* As long as no package is deleted, a rev in deploy_status, on a device or under
\* way is that rev of the repository.
THEOREM SameCorrect == Spec => []RevIsTheSameEverywhere
<1> DEFINE Same == deletes = 0 => SameEverywhere
<1>1. Init => Same
  BY SameInitially
<1>2. IInv /\ Same /\ [Next]_vars => Same'
  BY SameStep, Grows
<1>3. Same => RevIsTheSameEverywhere
  BY DEF SameEverywhere, RevIsTheSameEverywhere, Published
<1> QED BY <1>1, <1>2, <1>3, Always, PTL DEF Spec

-----------------------------------------------------------------------------
(* AgentRepo implements Publication *)

\* What is in the repository, pushed or under way was published at some time.
WasPublished ==
    /\ versions \subseteq ever
    /\ \A p \in Pushers : push[p].todo # {} => push[p].row \in ever
    /\ \A d \in Devices : \A m \in way[d] : m.row \in ever

\* The rows only become more; what pushes and the network have, they have from others.
LEMMA PublishedStep ==
    ASSUME IInv, [Next]_vars, WasPublished
    PROVE  WasPublished'
<1>0. TypeOK /\ RevsAreContiguous
  BY DEF IInv
<1>1. versions' \subseteq ever' /\ ever \subseteq ever'
  BY <1>0, RepoStep DEF repo, Added, Emptied, WasPublished
<1> DEFINE Pushing == \A p \in Pushers : push[p].todo # {} => push[p].row \in ever
           Ways == \A d \in Devices : \A m \in way[d] : m.row \in ever
<1>2. Pushing /\ Ways /\ versions \subseteq ever
  BY DEF WasPublished
<1>3. ASSUME UNCHANGED push PROVE Pushing'
  BY <1>1, <1>2, <1>3
<1>4. ASSUME \A d \in Devices : way'[d] \subseteq way[d] PROVE Ways'
  BY <1>1, <1>2, <1>4
<1> SUFFICES Pushing' /\ Ways'
  BY <1>1 DEF WasPublished
<1>5. ASSUME NEW p \in Pushers, NEW row \in versions, NEW targets \in SUBSET Devices,
             NEW careful \in BOOLEAN, StartPush(p, row, targets, careful)
      PROVE  Pushing' /\ Ways'
  <2>1. \A q \in Pushers : push'[q].row = row \/ push'[q] = push[q]
    BY <1>0, <1>5 DEF StartPush, TypeOK
  <2>2. row \in ever
    BY <1>2
  <2>3. Pushing'
    BY <1>1, <1>2, <2>1, <2>2
  <2>4. Ways'
    BY <1>4, <1>5 DEF StartPush
  <2> QED BY <2>3, <2>4
<1>6. ASSUME NEW p \in Pushers, NEW d \in Devices, PushSkips(p, d) \/ PushSends(p, d)
      PROVE  Pushing' /\ Ways'
  <2>1. d \in push[p].todo /\ push' = [push EXCEPT ![p] = Rest(p, d)]
    BY <1>6 DEF PushSkips, PushSends
  <2>2. push[p].row \in ever /\ push[p] \in Pushes
    BY <1>0, <1>2, <2>1, RestTyped
  <2>3. Rest(p, d).todo # {} => Rest(p, d).row = push[p].row
    BY <2>2 DEF Rest, NoPush, Pushes
  <2>4. \A q \in Pushers : push'[q] = IF q = p THEN Rest(p, d) ELSE push[q]
    BY <1>0, <2>1 DEF TypeOK
  <2>5. Pushing'
    BY <1>1, <1>2, <2>2, <2>3, <2>4
  <2>6. CASE PushSkips(p, d)
    BY <1>4, <2>5, <2>6 DEF PushSkips
  <2>7. CASE PushSends(p, d)
    <3> DEFINE m == [req |-> sent', row |-> push[p].row, careful |-> push[p].careful]
    <3>1. m.row \in ever
      BY <2>2
    <3>2. way' = [way EXCEPT ![d] = @ \cup {m}]
      BY <2>7 DEF PushSends
    <3> HIDE DEF m
    <3>3. \A e \in Devices : way'[e] \subseteq way[e] \cup {m}
      BY <1>0, <3>2 DEF TypeOK
    <3>4. Ways'
      BY <1>1, <1>2, <3>1, <3>3
    <3> QED BY <2>5, <3>4
  <2> QED BY <1>6, <2>6, <2>7
<1>7. ASSUME NEW d \in Devices, NEW m \in way[d], Execute(d, m) \/ Skip(d, m)
      PROVE  Pushing' /\ Ways'
  <2>1. way \in [Devices -> SUBSET Messages]
    BY <1>0 DEF TypeOK
  <2>2. way' = [way EXCEPT ![d] = @] \/ way' = [way EXCEPT ![d] = @ \ {m}]
    BY <1>7 DEF Execute, Skip
  <2>3. \A e \in Devices : way'[e] \subseteq way[e]
    BY <2>1, <2>2
  <2> QED BY <1>3, <1>4, <1>7, <2>3 DEF Execute, Skip
<1>8. ASSUME NEW d \in Devices, Cut(d) PROVE Pushing' /\ Ways'
  <2>1. \A e \in Devices : way'[e] \subseteq way[e]
    BY <1>0, <1>8 DEF Cut, TypeOK
  <2> QED BY <1>3, <1>4, <1>8, <2>1 DEF Cut
<1>9. CASE UNCHANGED <<push, way>>
  BY <1>3, <1>4, <1>9
<1> HIDE DEF Pushing, Ways
<1>10. CASE Next
  BY <1>5, <1>6, <1>7, <1>8, <1>9, <1>10 DEF Next, Create, Update, Import, Delete, Confirm
<1> QED BY <1>9, <1>10 DEF vars

History == [k \in 1..latest |-> CHOOSE row \in versions : row.rev = k]

\* The history has each rev at its place.
HistoryFits ==
    /\ History \in Seq(Rows) /\ Len(History) = latest
    /\ \A row \in versions : row.rev \in 1..latest /\ History[row.rev] = row
    /\ \A k \in 1..latest : History[k] \in versions /\ History[k].rev = k

LEMMA HistoryIs == TypeOK /\ RevsAreContiguous => HistoryFits
<1> SUFFICES ASSUME TypeOK, RevsAreContiguous PROVE HistoryFits
  OBVIOUS
<1>1. latest \in Nat /\ versions \subseteq Rows
  BY DEF TypeOK
<1>2. \A row \in versions : row.rev \in 1..latest
  BY DEF RevsAreContiguous
<1>3. ASSUME NEW k \in 1..latest PROVE History[k] \in versions /\ History[k].rev = k
  <2>1. \E row \in versions : row.rev = k
    BY <1>3 DEF RevsAreContiguous
  <2>2. History[k] = CHOOSE row \in versions : row.rev = k
    BY <1>3 DEF History
  <2> QED BY <2>1, <2>2
<1>4. ASSUME NEW row \in versions PROVE History[row.rev] = row
  BY <1>2, <1>3 DEF RevsAreContiguous
<1>5. History \in [1..latest -> Rows]
  BY <1>1, <1>3 DEF History
<1>6. History \in Seq(Rows) /\ Len(History) = latest
  BY <1>1, <1>5
<1> QED BY <1>2, <1>3, <1>4, <1>6 DEF HistoryFits

LEMMA HistoryAlways == (IInv => HistoryFits) /\ (IInv' => HistoryFits')
<1>1. IInv => HistoryFits
  BY HistoryIs DEF IInv
<1> QED BY <1>1, PTL

LEMMA HistoryGrows ==
    ASSUME IInv, IInv', NEW n \in Nat, NEW id \in AgentIds \cup {None}, Added(n, id)
    PROVE  \E row \in ever' : /\ row.rev = Len(History) + 1
                              /\ History' = Append(History, row)
                              /\ ever' = ever \cup {row}
<1> DEFINE row == [rev |-> latest + 1, version |-> n, id |-> id]
<1>1. /\ versions' = versions \cup {row} /\ ever' = ever \cup {row}
      /\ latest' = latest + 1 /\ row.rev = latest + 1
  BY DEF Added
<1>2. row \in Rows /\ latest \in Nat
  BY RowTyped DEF Added, IInv, TypeOK
<1> HIDE DEF row
<1>3. /\ History \in Seq(Rows) /\ Len(History) = latest
      /\ \A k \in 1..latest : History[k] \in versions /\ History[k].rev = k
  BY HistoryAlways DEF HistoryFits
<1>4. /\ History' \in Seq(Rows) /\ Len(History') = latest + 1
      /\ \A x \in versions' : x.rev \in 1..(latest + 1) /\ History'[x.rev] = x
  <2>1. HistoryFits'
    BY HistoryAlways
  <2> QED BY <1>1, <2>1 DEF HistoryFits
<1> DEFINE longer == Append(History, row)
<1>5. /\ longer \in Seq(Rows) /\ Len(longer) = latest + 1
      /\ \A k \in 1..latest : longer[k] = History[k]
      /\ longer[latest + 1] = row
  BY <1>2, <1>3, AppendProperties
<1> HIDE DEF longer, History
<1>6. ASSUME NEW k \in 1..(latest + 1) PROVE History'[k] = longer[k]
  <2>1. CASE k \in 1..latest
    BY <1>1, <1>3, <1>4, <1>5, <2>1
  <2>2. CASE k = latest + 1
    BY <1>1, <1>4, <1>5, <2>2
  <2> QED BY <1>2, <2>1, <2>2
<1>7. History' = longer
  BY <1>4, <1>5, <1>6, SeqEqual
<1> QED BY <1>1, <1>3, <1>7 DEF longer

LEMMA PublicationInit == Init => P!Init
<1> SUFFICES ASSUME Init PROVE P!Init
  OBVIOUS
<1>1. 1..latest = {} /\ History = <<>>
  BY DEF Init, History
<1> QED BY <1>1 DEF Init, P!Init, History

LEMMA PublicationStep == IInv /\ IInv' /\ WasPublished /\ [Next]_vars => [P!Next]_P!vars
<1> DEFINE Same == UNCHANGED <<History, ever, content, had, deploy>>
           Goal == P!Next \/ Same
<1> SUFFICES ASSUME IInv, IInv', WasPublished, [Next]_vars PROVE Goal
  BY DEF P!vars, History
<1>0. TypeOK /\ RevsAreContiguous /\ ReceiptsAreTrue
  BY DEF IInv
<1>1. ASSUME NEW n \in Nat, NEW id \in AgentIds \cup {None}, Added(n, id),
             UNCHANGED <<deploy, content, had>>
      PROVE  Goal
  <2>1. PICK row \in ever' : /\ row.rev = Len(History) + 1
                             /\ History' = Append(History, row)
                             /\ ever' = ever \cup {row}
    BY <1>1, HistoryGrows
  <2>2. P!Publish(row)
    BY <1>1, <2>1 DEF P!Publish, History
  <2> QED BY <2>1, <2>2 DEF P!Next
<1>2. ASSUME Emptied, deploy' = [d \in Devices |-> NoDeploy], UNCHANGED <<content, had>>
      PROVE  Goal
  <2>1. History' = <<>>
    BY <1>2 DEF Emptied, History
  <2>2. P!Withdraw
    BY <1>2, <2>1 DEF P!Withdraw, Emptied, History
  <2> QED BY <2>2 DEF P!Next
<1>3. CASE UNCHANGED repo
  <2>1. UNCHANGED <<History, ever>>
    BY <1>3 DEF repo, History
  <2>2. ASSUME NEW d \in Devices, NEW x \in receipts[d], Confirm(d, x) PROVE Goal
    <3>1. x \in had[d]
      BY <1>0 DEF ReceiptsAreTrue
    <3>2. P!Learn(d, x)
      BY <2>1, <2>2 DEF P!Learn, Confirm, RecordDeploy, device, History
    <3> QED BY <3>1, <3>2 DEF P!Next
  <2>3. ASSUME NEW d \in Devices, NEW m \in way[d], Execute(d, m) PROVE Goal
    <3>1. m.row \in ever /\ deploy' = deploy
      BY <2>3 DEF WasPublished, Execute
    <3>2. CASE UNCHANGED <<content, had>>
      BY <2>1, <3>1, <3>2
    <3>3. ASSUME NEW i \in Place(d, m.row), Apply(d, i, m.row) PROVE Goal
      <4>1. i \in AgentIds /\ m.row.id \in {i, None}
        BY <1>0 DEF Place, TypeOK
      <4>2. P!Install(d, i, m.row)
        BY <2>1, <3>1, <3>3, <4>1 DEF P!Install, P!Label, Apply, History
      <4> QED BY <3>1, <4>1, <4>2 DEF P!Next
    <3> HIDE DEF Goal
    <3> QED BY <2>3, <3>2, <3>3 DEF Execute
  <2>4. CASE UNCHANGED <<content, had, deploy>>
    BY <2>1, <2>4
  <2> HIDE DEF Goal
  <2>5. CASE Delete
    BY <1>3, <2>5 DEF Delete, repo
  <2>6. CASE Next
    BY <2>2, <2>3, <2>4, <2>5, <2>6
       DEF Next, Create, Update, Import, StartPush, PushSkips, PushSends, Skip, Cut, device
  <2> QED BY <2>4, <2>6 DEF vars, device
<1> HIDE DEF Goal
<1> QED BY <1>0, <1>1, <1>2, <1>3, RepoStep

\* For any devices, agents and number of deletions: versions are appended to a history
\* that goes only as a whole, devices install what was once in it into the agents it
\* names, and an anchor tells what was installed.
THEOREM PublicationCorrect == Spec => PublicationSpec
<1>1. Init => WasPublished
  BY DEF Init, WasPublished, NoPush
<1>2. Spec => [](IInv /\ WasPublished)
  BY <1>1, Initially, Inductive, PublishedStep, PTL DEF Spec
<1> QED
  BY <1>2, PublicationInit, PublicationStep, PTL DEF Spec, PublicationSpec, P!Spec

=============================================================================
