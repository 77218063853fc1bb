# Cherry Managed: a TLA+ verification project

Cherry Managed lets a company manage the CherryStudio installations of its employees.
A server (`src/server`, FastAPI, one process, sqlite) keeps devices and agent packages and
dispatches commands over WebSockets; a sidecar on every device (`src/sidecar`) keeps the
connection, executes the commands against the local CherryStudio and reports back. This
directory holds TLA+ models of the parts of both that have state worth arguing about, TLC
runs that check them on small instances, and TLAPS proofs for every value of the constants.

Every definition is translated from the source; `PROJECT.json` ("map") names the lines.

## Inventory

### Server

| part | state | operations | what is hard | what makes it correct |
|---|---|---|---|---|
| `/ws` handler (`ws_server.py`) | one coroutine per WebSocket, heartbeat task | register, ack, flush of the offline queue, receive loop, `finally` | awaits between reading and using the connection table and the queue; old handlers that end late | table entries are running handlers of the right device; nothing waits for a device that is served |
| device registry (`device_registry.py`) | `_connections` in memory, `devices` in the database | attach, detach, set_online, set_offline, touch | memory is lost in a restart, the column is not | attached implies online |
| dispatch (`dispatch.py`) | `OFFLINE_QUEUE` in memory, `dispatch_log` | dispatch_agent/_agent_config/_provider/_skills, confirm_result, confirm_agent_deploy | sends that fail, or that succeed and are lost; repeated request ids | accepted messages are held until a send returned, rows are made once and changed by answers only |
| agent repository (`agent_repo.py`, endpoints of `main.py`) | `agent_configs`, `agent_versions`, `deploy_status` | create, update, import, delete, push, rollback, receipts | pushes that await between devices while revs change; receipts that come late or out of order | contiguous unchanged history; `deploy_status` is true |
| administrator login (`auth.py`) | `_fails`, `_sessions` | login, logout | boundaries of the lock, counts carried through expired locks | failures are spread as documented, nobody locked without cause |
| replies (`ws_server.py:41-59`, `main.py:493-602`) | table of Futures | agent-import, agent-test | an answer before the Future exists; timeouts | each question gets its own answer once |
| collection (`collect.py`, `db.py`) | `usage_agg`, `agent_files`, the open transaction of the one connection | record_usage, record_agent_files | a transaction that another service's commit ends; a process that dies in it | reports whole or not at all, nothing acknowledged that is not stored |
| reconciliation (`reconcile.py`), feed (`feed.py`), discovery (`discovery.py`) | none, one file, none | list, publish, answer | a file rewritten in place | a feed that is always readable |

### Device

| part | state | operations | what is hard | what makes it correct |
|---|---|---|---|---|
| connection (`lib/ws_client.py`) | `_stop`, `_connected`, `ws`, `_reconnect_delay` | connect, receive, send, back off, stop | three threads share the flag and the socket without a lock | one notice per connection, reconnection, orderly stop |
| executor (`dispatch.py`) | `_seen_request_ids`, log file | handle_dispatch_agent/_provider/_skills | a crash between an effect, its mark, its log line and its answer; repeated deliveries; partial failures | no second effect, a success that is real |
| managed table (`managed_registry.py`) | `managed_entity` | mark_managed, unmark | the table and CherryStudio change in two steps | what is managed exists |
| healer (`selfheal.py`) | `_pending`, `_retries`, snapshots | on_dispatch_result, retry_injections, snapshot, rollback | a retry that meets the idempotence check | at most one counted failure |
| installation (`sidecar.py:128-316`, `:792-1050`) | `config.json` and `managed_key` of each profile, the Windows service | set-server, first-run, install-service, uninstall-service, `run` as LocalSystem | several users; a service that starts between two steps of a command; commands cut short | the service uses the key that the servers know, an address that was set stays, or a save cut short has torn its file |
| runner (`sidecar.py`), collector (`collect.py`) | the periodic thread, `_managed_key` | register, report, reconcile, fetch the key | reports on a connection that is gone, a thread that dies, a key that is not there yet or not valid any more | one answer to each message, usage that arrives |

### How the parts interact

An administrator's request becomes a row of `dispatch_log` and either a `send_json` on the
attached WebSocket or an entry of the offline queue (shared state of coroutines). The device
reads it in its receive loop, the executor acts on CherryStudio (HTTP calls) and the managed
table, the healer counts (callback) and the answer goes through `WSClient.send`, which other
threads use too. The answer updates `dispatch_log` and, for packages, `deploy_status`. The
models meet at these messages: `SidecarExec!Deliver` may send a request twice because
`DeviceSession` shows that the server does, and `AgentRepo` takes messages between the two as a
set that may lose, repeat and reorder, which allows all that `DeviceSession` does and more.

Five parts have an abstract specification, a module that says what the part promises without
the connections, coroutines, files or threads by which it does it: `Delivery`, `Execution`,
`Publication`, `Inquiry` and `ReportStore`. The detailed module instantiates it with a refinement
mapping, TLC checks its specification as a property, and a theorem states the implication for
every value of the constants.

## Modules

| module | models |
|---|---|
| `Delivery` | what dispatching promises: the abstract specification of `DeviceSession` |
| `Execution` | what a device promises of the requests it executes: of `SidecarExec` |
| `Publication` | what the repository of a package promises: of `AgentRepo` |
| `Inquiry` | what an administrator who asks may rely on: of `Replies` |
| `ReportStore` | what the collection promises of the reports: of `Collection` |
| `DeviceSession` | `/ws` handler, registry, offline queue, dispatching, `dispatch_log`, restarts |
| `SidecarExec` | executor, managed table, healer's bookkeeping, crashes of the sidecar |
| `AgentRepo` | revs, versions and deployment of one package, pushes, imports, deletions, receipts |
| `AdminAuth` | lock of a user name, session tokens |
| `WsClient` | connection thread, sending threads, `stop()` |
| `Installation` | the commands that install a device, the files they keep, the service, the binding of the device to its key |
| `Replies` | agent-import and agent-test, the table of Futures |
| `Collection` | the periodic thread, its reports and key, agent files, the rows and the shared transaction they end in |
| `MC*` | constants and symmetry for TLC |
| `*Proofs` | the theorems |

### DeviceSession

The server is one asyncio loop, so an action is what runs between two awaits. A handler is
`accepted` (waiting for the register message), `acking` (inside the send of `register_ack`),
`flushing` (inside a send of `_flush_offline`, with `toSend` the rest of its snapshot) or
`serving`. `await send_json(m)` is two steps: the message reaches the transport when the call
starts (`Written`), and later the call returns (`AckReturns`, `FlushReturns`, `DispatchReturns`)
or raises (`HandlerEnds`, `DispatchRaises`). A send on a link that is already down may still
return: this is how TCP behaves, and it is what `UnconfirmedIsSentAgain` is about.
`HandlerEnds` is the `finally` block with all it does: detach and `set_offline` by device id.
`Dispatch` is the four `dispatch_*` functions, which differ in the message only. `Restart`
empties the memory and keeps `devices` and `dispatch_log`. The device is the environment here:
it connects, reads in order, answers on the connection it read from, and leaves.

`DeliverySpec` is the refinement: `held` of `Delivery` is what is in the queue, in the rest of a
flush or inside a send (`Held`), `due` is `owed`, what no send has finished, and `row` is
`dispatch_log`. A dispatch is `Accept`, a send that returns is `HandOver`, an answer is `Confirm`,
a restart is `Forget`; registers, broken links, flushes that fail and old handlers that end are
stutters. That a failing flush or a `finally` block is a stutter is the claim.

### SidecarExec

`job` is the receive loop inside a handler: `effect` (the call on CherryStudio or the file system
for the next item), `mark` (mark_managed or unmark), `log` (the log line), `reply`. A crash may come
between any two, because each leaves something behind. `Faults` are the failures the code meets: a
call that raises without or after its effect, a managed table that cannot be written, a log file
that cannot be appended to (swallowed by `_persist_log`). `Command` says what each request id asks
for. Provider "update" is what "add" is (`add_or_update`). `Quotas` says how often the server may
send each request; `hurt` is auxiliary, the items that a fault or a crash struck between their
effect and their mark, `Found` the items that may be there at the start. The answer of CherryStudio
to a create is assumed to carry the new id; without it `_extract_id` would mark the id or the name
that the command has (`sidecar/dispatch.py:333`). `Retry` is one entry of `retry_injections`. The runner never calls `check()`,
so `MaxRetry = 0` is the program as it runs; `resend_cb` is never set either, so `on_reconnect`
changes nothing.

`ExecutionSpec` is the refinement: `known` of `Execution` is what is seen, `over` the log file,
`left` the effects that the handler has before it, `done` how many each request has had, `told`
the answers. `Cost` is the bound: as many effects as the command has items. Marks, faults of the
managed table, log lines that are swallowed, and deliveries are stutters. What is left to show is
that no path of a handler, with every fault, starts a request that is known, has an effect after
the log line or the answer, or takes back what was recorded.

### AgentRepo

One package: no table or endpoint relates two. A version `k` stands for `1.k.0`, the form
`update_config` generates. A push reads its row once (`StartPush`) and then awaits between
devices (`PushSends`, `PushSkips`), while everything else may run. `Execute` is the device's
handler with each outcome: done and reported, done and not reported, not done. A package is
never locked: `set_locked` has no caller. Package contents and skills are opaque.

`PublicationSpec` is the refinement: `history` of `Publication` is the rows of the package in the
order of their revs, `content` and `installed` are what the devices have, `anchor` is
`deploy_status`, and `published` is `ever`, an auxiliary variable that collects the rows there ever
were, so that what is installed late can be traced to what was published once. A creation, an
update and an import are `Publish`, a deletion is `Withdraw`, `Execute` is `Install`, `Confirm` is
`Learn`; pushes, messages and cut connections are stutters, in whatever order they come.

### AdminAuth

A login has no await, so it is one step. `times` records when the logins of a user name failed
since the last success; it is only used to state the properties. The clock moves in seconds.
`LockIsExact` says when a user name is locked in terms of `times` alone: exactly within
`LOCK_SECONDS` after every `MAX_FAILURES`-th failure since the last success, and at no other time.

### WsClient

Threads switch anywhere, so a step lies between two accesses of `_stop`, `ws` or `_connected`.
`loop` is where the connection thread is in `_run` and `_connect_once`; `send[t]` is where thread
`t` is in `send`; `halt` is where the main thread is in `stop()`. Only the connection thread
assigns `ws`, so `link` is the state of the socket that `ws` refers to. A send may raise on a
socket that is well (`json.dumps`, or a socket that another thread closed); `Report` stands for
the heartbeat, the usage and the status reports, which all end in the same `send`.

### Installation

One Windows machine. A profile is a user's directory below `C:\Users` or that of LocalSystem, as
which the service runs. A command is a record that goes through its steps (`at`): a file is torn
from its opening for writing until it is closed, and `Fails` may end a command after any step.
Commands follow one another; the service runs next to them. `edited` and `keyed` order the users'
files by their time of modification, which is what `_load_config` and `_scan_user_managed_key`
go by (`Newest`); a plain user's scan ends at the first profile it may not read (`Hidden`).
`SvcLooks` and `CmdLooks` take any set of key files as unreadable. `missed` is auxiliary: a key file
was deleted or not seen; `chosen` and `cut` are, too: the address a user gave to set-server, and
whose command was cut short while it saved `config.json`. `bound` is `devices.managed_key` of each
server, `Accepts` is `_authorize`. The device id is a fingerprint of the machine, so `device.json`
has no state of its own and a configuration either has the id or not (`named`). Registration tokens
are right.

### Replies

A question is its request id. `sending` and `written` are the two halves of `await send_json`,
`cut` is a send whose connection has gone, which may return or raise. `SendReturns` makes the
Future, so an answer may come before it and finds no entry. `Expires` is `wait_for`'s timeout:
agent-import takes its entry out of the table, agent-test calls a function it has not imported
and leaves it. A broken connection loses what the
device has not read and any end of its answers; what the server has received it still resolves, in
the order in which the device answered.

`InquirySpec` is the refinement: `asked` of `Inquiry` is the device in the request, `given` what the
devices have produced, `outcome` the result of the endpoint. Sends, resolving a Future, connecting
and breaking are stutters. So a question ends with the answer of the device it was put to, which
gave it once, and neither a late answer nor a broken connection changes how it has ended.

### Collection

One device and its gateway at one server. A round of `_run_periodic` is the set of reports that
are due, made in the order of the code; the first round of a process has all, so its usage report
is made before there is a key. `ThreadDies` is an exception of a step, which nothing catches:
`todo` is empty for ever, the connection and the executor go on. The gateway counts usage
(`Uses`), may make another key (`KeyChanges`) and answers or not; a report has all usage so far,
because `from_ts` is never given. `Send` drops a message when there is no connection.

All endpoints and handlers of the server are coroutines of one thread, so `get_conn` gives them
one connection and one transaction, `tx`. `Insert` is one INSERT and `Commit` the commit, as two
steps because the process may die between them (`ServerRestarts`); no coroutine runs in between.
A record that sqlite refuses ends the handler and leaves what it has inserted in `tx`, for the
commit of whoever comes next (`OtherCommits`, `Takes` of a status, `Commit`). The database itself
works: an INSERT of a good record or a commit that fails, on a full disk or a locked file, is not in
the model, and would leave part of a report that can be stored to that same commit. How usage is summed,
which paths are in the white list and the rows of the audit log are left out; several devices are
one device and the commits of others. A static `api_key` in `config.json` would be a key from the
start and is not in the model.

`StoreSpec` is the refinement: `real` of `ReportStore` is the reports that were so at some time
(`Real`), `current` the report whose handler runs and can still store it, `answer` what is committed
and not acknowledged yet, `kept` the reports that are there as a whole. `Insert` is a stutter, the
commit is `Keep`, a refused record and the death of the process are `End`. A report that was half
inserted and is completed by the commit of somebody else would be a step of no kind.

## Runs

All runs take TLC's full state space; sizes are distinct states.

| run | instance | states | shows |
|---|---|---|---|
| `Session` | 1 device, 2 WebSockets, 2 requests, 2 dispatching coroutines, queue and wire below 1 when a dispatch starts, 1 restart | 860 000 | `TypeOK`, `AttachedHandlerRuns`, `AttachedIsOnline`, `ServedDeviceHasNoBacklog`, `BacklogIsSentInOrder`, `NothingForgotten` |
| `SessionLiveness` | 1 device, 2 WebSockets, 1 request, 1 restart | 23 000 | `BacklogIsFlushed`, `DeliverySpec` |
| `SessionStaleDetach` | the same, no restart | violation | `OfflineDeviceHasNoConnection`: the late `finally` block of an old connection sets a device offline that is being served on a new one |
| `SessionLostMessage` | the same, no restart | violation | `UnconfirmedIsSentAgain`: a message whose send returned before the link broke is not sent again |
| `Exec` | a create, a command of two skills, a delete, a disable, an update whose fingerprint is wrong and one whose is right, a provider added and removed; one of them sent twice or two of them once; every fault, retries, 1 crash | 150 000 | `TypeOK`, `ExecutedOnce`, `FailsAtMostOnce`, `SuccessIsInPlace`, `ManagedExists`, `ExecutionSpec`, `Answered` |
| `ExecCrashTwin` | a create, 2 copies, 1 crash | violation | `NotCreatedTwice`: a crash before the log line lets the second copy create a second agent |
| `Repo` | 2 devices, 1 agent id, versions `1.0.0` or none given, 2 revs, 2 dispatches, 1 push at a time, 1 deletion | 660 000 | `TypeOK`, `RevsAreContiguous`, `PublicationSpec`, `DeployedWasInstalled`, `RevIsTheSameEverywhere` |
| `AuthLock` | 2 user names, lock after 2 failures for 2 seconds, 5 seconds | 37 000 | `TypeOK`, `FailuresAreSpread`, `LockIsExact` |
| `Client` | heartbeat and periodic thread, delays 1 to 4 | 7 000 | `TypeOK`, `NotifiedOnce`, `ConnectedIsUp`, `StopEnds`, `Reconnects` |
| `Install` | 2 users, one of them plain, 2 addresses, 2 keys | 3 700 000 | `TypeOK`, `BoundKeyIsFound`, `OneUserKey`, `ChosenAddressIsKept` |
| `Replies` | 2 questions, 2 devices | 69 000 | `TypeOK`, `InquirySpec`, `TableFits`, `EveryQuestionEnds` |
| `Collect` | 1 request for files, reports of 2 rows, usage 0 to 1, 1 message on the way, both oddities | 160 000 | `TypeOK`, `WholeReports`, `StoreSpec`, `UsageArrives` |

**Why these bounds.** What makes the session hard needs two WebSockets of one device (an old handler
that ends after the new one registered) and two dispatches under way (one that queues while
another's send is suspended). `MaxQueue` and `MaxWire` bound only the start of a dispatch, so the
queue still grows to two entries through sends that raise, with the same request id twice when a
dispatch is repeated, which is what the flush must get right. The refinement and liveness need one
request: repeated, it is in the queue, in a flush and in a send at once; what two do to each other
is in `Session`. Devices share nothing but request ids; that more of them change nothing is what the
theorems say. `Outcomes` is one value in the runs, because `Receive` treats the two alike. In the
executor one create (an id that CherryStudio chooses) and one command of several items cover the two
shapes of handler, the others put, take or need an agent or a provider that may or may not be there
and be managed from the start; what two requests can do to each other needs two on one item, a
delete and an update, a disable and an update, an add and a remove, and repetition needs one that is
sent twice. All of them at once would
multiply the states by orders in which they do not meet. In the repository two revs and two
dispatches give an older and a newer message that overtake each other. `AuthLock` has two locks of
two seconds within its clock. The bounds on `Client` are those of the code but for the delays, of
which only the cap matters. `Install` needs two users, for whom the order of files and the rights
differ, and two keys, one for a profile that does not see the other's; nothing is counted, so there
are no bounds. `Replies` has no bounds either: two questions to one device or to two are what can be
confused. In `Collect` two rows make a report that can be in pieces and a refused record that comes
after one that is not, one unit of usage tells an old report from the one of now, and one message at
a time loses, as any number would, what is on its way when a link breaks; the proofs have no bound
on any of them. WebSockets, coroutines, devices, request ids, agent ids and keys are permuted where
the run states no liveness property (`SYMMETRY`). `CHECK_DEADLOCK FALSE` is set where the client
stops for good.

**Fairness.** `DeviceSession`: weak fairness for every handler and coroutine, because the asyncio
loop runs what can run, and for the device's reconnect loop; strong fairness, per device, for the
two sends of the flush, because a network that breaks each connection before the same send would
be no network; nothing is assumed of dispatches, restarts or of the times at which links break.
The property is conditional: it speaks of devices that register infinitely often.
`Collection`: strong fairness of the rounds that report usage and that reconcile, because their
intervals pass again and again, and of each due step, because sends of other threads only fill
the wire for a while; strong fairness of a gateway that answers and of a key that is found, since
CherryStudio runs on the machine the device is for; weak fairness of the server's loop, which takes
what has arrived. With more than one message on the way, in a set, it could take others for ever; the
run has one. `UsageArrives` assumes in its
premise that the thread lives, the connection holds and the key is not an old one: the code
promises none of these.
`SidecarExec`: weak fairness of the receive loop. `WsClient`: weak fairness of each thread, and of
`stop()` once it was called; `recv` always ends because the server pings and the socket has a
timeout of 30 seconds; strong fairness of `Connects`, a server that can be reached again and again
is reached once. `Replies`: weak fairness of each endpoint, because a send is not suspended for
ever and the clock of `wait_for` runs; nothing is assumed of devices and links.

**Mutants.** For every property of a passing run a mutated definition stands before the one it
mutates (`AckSkipsFlush`, `DeleteHead`, `KnownByFile`, `CloseEnds`, ...): each is a bug the code
could have, and each makes TLC find the property violated. Nothing else uses them.

## Disagreements between code and documents

The violation runs show these with a trace (`PROJECT.json`, "findings").

- A device is shown offline while its new connection is served (`ws_server.py:154`).
- Unconfirmed messages are not sent again after a reconnection (`dispatch.py:64`;
  `pending_for_device` has no caller).
- A crash of the sidecar before the log line makes a second agent (`sidecar/dispatch.py:193`).

Others were met while modelling and have no run of their own:

- `devices.online` survives a restart of the server, the connections do not
  (`device_registry.py:132`).
- A message queued after a live connection was detached by mistake waits as long as that
  connection lasts (`dispatch.py:72`).
- `retry_injections` counts a request as succeeded that was never executed (`selfheal.py:125`),
  because the retry meets the idempotence check.
- Two revs may share a version: only the latest is compared (`agent_repo.py:112`).
- A receipt that comes after a deletion writes `deploy_status` of a package that is gone
  (`agent_repo.py:231`).
- `if_changed` compares with confirmed installations only, so it can dispatch an older rev behind a
  newer one that is not confirmed yet (`main.py:652`).
- The client connects again without a backoff when the server closes properly
  (`ws_client.py:124`), and its first message may be a heartbeat instead of register (`:114`).
- agent-test answers a timeout with an exception of its own, and its Future stays in the table
  (`main.py:600`, a missing import). `TableFits` says so.
- A rollback to a rev without an agent id is dispatched as a create: it makes a second agent and
  leaves the newer one (`server/dispatch.py:104`).
- `stop()` promises to close the socket (`lib/ws_client.py:87`). The socket of a connection that
  is made while it runs, and whose `on_connected` raises outside of the `try`, stays open after the
  loop has ended (`:117`).
- A send that raises only clears `_connected`: the loop goes on receiving, kept alive by the
  server's pings, while every answer is dropped (`lib/ws_client.py:187`).
- A reinstallation is refused: uninstalling deletes the user's key, the device id stays the same,
  and the servers have bound it to the old key (`ws_server.py:175`). The guides
  (`docs/交付-企业受管版完整使用说明.md:152`) say that reinstalling suffices.
- set-server in a profile without first-run makes the newest `config.json` one without device id;
  a service that loads it is refused (`sidecar.py:953`, `ws_server.py:172`).
- install-service before any first-run gives LocalSystem a configuration and a key of its own,
  which win over the users' from then on (`sidecar.py:161`, `:290`).
- A plain user does not see the other users' keys and makes a second one (`sidecar.py:269`); the
  service keeps to its own or to the newest, so this counts as a key that was missed.
- The docstrings of the management key say "不崩溃" and "下次周期重试" (`sidecar.py:455`): an answer
  that breaks off, or is a list, raises what is not caught there, and then there is no next period,
  since the thread is over. So does a count of tokens that `int()` does not take
  (`sidecar/collect.py:94`). The process goes on, looks connected and reports nothing.
- A usage report has all usage so far under a period that is the time of the report; the design
  (`docs/sdd-企业受管版.md:148`) has records of a period from-to. A sum over `usage_agg` counts the
  same tokens at each report (`sidecar.py:748`).
- `db.py:7` says that transactions are committed or rolled back by context managers: there are
  none, and a failing insertion leaves its transaction to the next commit (`collect.py:33`).
- `dispatch.py:185` says that the answer to fetch_agent_files is a dispatch_result that
  `confirm_result` takes; the device answers `agent_files`, and the row stays pending for ever.
- `server/reconcile.py:31` promises the dispatches that succeeded and selects all; in
  `sidecar/reconcile.py` nothing is ever added to `extra_unmanaged`.
- A command that is killed while it writes leaves a torn `config.json`, on which later commands
  and the service fail until the file is given explicitly (`sidecar.py:954`, `:984`); the address it
  had is lost. `ChosenAddressIsKept` says so.

## Proofs

| theorem | statement | rests on |
|---|---|---|
| `DeviceSessionProofs!TypeCorrect` | `[]TypeOK` | `Typed`: a handler past accept knows its device, one that flushes has something to flush |
| `AttachedCorrect`, `AttachedIsOnlineCorrect` | `[](AttachedHandlerRuns /\ AttachedIsOnline)` | inductive together with `Typed` |
| `BacklogCorrect`, `BacklogIsSentInOrderCorrect` | `[](ServedDeviceHasNoBacklog /\ BacklogIsSentInOrder)` | `Backlog`: while the attached handler flushes, the queue is a subsequence of what it still has to send |
| `NothingForgottenCorrect` | `[]NothingForgotten` | inductive together with `Typed`: an entry leaves the queue only with its request id leaving `owed` |
| `DeliveryCorrect` | `DeliverySpec` | `NothingForgotten`: each step is mapped, action by action, to a step of `Delivery` or a stutter, see below |
| `SidecarExecProofs!TypeCorrect` | `[]TypeOK` | `JobOK`: what is left to do belongs to a request that is under way |
| `FailsAtMostOnceCorrect`, `LoggedIsOverCorrect` | `[]FailsAtMostOnce`, `LoggedIsOver` | `Idempotent`: the log file is part of what is seen, a failed request is seen, a fresh job has not failed before |
| `ExecutionCorrect` | `ExecutionSpec` | `Idempotent`, see below |
| `ExecutedOnceCorrect` | `[]ExecutedOnce` | `Once`: what a request has done and has still to do fits into one command per life of the process; one that is not seen has not started in this life |
| `SuccessIsInPlaceCorrect` | `[]SuccessIsInPlace` | `InPlace`: what a job has done and has to do makes up its command, and what it has done is there and marked, or gone, as the command says |
| `ManagedExistsCorrect` | `[]ManagedExists` | `Gone`: an entry without its item is hurt or about to be marked |
| `AgentRepoProofs!TypeCorrect`, `RevsCorrect`, `DeployCorrect` | `[]TypeOK`, `[]RevsAreContiguous`, `[]DeployedWasInstalled` | `IInv`, which adds that receipts are true |
| `HistoryCorrect` | `HistoryIsKept` | the new rev is not among the old, from `RevsAreContiguous` |
| `PublicationCorrect` | `PublicationSpec` | `WasPublished`: every push and message under way holds a row of `ever`, see below |
| `SameCorrect` | `[]RevIsTheSameEverywhere` | `SameEverywhere`: also pushes and receipts under way hold rows of the history |
| `AdminAuthProofs!TypeCorrect`, `SpreadCorrect`, `LockCorrect` | `[]TypeOK`, `[]FailuresAreSpread`, `[]LockIsExact` | `Explained`: how the entry of a user name follows from when its logins failed; its part `InRounds` says that the failures since the last success are the count and full rounds of `MAX_FAILURES` |
| `WsClientProofs!TypeCorrect`, `NotifiedCorrect`, `ConnectedCorrect` | `[]TypeOK`, `[]NotifiedOnce`, `[]ConnectedIsUp` | `ClosedByStop`: nobody else closes a socket under the connection thread; `UpIsUntold`: a connection that is up has not been announced as down |
| `InstallationProofs!TypeCorrect`, `KeyCorrect`, `OneUserKeyCorrect`, `AddressCorrect` | `[]TypeOK`, `[](BoundKeyIsFound /\ OneUserKey)`, `[]ChosenAddressIsKept` | `KeysAgree` and `CommandAgrees`, see below |
| `RepliesProofs!TypeCorrect`, `OwnAnswerCorrect`, `TableCorrect` | `[]TypeOK`, `[]OwnAnswer`, `[]TableFits` | `OnTheWay`: what is on its way to or from a device was asked of that device; `Held`: a Future holds an answer to its own question |
| `InquiryCorrect` | `InquirySpec` | `Once`: a question is on one wire once, or it is answered, never both; `Untouched`: nothing is known of a question before it is asked |
| `CollectionProofs!TypeCorrect`, `WholeReportsCorrect`, `AcknowledgedIsStoredCorrect` | `[]TypeOK`, `[]WholeReports`, `[]AcknowledgedIsStored` | `Sound`: of a report that can be stored only its own running handler has rows in the transaction, and those before `job.at`, all of them when it is to commit |
| `StoreCorrect` | `StoreSpec` | `Sound`, and `Truthful`: a report on its way was so at some time |

Assumptions are those the modules declare: `None` is no id, bounds are naturals, a create has one
item whose id is open, `MAX_FAILURES` and `LOCK_SECONDS` are positive, `initial_delay` is positive
and at most `max_delay`. Each proof shows that the initial states satisfy the invariant, that each
action keeps it, one step per action, and that it implies the property.

Why `Backlog` is needed: that nothing is queued once a device is served follows from the last step
of the flush, and there from all steps before. While the flush is suspended the queue only loses
entries as long as the handler stays attached, since a dispatch sends directly then and a send that
raises detaches first; but handlers of older connections of the same device delete from the same
queue, and the same id may be queued twice. That the queue is a subsequence of the rest of the flush
survives all that: the snapshot is the queue; a sent head is removed from both, and because it is
the first matching entry of the queue that is deleted (`RemoveFirst`), what is left fits into the
tail (`WithinAfterHead`); an entry deleted by others only helps. It also says that the backlog goes
out in the order in which it was queued. A dispatch that comes during the flush is sent at once and
overtakes it (`dispatch.py:64`), which is why `AgentRepo` takes messages in any order.

Why `KeysAgree` is needed: that the service finds the key the servers know depends on what is under
way when the first key appears. It says that a command about to write a key found none among the
users, that the service registers with the very key it would find at that moment, and that no
server has a key while the service makes one. Hence first-run and the service may each make a key,
but only before anything is bound, and LocalSystem's own, which comes first in `_managed_key`, is
then the only one ever bound. `CommandAgrees` does the same for addresses: what a command has read
and is about to save is what was chosen. `ChosenAddressIsKept` has one exception, which it states: a
command cut short in its save, after `config.json` was opened for writing, leaves the file torn and
the address lost (`sidecar.py:984`). The proof shows that it is the only one: `Fails` anywhere else
leaves the file as it is, and a copy, which tears it too, only begins when no address is chosen.

Why the refinement needs an invariant: a step of `Delivery` that takes a message from `held` must
be a send that returned. In `DeviceSession` an entry leaves the queue when a flush deletes it and
is in flight while a send of it is suspended; that a deletion, a failing send or a handler that
ends never takes the last copy of what is still owed is `NothingForgotten`, and what such a step
does to the occurrences in the queue are the lemmas on `RemoveFirst` at the head of
`DeviceSessionProofs`.

In the other refinements most steps are stutters, and what has to be shown is that they are.
`SidecarExec`: a handler does not start a request that is seen, so an effect falls into the life that
started it; `Idempotent` relates the log file, which is all that a restart leaves, to what is seen.
`AgentRepo`: `Install` needs a row that was published, although its message may come after the
deletion of the package; only `WasPublished`, which follows the row from the table into the push
and the message, tells where it came from. The rows are a set, and they make a sequence
because `RevsAreContiguous`; that an insertion appends to that sequence, and does not change its
beginning, is `HistoryGrows`. `Replies`: that a device answers a question once is true because the
question is sent once and is not on the wire any more when it was answered, which is `Once`.
`Collection`: a commit stores the report of its own handler and none else's, because whatever other
rows are in the transaction, those of a report that was refused or of one whose process died, never
make up a whole report: `Sound` again.

Only model-checked: `BacklogIsFlushed`, `Answered`, `StopEnds`, `Reconnects`,
`EveryQuestionEnds`, `UsageArrives` (liveness is out of the prover's reach). Every invariant and
action property of the passing runs is proved.

## What is not modelled

- Snapshots and rollback of the healer: nothing in the program calls `snapshot`, `rollback` or
  `check`.
- The comparison of the reconciliation: a pure function of two lists whose result is logged and
  used by nobody. That the step is made, fetches the key and may end the thread is in `Collection`.
- The update feed (a form that is checked and one file that is written), discovery (one UDP
  exchange), the page, the listings and the audit log, migrations, scripts, installers and
  templates: no state that lives longer than a call, or none but a row.
- The HTTP clients, which are stateless: their answers and failures are inputs of `SidecarExec`
  and `Collection`.
- Answers of CherryStudio to a create that lack the id, and a database of the server that fails.
- Restarts of the server in `Replies`, where they end the questions. Installations on other
  systems than Windows, where install-service prints a text, and two commands at once in
  `Installation` (two first-runs that overlap do make two keys).
- Request ids are distinct model values; the code makes them from the time of day (`main.py:682`),
  and two that coincide would be taken for a repetition. Groups of devices are sets of devices
  here.

## What could follow

`Delivery` ends at the transport. The next larger claim composes `DeviceSession` with
`SidecarExec`: a message that is held is executed at most once per life of the device's process,
with the two halves of the wire joined. Its state space is the product of the two, so it is a
theorem rather than a run.
