---------------------------- MODULE DeviceSession ----------------------------
(***************************************************************************)
(* The server's side of a device connection: the /ws handler               *)
(* (server/ws_server.py), the in-memory connection table and the online    *)
(* column (server/device_registry.py), dispatching with its log and the    *)
(* offline queue (server/dispatch.py).                                     *)
(*                                                                         *)
(* The server is one asyncio loop: what runs between two awaits is one     *)
(* action here, and every await is a point where other handlers and other  *)
(* admin requests run.  `await ws.send_json` hands the message to the      *)
(* transport when it starts and returns, or raises, in a later step.       *)
(*                                                                         *)
(* The device is the environment of this module: it opens a connection,    *)
(* handles what it receives in order, answers on the same connection.      *)
(***************************************************************************)
EXTENDS Naturals, Sequences, SequencesExt

CONSTANTS
    Devices,     \* device ids
    Conns,       \* WebSocket objects; one is used again once nothing refers to it
    Requests,    \* request ids
    Callers,     \* coroutines that can be inside DispatchService._dispatch at once
    Outcomes,    \* what a device may answer, a subset of {"success", "fail"}
    None,        \* Python's None
    MaxQueue,    \* bound: a dispatch starts only below this many queued messages
    MaxWire,     \* bound: and below this many unread messages and answers on its connection
    MaxBoots     \* bound: how often the server process may be restarted

ASSUME DeviceSessionAssumption ==
    /\ None \notin Devices \cup Conns \cup Requests
    /\ Outcomes \subseteq {"success", "fail"}
    /\ MaxQueue \in Nat /\ MaxWire \in Nat /\ MaxBoots \in Nat

VARIABLES
    \* server memory
    phase,        \* what the handler of a WebSocket is doing
    dev,          \* the device a WebSocket belongs to
    connections,  \* DeviceRegistry._connections
    queue,        \* OFFLINE_QUEUE, the messages of each device in order
    toSend,       \* what _flush_offline of a handler has still to finish
    call,         \* the coroutines suspended in _dispatch
    owed,         \* auxiliary: dispatched since no send of it has returned
    \* server database
    online,       \* devices.online
    log,          \* dispatch_log: status and device of a request
    boots,        \* restarts so far
    \* network and device
    link,         \* can the two ends of a WebSocket still reach each other
    wire,         \* server to device, written and not yet read
    back,         \* device to server, written and not yet read
    cli           \* the WebSocket a device is on

server == <<phase, dev, connections, queue, toSend, call, owed, online, log, boots>>
network == <<link, wire, back, cli>>
vars == <<server, network>>

-----------------------------------------------------------------------------
(* Types and shorthands *)

Phases == {"free", "accepted", "acking", "flushing", "serving"}
Registered == {"acking", "flushing", "serving"}      \* device_id is bound in handle()
Idle == [pc |-> "idle", dev |-> None, req |-> None, ws |-> None]
Sending == [pc : {"sending"}, dev : Devices, req : Requests, ws : Conns]
NoLog == [status |-> "none", dev |-> None]
Answer == [req : Requests, status : Outcomes]
Logged == [status : {"pending", "success", "fail"}, dev : Devices]

TypeOK ==
    /\ phase \in [Conns -> Phases]
    /\ dev \in [Conns -> Devices \cup {None}]
    /\ connections \in [Devices -> Conns \cup {None}]
    /\ queue \in [Devices -> Seq(Requests)]
    /\ toSend \in [Conns -> Seq(Requests)]
    /\ call \in [Callers -> Sending \cup {Idle}]
    /\ owed \subseteq Devices \X Requests
    /\ online \in [Devices -> BOOLEAN]
    /\ log \in [Requests -> Logged \cup {NoLog}]
    /\ boots \in 0..MaxBoots
    /\ link \in [Conns -> {"up", "down"}]
    /\ wire \in [Conns -> Seq(Requests)]
    /\ back \in [Conns -> Seq(Answer)]
    /\ cli \in [Devices -> Conns \cup {None}]

InQueue(d, r) == r \in ToSet(queue[d])
InFlight(d, r) ==
    \E p \in Callers : call[p].pc = "sending" /\ call[p].dev = d /\ call[p].req = r

\* A WebSocket object can be taken for a new connection when nothing holds it.
Unused(c) ==
    /\ phase[c] = "free"
    /\ \A d \in Devices : connections[d] # c /\ cli[d] # c
    /\ \A p \in Callers : call[p].ws # c

\* What the transport holds after send_json(r) on c started.
Written(c, r) == IF link[c] = "up" THEN Append(wire[c], r) ELSE wire[c]

Init ==
    /\ phase = [c \in Conns |-> "free"]
    /\ dev = [c \in Conns |-> None]
    /\ connections = [d \in Devices |-> None]
    /\ queue = [d \in Devices |-> <<>>]
    /\ toSend = [c \in Conns |-> <<>>]
    /\ call = [p \in Callers |-> Idle]
    /\ owed = {}
    /\ online = [d \in Devices |-> FALSE]
    /\ log = [r \in Requests |-> NoLog]
    /\ boots = 0
    /\ link = [c \in Conns |-> "down"]
    /\ wire = [c \in Conns |-> <<>>]
    /\ back = [c \in Conns |-> <<>>]
    /\ cli = [d \in Devices |-> None]

-----------------------------------------------------------------------------
(* DeviceRegistry and the offline queue *)

Attach(d, c) == connections' = [connections EXCEPT ![d] = c]

DetachForgotten(d) == UNCHANGED connections
Detach(d) == connections' = [connections EXCEPT ![d] = None]

\* register and touch write online=1, set_offline writes 0.
RegisterKeepsOnline(d, b) == online' = [online EXCEPT ![d] = b /\ @]
SetOnline(d, b) == online' = [online EXCEPT ![d] = b]

Enqueue(d, r) == queue' = [queue EXCEPT ![d] = Append(@, r)]

\* What the flush deletes: the first entry with the request id it has sent.
DeleteHead(q, r) == IF q = <<>> THEN q ELSE Tail(q)
Delete(q, r) == RemoveFirst(q, r)

-----------------------------------------------------------------------------
(* WSServer.handle *)

\* The first message has not come in 10 s, or _authorize refused it: device_id
\* is still None, so the finally block leaves the registry alone.
Refuse(c) ==
    /\ phase[c] = "accepted"
    /\ phase' = [phase EXCEPT ![c] = "free"]
    /\ link' = [link EXCEPT ![c] = "down"]
    /\ UNCHANGED <<dev, connections, queue, toSend, call, owed, online, log, boots,
                   wire, back, cli>>

\* The register message is accepted: attach, the UPSERT with online=1, and the
\* register_ack starts.  It may come late, on a link the device has left.
Register(c) ==
    /\ phase[c] = "accepted"
    /\ Attach(dev[c], c)
    /\ SetOnline(dev[c], TRUE)
    /\ phase' = [phase EXCEPT ![c] = "acking"]
    /\ UNCHANGED <<dev, queue, toSend, call, owed, log, boots, network>>

\* Continue the flush with ts still to send: the first of ts is written, or,
\* when nothing is left, the heartbeat task and the receive loop start.
Flush(c, ts) ==
    /\ toSend' = [toSend EXCEPT ![c] = ts]
    /\ phase' = [phase EXCEPT ![c] = IF ts = <<>> THEN "serving" ELSE "flushing"]
    /\ wire' = IF ts = <<>> THEN wire
                            ELSE [wire EXCEPT ![c] = Written(c, Head(ts))]

\* register_ack is out: _flush_offline takes its snapshot of the queue.
AckSkipsFlush(c) ==
    /\ phase[c] = "acking"
    /\ Flush(c, <<>>)
    /\ UNCHANGED <<dev, connections, queue, call, owed, online, log, boots,
                   link, back, cli>>
AckReturns(c) ==
    /\ phase[c] = "acking"
    /\ Flush(c, queue[dev[c]])
    /\ UNCHANGED <<dev, connections, queue, call, owed, online, log, boots,
                   link, back, cli>>

\* A flushed message is out: its entry is deleted, wherever it is by now.
FlushReturns(c) ==
    /\ phase[c] = "flushing"
    /\ LET d == dev[c]
           r == Head(toSend[c])
       IN  /\ queue' = [queue EXCEPT ![d] = Delete(@, r)]
           /\ owed' = owed \ {<<d, r>>}
    /\ Flush(c, Tail(toSend[c]))
    /\ UNCHANGED <<dev, connections, call, online, log, boots, link, back, cli>>

\* A send or a receive raised because the link is down: the finally block, by
\* device id, whatever connection is attached for the device by now.
HandlerEnds(c) ==
    /\ phase[c] \in Registered
    /\ link[c] = "down"
    /\ phase' = [phase EXCEPT ![c] = "free"]
    /\ toSend' = [toSend EXCEPT ![c] = <<>>]
    /\ Detach(dev[c])
    /\ SetOnline(dev[c], FALSE)
    /\ UNCHANGED <<dev, queue, call, owed, log, boots, network>>

\* _route of a dispatch_result: confirm_result updates the row, if there is one.
Receive(c) ==
    /\ phase[c] = "serving"
    /\ back[c] # <<>>
    /\ LET m == Head(back[c])
       IN  log' = IF log[m.req] = NoLog THEN log
                  ELSE [log EXCEPT ![m.req].status = m.status]
    /\ back' = [back EXCEPT ![c] = Tail(@)]
    /\ UNCHANGED <<phase, dev, connections, queue, toSend, call, owed, online, boots,
                   link, wire, cli>>

\* A tick of _heartbeat, a pong, a status or a further register message.
Touch(c) ==
    /\ phase[c] = "serving"
    /\ SetOnline(dev[c], TRUE)
    /\ UNCHANGED <<phase, dev, connections, queue, toSend, call, owed, log, boots, network>>

-----------------------------------------------------------------------------
(* DispatchService *)

\* _create_log: one row per request id, kept as it is when the id comes again.
CreateLogReplaces(d, r) == log' = [log EXCEPT ![r] = [status |-> "pending", dev |-> d]]
CreateLogNoDevice(d, r) == log' = [log EXCEPT ![r] = [status |-> "pending", dev |-> None]]
CreateLog(d, r) ==
    log' = IF log[r] = NoLog
           THEN [log EXCEPT ![r] = [status |-> "pending", dev |-> d]]
           ELSE log

\* dispatch_* up to the first await: without a connection the message is queued
\* and the call is over, with one the send starts.
Dispatch(p, d, r) ==
    /\ call[p] = Idle
    /\ Len(queue[d]) < MaxQueue
    /\ CreateLog(d, r)
    /\ owed' = owed \cup {<<d, r>>}
    /\ LET ws == connections[d]
       IN  \/ /\ ws = None
              /\ Enqueue(d, r)
              /\ UNCHANGED <<call, wire>>
           \/ /\ ws # None
              /\ Len(wire[ws]) + Len(back[ws]) < MaxWire
              /\ wire' = [wire EXCEPT ![ws] = Written(ws, r)]
              /\ call' = [call EXCEPT ![p] =
                            [pc |-> "sending", dev |-> d, req |-> r, ws |-> ws]]
              /\ UNCHANGED queue
    /\ UNCHANGED <<phase, dev, connections, toSend, online, boots, link, back, cli>>

\* send_json returned; on a link that broke the message may be lost all the same.
DispatchReturns(p) ==
    /\ call[p] # Idle
    /\ call' = [call EXCEPT ![p] = Idle]
    /\ owed' = owed \ {<<call[p].dev, call[p].req>>}
    /\ UNCHANGED <<phase, dev, connections, queue, toSend, online, log, boots, network>>

\* send_json raised: set_offline, detach, and the message goes to the queue.
DispatchRaises(p) ==
    /\ call[p] # Idle
    /\ link[call[p].ws] = "down"
    /\ LET d == call[p].dev
       IN  /\ SetOnline(d, FALSE)
           /\ Detach(d)
           /\ Enqueue(d, call[p].req)
    /\ call' = [call EXCEPT ![p] = Idle]
    /\ UNCHANGED <<phase, dev, toSend, owed, log, boots, network>>

\* The server process stops and starts: its memory is gone, its database is not.
Restart ==
    /\ boots < MaxBoots
    /\ boots' = boots + 1
    /\ phase' = [c \in Conns |-> "free"]
    /\ connections' = [d \in Devices |-> None]
    /\ queue' = [d \in Devices |-> <<>>]
    /\ toSend' = [c \in Conns |-> <<>>]
    /\ call' = [p \in Callers |-> Idle]
    /\ owed' = {}
    /\ link' = [c \in Conns |-> "down"]
    /\ UNCHANGED <<dev, online, log, wire, back, cli>>

-----------------------------------------------------------------------------
(* The network and the device *)

\* ws_client._connect_once with the register message of its on_connected.
Connect(d, c) ==
    /\ cli[d] = None
    /\ Unused(c)
    /\ cli' = [cli EXCEPT ![d] = c]
    /\ dev' = [dev EXCEPT ![c] = d]
    /\ phase' = [phase EXCEPT ![c] = "accepted"]
    /\ link' = [link EXCEPT ![c] = "up"]
    /\ wire' = [wire EXCEPT ![c] = <<>>]
    /\ back' = [back EXCEPT ![c] = <<>>]
    /\ UNCHANGED <<connections, queue, toSend, call, owed, online, log, boots>>

\* The connection breaks; each end still gets a prefix of what was under way.
Break(c) ==
    /\ link[c] = "up"
    /\ link' = [link EXCEPT ![c] = "down"]
    /\ \E w \in Prefixes(wire[c]) : wire' = [wire EXCEPT ![c] = w]
    /\ \E b \in Prefixes(back[c]) : back' = [back EXCEPT ![c] = b]
    /\ UNCHANGED <<server, cli>>

\* The device notices, or closes: what it has not read is gone.
Leave(d) ==
    /\ cli[d] # None
    /\ cli' = [cli EXCEPT ![d] = None]
    /\ link' = [link EXCEPT ![cli[d]] = "down"]
    /\ wire' = [wire EXCEPT ![cli[d]] = <<>>]
    /\ UNCHANGED <<server, back>>

\* The device executes the next message and answers while it still can.
Handle(d) ==
    /\ cli[d] # None
    /\ LET c == cli[d]
       IN  /\ wire[c] # <<>>
           /\ wire' = [wire EXCEPT ![c] = Tail(@)]
           /\ IF link[c] = "down" THEN UNCHANGED back
              ELSE \E s \in Outcomes :
                     back' = [back EXCEPT ![c] =
                                Append(@, [req |-> Head(wire[c]), status |-> s])]
    /\ UNCHANGED <<server, link, cli>>

-----------------------------------------------------------------------------

HandlerStep(c) ==
    \/ Refuse(c) \/ Register(c) \/ AckReturns(c) \/ FlushReturns(c)
    \/ HandlerEnds(c) \/ Receive(c) \/ Touch(c)

Next ==
    \/ \E c \in Conns : HandlerStep(c) \/ Break(c)
    \/ \E p \in Callers :
          \/ \E d \in Devices, r \in Requests : Dispatch(p, d, r)
          \/ DispatchReturns(p)
          \/ DispatchRaises(p)
    \/ Restart
    \/ \E d \in Devices :
          \/ \E c \in Conns : Connect(d, c)
          \/ Leave(d)
          \/ Handle(d)

Spec == Init /\ [][Next]_vars

-----------------------------------------------------------------------------
(* What must hold *)

\* A dispatch never picks a WebSocket whose handler has ended or serves another
\* device: what the connection table holds is a registered handler of that device.
AttachedHandlerRuns ==
    \A d \in Devices : connections[d] # None =>
        /\ phase[connections[d]] \in Registered
        /\ dev[connections[d]] = d

\* The connection table and the database column move together: a device that
\* dispatches reach over a connection is online=1 (register, set_offline, touch).
AttachedIsOnline == \A d \in Devices : connections[d] # None => online[d]

\* While a device is attached and served, nothing waits for it in the offline
\* queue: entries made before are flushed, and a failed send detaches first.
ServedDeviceHasNoBacklog ==
    \A d \in Devices :
        connections[d] # None /\ phase[connections[d]] = "serving" => queue[d] = <<>>

\* Why that holds, and more: while the attached handler flushes, what waits is a
\* subsequence of what it has still to send.  So nothing is skipped and the backlog goes
\* out in the order in which it was queued, repeated request ids included, although
\* handlers of older connections of the device delete from the same queue.
IsWithin(q, s) ==
    \E place \in [1..Len(q) -> 1..Len(s)] :
        /\ \A i \in 1..Len(q) : q[i] = s[place[i]]
        /\ \A i, j \in 1..Len(q) : i < j => place[i] < place[j]

BacklogIsSentInOrder ==
    \A d \in Devices :
        connections[d] # None /\ phase[connections[d]] = "flushing" =>
            IsWithin(queue[d], toSend[connections[d]])

\* A handler past accept knows its device, one that flushes has a message to send.
HandlerHasDevice == \A c \in Conns : phase[c] # "free" => dev[c] \in Devices
FlushHasWork == \A c \in Conns : phase[c] = "flushing" => toSend[c] # <<>>

\* Within one server process no accepted message is dropped: until a send of it
\* has returned it is in the offline queue or in a coroutine that will queue it
\* when the send raises.
NothingForgotten ==
    \A d \in Devices, r \in Requests :
        <<d, r>> \in owed => InQueue(d, r) \/ InFlight(d, r)

\* The module keeps what dispatching promises (Delivery): no connection, flush,
\* failing send or repeated request id takes a message from its device before a
\* send of it has returned, and a row is made once and changed by answers only.
Held == {m \in Devices \X Requests : InQueue(m[1], m[2]) \/ InFlight(m[1], m[2])}
D == INSTANCE Delivery WITH held <- Held, due <- owed, row <- log, NoRow <- NoLog
DeliverySpec == D!Spec

\* The loop runs every coroutine that can go on, the device's reconnect loop goes
\* on for ever, and a network that lets connections be made again and again does
\* not break each of them before the same send.
Fairness ==
    /\ \A c \in Conns :
          /\ WF_vars(Register(c)) /\ WF_vars(HandlerEnds(c)) /\ WF_vars(Receive(c))
          /\ \A d \in Devices :
                /\ SF_vars(dev[c] = d /\ AckReturns(c))
                /\ SF_vars(dev[c] = d /\ FlushReturns(c))
    /\ \A p \in Callers : WF_vars(DispatchReturns(p) \/ DispatchRaises(p))
    /\ \A d \in Devices :
          WF_vars(\E c \in Conns : Connect(d, c)) /\ WF_vars(Handle(d))

FairSpec == Spec /\ Fairness

\* A device that keeps coming back gets its backlog: if it registers again and
\* again, each message in its offline queue leaves the queue.
BacklogIsFlushed ==
    \A d \in Devices :
        []<>(\E c \in Conns : phase[c] = "acking" /\ dev[c] = d)
            => \A r \in Requests : InQueue(d, r) ~> ~InQueue(d, r)

-----------------------------------------------------------------------------
(* What the documentation says and the code does not do *)

\* device_registry.py:182, "offline" is a device whose WebSocket is closed now.
OfflineDeviceHasNoConnection ==
    \A d \in Devices : ~online[d] =>
        ~\E c \in Conns : phase[c] = "serving" /\ dev[c] = d /\ link[c] = "up"

\* sdd 3.9, after a reconnection the server sends the unconfirmed dispatches again:
\* once the backlog of a new connection is flushed, each pending request of the
\* device has been written to it or is still to be.
UnconfirmedIsSentAgain ==
    [][\A c \in Conns, r \in Requests :
          /\ phase[c] # "serving" /\ phase'[c] = "serving"
          /\ link[c] = "up" /\ log[r].status = "pending" /\ log[r].dev = dev[c]
          => \/ r \in ToSet(wire[c]) \/ InFlight(dev[c], r) \/ InQueue(dev[c], r)
             \/ \E i \in DOMAIN back[c] : back[c][i].req = r]_vars

=============================================================================
