------------------------------- MODULE WsClient -------------------------------
(***************************************************************************)
(* The device's connection loop (sidecar/lib/ws_client.py) with the        *)
(* threads of the sidecar that send through it (sidecar/sidecar.py): the   *)
(* connection thread, which connects, registers, receives and answers; the *)
(* heartbeat and periodic threads; the main thread, which stops them.      *)
(*                                                                         *)
(* Python threads switch anywhere, so a step is what lies between two      *)
(* accesses of _stop, ws or _connected.  Only the connection thread        *)
(* assigns ws, hence one socket is modelled, the one ws refers to.  What   *)
(* the server and the network do to it comes from outside.                 *)
(***************************************************************************)
EXTENDS Naturals

CONSTANTS
    Others,         \* the heartbeat thread and the periodic thread
    initial_delay, max_delay, multiplier

Loop == "loop"                      \* the connection thread, as a sender
Senders == Others \cup {Loop}

ASSUME WsClientAssumption ==
    /\ Loop \notin Others
    /\ initial_delay \in Nat \ {0} /\ max_delay \in Nat
    /\ initial_delay <= max_delay /\ multiplier \in Nat \ {0}

VARIABLES
    stop,       \* _stop
    connected,  \* _connected
    delay,      \* _reconnect_delay
    loop,       \* what the connection thread is doing
    raised,     \* is it leaving _connect_once with an exception
    send,       \* what each thread is doing in send
    halt,       \* what the main thread has done of stop()
    link,       \* the socket ws refers to, "none" before the first
    told        \* how often on_disconnected was called for it

vars == <<stop, connected, delay, loop, raised, send, halt, link, told>>

Running == {"top", "connecting", "register", "registering", "check", "recv", "handling",
            "answering", "finally", "close", "leave", "backoff"}
Links == {"none", "open", "closing", "broken", "closed"}

TypeOK ==
    /\ stop \in BOOLEAN /\ connected \in BOOLEAN /\ raised \in BOOLEAN
    /\ delay \in initial_delay..max_delay
    /\ loop \in Running \cup {"ended"}
    /\ send \in [Senders -> {"no", "checked", "failed"}]
    /\ halt \in {"no", "flagged", "closed", "done"}
    /\ link \in Links
    /\ told \in Nat

Init ==
    /\ stop = FALSE /\ connected = FALSE /\ delay = initial_delay
    /\ loop = "top" /\ raised = FALSE
    /\ send = [t \in Senders |-> "no"]
    /\ halt = "no"
    /\ link = "none" /\ told = 0

Min2(x, y) == IF x < y THEN x ELSE y

-----------------------------------------------------------------------------
(* send *)

\* The test of _connected and ws; when it fails send returns False.
SendChecks(t) == send' = [send EXCEPT ![t] = IF connected THEN "checked" ELSE "no"]

\* The message is written under the lock, on the ws of now.
SendWrites(t) ==
    /\ send[t] = "checked"
    /\ link \in {"open", "closing"}
    /\ send' = [send EXCEPT ![t] = "no"]
    /\ UNCHANGED <<stop, connected, delay, loop, raised, halt, link, told>>

\* The socket raises, or json.dumps does, also on a socket that is well.
SendRaises(t) ==
    /\ send[t] = "checked"
    /\ send' = [send EXCEPT ![t] = "failed"]
    /\ UNCHANGED <<stop, connected, delay, loop, raised, halt, link, told>>

SendFails(t) ==
    /\ send[t] = "failed"
    /\ connected' = FALSE
    /\ send' = [send EXCEPT ![t] = "no"]
    /\ UNCHANGED <<stop, delay, loop, raised, halt, link, told>>

\* A heartbeat, a usage report or a status report.
Report(t) ==
    /\ t \in Others /\ send[t] = "no"
    /\ connected
    /\ SendChecks(t)
    /\ UNCHANGED <<stop, connected, delay, loop, raised, halt, link, told>>

-----------------------------------------------------------------------------
(* The connection thread *)

\* _set_disconnected, with the callback when _connected was still set.
ToldAlways == told' = told + 1
Told == told' = IF connected THEN told + 1 ELSE told
SetDisconnectedLate == connected' = (connected /\ loop # "leave") /\ Told
SetDisconnected == connected' = FALSE /\ Told

\* The loops of _run and _connect_once test _stop.
Top ==
    /\ loop = "top"
    /\ \/ /\ stop
          /\ loop' = "ended"
          /\ SetDisconnected
       \/ /\ ~stop
          /\ loop' = "connecting"
          /\ UNCHANGED <<connected, told>>
    /\ UNCHANGED <<stop, delay, raised, send, halt, link>>

Connects ==
    /\ loop = "connecting"
    /\ link' = "open" /\ told' = 0
    /\ connected' = TRUE
    /\ loop' = "register"
    /\ UNCHANGED <<stop, delay, raised, send, halt>>

ConnectFails ==
    /\ loop = "connecting"
    /\ loop' = "leave" /\ raised' = TRUE
    /\ UNCHANGED <<stop, connected, delay, send, halt, link, told>>

\* on_connected: the managed key is read, or made, which may raise; then send.
Registers ==
    /\ loop = "register"
    /\ \/ loop' = "registering" /\ SendChecks(Loop) /\ UNCHANGED raised
       \/ loop' = "leave" /\ raised' = TRUE /\ UNCHANGED send
    /\ UNCHANGED <<stop, connected, delay, halt, link, told>>

\* send has returned, whatever it returned.
Registered ==
    /\ loop = "registering" /\ send[Loop] = "no"
    /\ loop' = "check"
    /\ delay' = initial_delay
    /\ UNCHANGED <<stop, connected, raised, send, halt, link, told>>

CheckForever ==
    /\ loop = "check"
    /\ loop' = "recv"
    /\ raised' = FALSE
    /\ UNCHANGED <<stop, connected, delay, send, halt, link, told>>
Check ==
    /\ loop = "check"
    /\ loop' = IF stop THEN "finally" ELSE "recv"
    /\ raised' = FALSE
    /\ UNCHANGED <<stop, connected, delay, send, halt, link, told>>

Receives ==
    /\ loop = "recv" /\ link = "open"
    /\ loop' = "handling"
    /\ UNCHANGED <<stop, connected, delay, raised, send, halt, link, told>>

\* A ping is answered with a pong, a command with its result; other messages, and
\* one that is no JSON, have no answer.
Handles ==
    /\ loop = "handling"
    /\ \/ loop' = "answering" /\ SendChecks(Loop)
       \/ loop' = "check" /\ UNCHANGED send
    /\ UNCHANGED <<stop, connected, delay, raised, halt, link, told>>

Answered ==
    /\ loop = "answering" /\ send[Loop] = "no"
    /\ loop' = "check"
    /\ UNCHANGED <<stop, connected, delay, raised, send, halt, link, told>>

\* recv returns "" after the server's close frame; it raises on a socket that
\* broke, that stop() closed, or that was silent for 30 seconds.
ReceivesEnd ==
    /\ loop = "recv"
    /\ \/ link = "closing" /\ UNCHANGED raised
       \/ raised' = TRUE
    /\ loop' = "finally"
    /\ UNCHANGED <<stop, connected, delay, send, halt, link, told>>

Finally ==
    /\ loop = "finally"
    /\ SetDisconnected
    /\ loop' = "close"
    /\ UNCHANGED <<stop, delay, raised, send, halt, link>>

CloseEnds ==
    /\ loop = "close"
    /\ link' = "closed"
    /\ loop' = IF raised THEN "leave" ELSE "ended"
    /\ UNCHANGED <<stop, connected, delay, raised, send, halt, told>>
Close ==
    /\ loop = "close"
    /\ link' = "closed"
    /\ loop' = IF raised THEN "leave" ELSE "top"
    /\ UNCHANGED <<stop, connected, delay, raised, send, halt, told>>

\* The except of _run: _set_disconnected again, and the sleep begins.
LeavesUncapped ==
    /\ loop = "leave"
    /\ SetDisconnected
    /\ delay' = delay * multiplier
    /\ loop' = "backoff" /\ raised' = FALSE
    /\ UNCHANGED <<stop, send, halt, link>>
Leaves ==
    /\ loop = "leave"
    /\ SetDisconnected
    /\ delay' = Min2(delay * multiplier, max_delay)
    /\ loop' = "backoff" /\ raised' = FALSE
    /\ UNCHANGED <<stop, send, halt, link>>

WakesUp ==
    /\ loop = "backoff"
    /\ loop' = "top"
    /\ UNCHANGED <<stop, connected, delay, raised, send, halt, link, told>>

-----------------------------------------------------------------------------
(* The main thread, the server and the network *)

\* stop(): the flag, then the socket of now, then _connected.
Stop ==
    /\ \/ halt = "no" /\ halt' = "flagged" /\ stop' = TRUE /\ UNCHANGED <<connected, link>>
       \/ /\ halt = "flagged" /\ halt' = "closed"
          /\ link' = IF link = "none" THEN link ELSE "closed"
          /\ UNCHANGED <<stop, connected>>
       \/ halt = "closed" /\ halt' = "done" /\ connected' = FALSE /\ UNCHANGED <<stop, link>>
    /\ UNCHANGED <<delay, loop, raised, send, told>>

\* The server closes the connection, or it breaks.
Lost ==
    /\ \/ link = "open" /\ link' \in {"closing", "broken"}
       \/ link = "closing" /\ link' = "broken"
    /\ UNCHANGED <<stop, connected, delay, loop, raised, send, halt, told>>

-----------------------------------------------------------------------------

Sends(t) == SendWrites(t) \/ SendRaises(t) \/ SendFails(t)

LoopStep ==
    \/ Top \/ Connects \/ ConnectFails \/ Registers \/ Registered \/ Check
    \/ Receives \/ Handles \/ Answered \/ ReceivesEnd
    \/ Finally \/ Close \/ Leaves \/ WakesUp

Next ==
    \/ \E t \in Senders : Sends(t) \/ Report(t)
    \/ LoopStep
    \/ Stop
    \/ Lost

Spec == Init /\ [][Next]_vars

\* Threads go on; the server sends its pings, so recv returns or raises; a server
\* that can be reached again and again is reached.
Fairness ==
    /\ WF_vars(LoopStep) /\ SF_vars(Connects)
    /\ WF_vars(halt # "no" /\ Stop)
    /\ \A t \in Senders : WF_vars(Sends(t))
FairSpec == Spec /\ Fairness

-----------------------------------------------------------------------------
(* What must hold *)

\* on_disconnected runs at most once for a connection, although _set_disconnected
\* is reached from the finally block, from the except of _run and at its end.
NotifiedOnce == told <= 1

\* _connected is only set while the loop is on a socket that it has not closed,
\* whatever send and stop() do to it from other threads.
ConnectedIsUp ==
    connected => /\ loop \notin {"top", "connecting", "close", "backoff", "ended"}
                 /\ link # "none" /\ (link = "closed" => stop)

\* stop() ends the connection thread.
StopEnds == stop ~> loop = "ended"

\* A lost connection is made again, unless the client is stopped.
Reconnects == link # "open" ~> (link = "open" \/ stop)

=============================================================================
