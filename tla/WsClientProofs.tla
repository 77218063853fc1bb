---------------------------- MODULE WsClientProofs ----------------------------
(***************************************************************************)
(* Theorems about WsClient, for any threads that send and any delays: the  *)
(* delay stays within its bounds, on_disconnected runs once per connection *)
(* and _connected is only set while the loop is on an open socket.         *)
(***************************************************************************)
EXTENDS WsClient, TLAPS

\* The connection thread has a socket that it has not given up yet.
OnSocket == {"register", "registering", "check", "recv", "handling", "answering", "finally"}

\* Nobody but stop() closes a socket under the connection thread.
ClosedByStop ==
    /\ halt # "no" => stop
    /\ loop \in OnSocket => link # "none" /\ (link = "closed" => stop)

\* A connection that is still up has not been announced as down.
UpIsUntold == connected => told = 0

IInv == TypeOK /\ ClosedByStop /\ UpIsUntold /\ NotifiedOnce /\ ConnectedIsUp

-----------------------------------------------------------------------------

\* The capped delay is between the two bounds.
LEMMA CappedDelay ==
    ASSUME NEW d \in initial_delay..max_delay
    PROVE  Min2(d * multiplier, max_delay) \in initial_delay..max_delay
<1>1. initial_delay \in Nat /\ max_delay \in Nat /\ multiplier \in Nat /\ multiplier >= 1
      /\ initial_delay <= max_delay
  BY WsClientAssumption
<1>2. d \in Nat /\ initial_delay <= d
  BY <1>1
<1>3. d * multiplier \in Nat /\ d * multiplier >= d
  BY <1>1, <1>2
<1> QED
  BY <1>1, <1>2, <1>3 DEF Min2

\* _set_disconnected announces a connection that was up, once, and it is down.
LEMMA SetDisconnectedTells ==
    ASSUME TypeOK, UpIsUntold, NotifiedOnce, SetDisconnected
    PROVE  /\ connected' = FALSE
           /\ told' \in Nat /\ told' <= 1
  BY DEF TypeOK, UpIsUntold, NotifiedOnce, SetDisconnected, Told

LEMMA InitIInv == Init => IInv
<1> SUFFICES ASSUME Init
             PROVE  IInv
  OBVIOUS
<1>1. initial_delay \in initial_delay..max_delay
  BY WsClientAssumption
<1>2. TypeOK
  BY <1>1 DEF Init, TypeOK, Running, Links
<1>3. ClosedByStop /\ UpIsUntold /\ NotifiedOnce /\ ConnectedIsUp
  BY DEF Init, ClosedByStop, UpIsUntold, NotifiedOnce, ConnectedIsUp, OnSocket
<1> QED
  BY <1>2, <1>3 DEF IInv

\* What the senders do to the connection is to mark it as lost.
LEMMA SendsIInv ==
    ASSUME IInv, NEW t \in Senders, Sends(t) \/ Report(t)
    PROVE  IInv'
<1>1. /\ UNCHANGED <<stop, delay, loop, raised, halt, link, told>>
      /\ connected' \in BOOLEAN /\ (connected' => connected)
  <2>1. CASE SendWrites(t) \/ SendRaises(t) \/ Report(t)
    BY <2>1 DEF IInv, TypeOK, SendWrites, SendRaises, Report
  <2>2. CASE SendFails(t)
    BY <2>2 DEF SendFails
  <2> QED
    BY <2>1, <2>2 DEF Sends
<1>2. send' \in [Senders -> {"no", "checked", "failed"}]
  BY DEF IInv, TypeOK, Sends, SendWrites, SendRaises, SendFails, Report, SendChecks
<1> QED
  BY <1>1, <1>2
     DEF IInv, TypeOK, ClosedByStop, UpIsUntold, NotifiedOnce, ConnectedIsUp

LEMMA LoopIInv ==
    ASSUME IInv, LoopStep
    PROVE  IInv'
<1> USE DEF IInv, TypeOK, ClosedByStop, UpIsUntold, NotifiedOnce, ConnectedIsUp, OnSocket,
            Running, Links
<1>1. CASE Top
  <2>1. CASE stop
    BY <1>1, <2>1, SetDisconnectedTells DEF Top
  <2>2. CASE ~stop
    BY <1>1, <2>2 DEF Top
  <2> QED
    BY <2>1, <2>2
<1>2. CASE Connects
  BY <1>2 DEF Connects
<1>3. CASE ConnectFails
  BY <1>3 DEF ConnectFails
<1>4. CASE Registers
  BY <1>4 DEF Registers, SendChecks
<1>5. CASE Registered
  BY <1>5, WsClientAssumption DEF Registered
<1>6. CASE Check
  BY <1>6 DEF Check
<1>7. CASE Receives
  BY <1>7 DEF Receives
<1>8. CASE Handles
  BY <1>8 DEF Handles, SendChecks
<1>9. CASE Answered
  BY <1>9 DEF Answered
<1>10. CASE ReceivesEnd
  BY <1>10 DEF ReceivesEnd
<1>11. CASE Finally
  BY <1>11, SetDisconnectedTells DEF Finally
<1>12. CASE Close
  BY <1>12 DEF Close
<1>13. CASE Leaves
  BY <1>13, SetDisconnectedTells, CappedDelay DEF Leaves
<1>14. CASE WakesUp
  BY <1>14 DEF WakesUp
<1> QED
  BY <1>1, <1>2, <1>3, <1>4, <1>5, <1>6, <1>7, <1>8, <1>9, <1>10, <1>11, <1>12, <1>13, <1>14
     DEF LoopStep

LEMMA OutsideIInv ==
    ASSUME IInv, Stop \/ Lost
    PROVE  IInv'
<1> USE DEF IInv, TypeOK, ClosedByStop, UpIsUntold, NotifiedOnce, ConnectedIsUp, OnSocket,
            Running, Links
<1>1. CASE Stop
  <2>1. CASE halt = "no" /\ halt' = "flagged" /\ stop' = TRUE /\ UNCHANGED <<connected, link>>
    BY <1>1, <2>1 DEF Stop
  <2>2. CASE /\ halt = "flagged" /\ halt' = "closed"
             /\ link' = (IF link = "none" THEN link ELSE "closed")
             /\ UNCHANGED <<stop, connected>>
    BY <1>1, <2>2 DEF Stop
  <2>3. CASE halt = "closed" /\ halt' = "done" /\ connected' = FALSE /\ UNCHANGED <<stop, link>>
    BY <1>1, <2>3 DEF Stop
  <2> QED
    BY <1>1, <2>1, <2>2, <2>3 DEF Stop
<1>2. CASE Lost
  BY <1>2 DEF Lost
<1> QED
  BY <1>1, <1>2

\* The invariant of every reachable state.
LEMMA Inductive == Spec => []IInv
<1>1. IInv /\ [Next]_vars => IInv'
  <2> SUFFICES ASSUME IInv, [Next]_vars
               PROVE  IInv'
    OBVIOUS
  <2>1. CASE \E t \in Senders : Sends(t) \/ Report(t)
    BY <2>1, SendsIInv
  <2>2. CASE LoopStep
    BY <2>2, LoopIInv
  <2>3. CASE Stop \/ Lost
    BY <2>3, OutsideIInv
  <2>4. CASE UNCHANGED vars
    BY <2>4 DEF vars, IInv, TypeOK, ClosedByStop, UpIsUntold, NotifiedOnce, ConnectedIsUp
  <2> QED
    BY <2>1, <2>2, <2>3, <2>4 DEF Next
<1> QED
  BY <1>1, InitIInv, PTL DEF Spec

-----------------------------------------------------------------------------

\* Every reachable state of the client has the declared types; in particular the
\* backoff never leaves initial_delay..max_delay.
THEOREM TypeCorrect == Spec => []TypeOK
<1>1. IInv => TypeOK
  BY DEF IInv
<1> QED
  BY <1>1, Inductive, PTL

\* on_disconnected is called at most once for a connection.
THEOREM NotifiedCorrect == Spec => []NotifiedOnce
<1>1. IInv => NotifiedOnce
  BY DEF IInv
<1> QED
  BY <1>1, Inductive, PTL

\* _connected is only set while the loop is on a socket that it has not closed.
THEOREM ConnectedCorrect == Spec => []ConnectedIsUp
<1>1. IInv => ConnectedIsUp
  BY DEF IInv
<1> QED
  BY <1>1, Inductive, PTL

=============================================================================
