------------------------------- MODULE Delivery -------------------------------
(***************************************************************************)
(* What dispatching promises, without connections, handlers or coroutines: *)
(* a message is held for its device from the call of dispatch_* until a    *)
(* send of it has returned, and its row of dispatch_log lives longer than  *)
(* the process.  DeviceSession implements this module.                     *)
(***************************************************************************)
CONSTANTS
    Devices,
    Requests,
    Outcomes,    \* what a device may answer
    NoRow        \* the place of a row of dispatch_log before it is made

VARIABLES
    held,        \* messages the process has, each with its device
    due,         \* those of them that no send has finished since they were dispatched
    row          \* dispatch_log

vars == <<due, row, held>>

Init ==
    /\ held = {} /\ due = {}
    /\ row = [r \in Requests |-> NoRow]

\* dispatch_*: a request id that comes again keeps its row.
Accept(d, r) ==
    /\ due' = due \cup {<<d, r>>}
    /\ row' = IF row[r] = NoRow
              THEN [row EXCEPT ![r] = [status |-> "pending", dev |-> d]]
              ELSE row
    /\ held' = held \cup {<<d, r>>}

\* A send has returned: the transport has the message, the process may keep a
\* second copy that was dispatched or queued meanwhile.
HandOver(d, r) ==
    /\ due' = due \ {<<d, r>>}
    /\ UNCHANGED row
    /\ <<d, r>> \in held
    /\ held' \in {held, held \ {<<d, r>>}}

\* The device's answer; one that no row waits for changes nothing.
Confirm(r, s) ==
    /\ row[r] # NoRow
    /\ row' = [row EXCEPT ![r].status = s]
    /\ UNCHANGED <<due, held>>

\* The process ends: only the rows are left.
Forget ==
    /\ due' = {} /\ held' = {}
    /\ UNCHANGED row

Next ==
    \/ \E d \in Devices, r \in Requests : Accept(d, r) \/ HandOver(d, r)
    \/ \E r \in Requests, s \in Outcomes : Confirm(r, s)
    \/ Forget

Spec == Init /\ [][Next]_vars
===============================================================================
