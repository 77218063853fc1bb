------------------------------- MODULE Inquiry -------------------------------
(***************************************************************************)
(* What an administrator who asks devices may rely on, without sends,      *)
(* connections, Futures or timers: a question goes to one device, which    *)
(* answers it at most once, and not when it was refused; it ends once,     *)
(* with the answer that this device has given or with none, and how it     *)
(* ended is not changed by what comes later.  Replies implements this      *)
(* module.                                                                 *)
(***************************************************************************)
CONSTANTS
    Questions, Devices, None,
    Answers,     \* what a device may say
    Failures,    \* how a question may end without an answer, once it was sent
    Refused,     \* how it ends when it is not sent at all
    Open         \* no result yet

VARIABLES
    asked,       \* the device that was asked, None before
    given,       \* the answers of the devices
    outcome      \* how each question ended

vars == <<asked, given, outcome>>

Init ==
    /\ asked = [q \in Questions |-> None]
    /\ given = {}
    /\ outcome = [q \in Questions |-> Open]

\* A question that is refused is over at once, and no device will have seen it.
Ask(q, d) ==
    /\ asked[q] = None
    /\ asked' = [asked EXCEPT ![q] = d]
    /\ outcome' \in {outcome, [outcome EXCEPT ![q] = Refused]}
    /\ UNCHANGED given

Unanswered(q) == \A d \in Devices, a \in Answers : <<q, d, a>> \notin given

\* The administrator need not be waiting any more.
Give(q, a) ==
    /\ asked[q] # None /\ outcome[q] # Refused /\ Unanswered(q)
    /\ given' = given \cup {<<q, asked[q], a>>}
    /\ UNCHANGED <<asked, outcome>>

End(q, result) ==
    /\ asked[q] # None /\ outcome[q] = Open
    /\ result \in Answers => <<q, asked[q], result>> \in given
    /\ outcome' = [outcome EXCEPT ![q] = result]
    /\ UNCHANGED <<asked, given>>

Next == \E q \in Questions :
    \/ \E d \in Devices : Ask(q, d)
    \/ \E a \in Answers : Give(q, a)
    \/ \E result \in Answers \cup Failures : End(q, result)

Spec == Init /\ [][Next]_vars
==============================================================================
