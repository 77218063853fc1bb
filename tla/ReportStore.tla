----------------------------- MODULE ReportStore -----------------------------
(***************************************************************************)
(* What the collection promises, without rows, transactions, connections   *)
(* and threads: reports are stored one after the other, each at once and   *)
(* as a whole, are acknowledged when they are stored, stay stored whoever  *)
(* dies, and none is stored that was never so.  Collection implements this *)
(* module.                                                                 *)
(***************************************************************************)
CONSTANT Reports

VARIABLES
    real,        \* the reports that were so at some time
    current,     \* the report that the server is storing, if any
    answer,      \* the report that it is about to acknowledge, if any
    kept         \* the reports that are stored

vars == <<real, current, answer, kept>>

Init == real \subseteq Reports /\ current = {} /\ answer = {} /\ kept = {}

\* Something happens that a report can tell.
Happen ==
    /\ UNCHANGED <<current, answer, kept>>
    /\ real' \in SUBSET Reports /\ real \subseteq real'

Begin(m) ==
    /\ current = {} /\ answer = {}
    /\ current' = {m} /\ m \in real
    /\ UNCHANGED <<real, answer, kept>>

Keep(m) ==
    /\ current = {m}
    /\ kept' = kept \cup {m} /\ answer' = {m} /\ current' = {}
    /\ UNCHANGED real

\* The acknowledgement is sent, or the process ends: what is stored stays.
End ==
    /\ current' \in {current, {}} /\ answer' = {}
    /\ UNCHANGED <<real, kept>>

Next ==
    \/ Happen \/ End
    \/ \E m \in Reports : Begin(m) \/ Keep(m)

Spec == Init /\ [][Next]_vars
===============================================================================
