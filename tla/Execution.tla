------------------------------ MODULE Execution ------------------------------
(***************************************************************************)
(* What a device promises of the requests it executes, without messages,   *)
(* handlers, faults and the tables it writes: a request is executed once   *)
(* in a life of the process, has no effect after it was answered or        *)
(* recorded, and one that was recorded is over for every later life.       *)
(* SidecarExec implements this module.                                     *)
(***************************************************************************)
EXTENDS Naturals

CONSTANTS
    Requests,
    Cost         \* the effects that a request may have at most

VARIABLES
    known,       \* requests this life of the process will not start
    over,        \* recorded: no later life starts them either
    running,     \* the request that is executed, if any
    left,        \* the effects it may still have
    done,        \* how many effects each request has had
    told         \* the answers

vars == <<known, over, running, left, done, told>>

Init ==
    /\ known = {} /\ over = {} /\ running = {} /\ left = 0
    /\ done = [r \in Requests |-> 0] /\ told = {}

Start(r) ==
    /\ running = {} /\ r \notin known
    /\ running' = {r} /\ known' = known \cup {r}
    /\ left' \in 0..Cost[r]
    /\ UNCHANGED <<over, done, told>>

\* One effect takes place, or fails.
Work(r) ==
    /\ running = {r} /\ left > 0
    /\ left' = left - 1
    /\ done' \in {done, [done EXCEPT ![r] = @ + 1]}
    /\ UNCHANGED <<known, over, running, told>>

\* Only when no effect is left, and whether or not they took place.
Record(r) ==
    /\ running = {r} /\ left = 0
    /\ over' = over \cup {r}
    /\ UNCHANGED <<known, running, left, done, told>>

Finish(r, ok) ==
    /\ running = {r} /\ left = 0
    /\ running' = {}
    /\ told' \in {told, told \cup {[req |-> r, ok |-> ok, fresh |-> TRUE]}}
    /\ UNCHANGED <<known, over, left, done>>

\* A request that comes again is a success of which only the answer is made.
Repeat(r) ==
    /\ running = {} /\ r \in known
    /\ told' = told \cup {[req |-> r, ok |-> TRUE, fresh |-> FALSE]}
    /\ UNCHANGED <<known, over, running, left, done>>

Die ==
    /\ known' = over /\ running' = {} /\ left' = 0
    /\ UNCHANGED <<over, done, told>>

Next ==
    \/ \E r \in Requests :
          \/ Start(r) \/ Work(r) \/ Record(r) \/ Repeat(r)
          \/ \E ok \in BOOLEAN : Finish(r, ok)
    \/ Die

Spec == Init /\ [][Next]_vars
===============================================================================
