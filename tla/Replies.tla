------------------------------- MODULE Replies -------------------------------
(***************************************************************************)
(* The questions an administrator asks a device and waits for:             *)
(* agent-import and agent-test (server/main.py), the table of Futures that *)
(* joins an answer to its question (server/ws_server.py), and the device,  *)
(* which answers one after the other (sidecar/sidecar.py).                 *)
(*                                                                         *)
(* The server's coroutines switch only where they await, so a step is what *)
(* lies between two awaits.  A question is its request id; request ids are *)
(* taken to differ.                                                        *)
(***************************************************************************)
EXTENDS Naturals, Sequences

CONSTANTS
    Questions,  \* request ids
    Devices,
    None

ASSUME RepliesAssumption == None \notin Devices

Kinds == {"agent_list", "agent_test"}
Answers == {"success", "failure"}

VARIABLES
    ask,        \* the administrator's request: what it waits for and how it ended
    table,      \* _PENDING_REPLIES
    future,     \* the Future of each question
    wire,       \* what is on its way to a device
    back,       \* the answers on their way to the server
    live,       \* is the device's connection up
    produced    \* auxiliary: what devices have answered

vars == <<ask, table, future, wire, back, live, produced>>

Asks == [at : {"none", "sending", "written", "cut", "waiting", "over"}, kind : Kinds,
         device : Devices \cup {None},
         result : Answers \cup {"none", "refused", "timeout", "exception"}]
NotAsked == [at |-> "none", kind |-> "agent_list", device |-> None, result |-> "none"]
Replied == [question : Questions, answer : Answers]

TypeOK ==
    /\ ask \in [Questions -> Asks]
    /\ \A q \in Questions : ask[q].at # "none" => ask[q].device \in Devices
    /\ table \subseteq Questions
    /\ future \in [Questions -> Answers \cup {"none", "pending", "cancelled"}]
    /\ \A q \in Questions : ask[q].at = "waiting" => future[q] \in Answers \cup {"pending"}
    /\ wire \in [Devices -> Seq(Questions)]
    /\ back \in [Devices -> Seq(Replied)]
    /\ live \in [Devices -> BOOLEAN]
    /\ produced \subseteq Questions \X Devices \X Answers

Init ==
    /\ ask = [q \in Questions |-> NotAsked]
    /\ table = {} /\ future = [q \in Questions |-> "none"]
    /\ wire = [d \in Devices |-> <<>>] /\ back = [d \in Devices |-> <<>>]
    /\ live = [d \in Devices |-> FALSE]
    /\ produced = {}

Goes(q, at) == ask' = [ask EXCEPT ![q].at = at]
Ends(q, result) == ask' = [ask EXCEPT ![q].at = "over", ![q].result = result]

-----------------------------------------------------------------------------
(* The endpoints agent-import and agent-test *)

\* A connection that is gone may still be in the table of connections, and one that is
\* up may not be in it.
Asked(k, d, at) == [at |-> at, kind |-> k, device |-> d, result |-> "none"]

Ask(q, k, d) ==
    /\ ask[q].at = "none"
    /\ \/ live[d] /\ ask' = [ask EXCEPT ![q] = Asked(k, d, "sending")]
       \/ ~live[d] /\ ask' = [ask EXCEPT ![q] = Asked(k, d, "cut")]
       \/ ask' = [ask EXCEPT ![q] = [Asked(k, d, "over") EXCEPT !.result = "refused"]]
    /\ UNCHANGED <<table, future, wire, back, live, produced>>

\* send_json writes the message to the connection, and is suspended for some time.
Written(q) ==
    /\ ask[q].at = "sending"
    /\ Goes(q, "written")
    /\ wire' = [wire EXCEPT ![ask[q].device] = Append(@, q)]
    /\ UNCHANGED <<table, future, back, live, produced>>

\* It returns, sometimes also where the connection is gone; only then wait_for_reply
\* makes the Future, and it is waited for.
SendReturns(q) ==
    /\ ask[q].at \in {"written", "cut"}
    /\ Goes(q, "waiting")
    /\ table' = table \cup {q}
    /\ future' = [future EXCEPT ![q] = "pending"]
    /\ UNCHANGED <<wire, back, live, produced>>

SendRaises(q) ==
    /\ ask[q].at = "cut"
    /\ Ends(q, "exception")
    /\ UNCHANGED <<table, future, wire, back, live, produced>>

\* The answer wakes the endpoint up.
Wakes(q) ==
    /\ ask[q].at = "waiting" /\ future[q] \in Answers
    /\ Ends(q, future[q])
    /\ UNCHANGED <<table, future, wire, back, live, produced>>

\* The timeout of 20 or 30 seconds, which since Python 3.12 wins over an answer of the
\* same moment.  agent-import takes the question out of the table; agent-test means to
\* but fails, as it has not imported resolve_reply.
ExpiresWhenLive(q) ==
    /\ ask[q].at = "waiting" /\ live[ask[q].device]
    /\ Ends(q, "timeout")
    /\ future' = [future EXCEPT ![q] = IF @ = "pending" THEN "cancelled" ELSE @]
    /\ table' = table \ {q}
    /\ UNCHANGED <<wire, back, live, produced>>
ExpiresOnly(q) ==
    /\ ask[q].at = "waiting"
    /\ Ends(q, "timeout")
    /\ future' = [future EXCEPT ![q] = IF @ = "pending" THEN "cancelled" ELSE @]
    /\ UNCHANGED <<table, wire, back, live, produced>>
ExpiresAgain(q) ==
    /\ ask[q].at = "waiting"
    /\ future' = [future EXCEPT ![q] = IF @ = "pending" THEN "cancelled" ELSE @]
    /\ UNCHANGED <<ask, table, wire, back, live, produced>>
Expires(q) ==
    /\ ask[q].at = "waiting"
    /\ future' = [future EXCEPT ![q] = IF @ = "pending" THEN "cancelled" ELSE @]
    /\ \/ /\ ask[q].kind = "agent_list"
          /\ Ends(q, "timeout")
          /\ table' = table \ {q}
       \/ /\ ask[q].kind = "agent_test"
          /\ Ends(q, "exception")
          /\ UNCHANGED table
    /\ UNCHANGED <<wire, back, live, produced>>

-----------------------------------------------------------------------------
(* The device and the connection *)

\* _handle_agent_list or _handle_agent_test, and the answer is sent.
Answer(d) ==
    /\ wire[d] # <<>>
    /\ \E a \in Answers :
          /\ back' = [back EXCEPT ![d] = Append(@, [question |-> Head(wire[d]), answer |-> a])]
          /\ produced' = produced \cup {<<Head(wire[d]), d, a>>}
    /\ wire' = [wire EXCEPT ![d] = Tail(@)]
    /\ UNCHANGED <<ask, table, future, live>>

\* resolve_reply: whose Future the message of d is for.
ResolvedOfDevice(d, m) == {q \in table : ask[q].device = d}
Resolved(d, m) == table \cap {m.question}

Resolve(d) ==
    /\ back[d] # <<>>
    /\ LET hit == Resolved(d, Head(back[d]))
       IN  /\ table' = table \ hit
           /\ future' = [q \in Questions |->
                            IF q \in hit /\ future[q] = "pending" THEN Head(back[d]).answer
                            ELSE future[q]]
    /\ back' = [back EXCEPT ![d] = Tail(@)]
    /\ UNCHANGED <<ask, wire, live, produced>>

Connect(d) ==
    /\ ~live[d]
    /\ live' = [live EXCEPT ![d] = TRUE]
    /\ UNCHANGED <<ask, table, future, wire, back, produced>>

\* What the device has not read is lost, and of its answers what the server has not
\* received; what is being sent goes to the connection of before.
Break(d) ==
    /\ live[d]
    /\ ask' = [q \in Questions |->
                  IF ask[q].at \in {"sending", "written"} /\ ask[q].device = d
                  THEN [ask[q] EXCEPT !.at = "cut"] ELSE ask[q]]
    /\ live' = [live EXCEPT ![d] = FALSE]
    /\ wire' = [wire EXCEPT ![d] = <<>>]
    /\ \E n \in 0..Len(back[d]) : back' = [back EXCEPT ![d] = SubSeq(@, 1, n)]
    /\ UNCHANGED <<table, future, produced>>

-----------------------------------------------------------------------------

EndpointStep(q) == Written(q) \/ SendReturns(q) \/ SendRaises(q) \/ Wakes(q) \/ Expires(q)

Next ==
    \/ \E q \in Questions :
          \/ \E k \in Kinds, d \in Devices : Ask(q, k, d)
          \/ EndpointStep(q)
    \/ \E d \in Devices : Answer(d) \/ Resolve(d) \/ Connect(d) \/ Break(d)

Spec == Init /\ [][Next]_vars

\* A send is not suspended for ever, and the clock of wait_for runs.
Fairness == \A q \in Questions : WF_vars(EndpointStep(q))
FairSpec == Spec /\ Fairness

-----------------------------------------------------------------------------

\* main.py:534, what the administrator gets as an answer is the answer of the device
\* that was asked to the question that was asked, whatever others are under way, late
\* or lost.
OwnAnswer ==
    \A q \in Questions : ask[q].result \in Answers =>
        <<q, ask[q].device, ask[q].result>> \in produced

\* More than that (Inquiry): the device that was asked answers at most once, none
\* answers a question that was refused, and how a question ended stays.
I == INSTANCE Inquiry WITH
         Failures <- {"timeout", "exception"}, Refused <- "refused", Open <- "none",
         asked <- [q \in Questions |-> ask[q].device], given <- produced,
         outcome <- [q \in Questions |-> ask[q].result]
InquirySpec == I!Spec

\* main.py:528, the table of Futures does not keep what nobody waits for, but for
\* questions of agent-test that ran into the timeout; and who waits can be woken up.
TableFits ==
    \A q \in Questions :
        /\ q \in table =>
              \/ ask[q].at = "waiting" /\ future[q] = "pending"
              \/ ask[q].kind = "agent_test" /\ ask[q].result = "exception"
        /\ ask[q].at = "waiting" /\ future[q] = "pending" => q \in table

\* Each question ends, with an answer, a timeout or an error.
EveryQuestionEnds ==
    \A q \in Questions : ask[q].at \notin {"none", "over"} ~> ask[q].at = "over"

==============================================================================
