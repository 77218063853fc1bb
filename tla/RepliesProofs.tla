---------------------------- MODULE RepliesProofs ----------------------------
(***************************************************************************)
(* Theorems about Replies, for any questions and devices.                  *)
(***************************************************************************)
EXTENDS Replies, SequenceTheorems, TLAPS

\* What was asked of a device, and the answers that it has really given.
AskedOf(d) == {q \in Questions : ask[q].at # "none" /\ ask[q].device = d}
GivenBy(d) == {m \in Replied : <<m.question, d, m.answer>> \in produced}

\* What is on its way was asked and answered; a Future holds an answer to its question.
OnTheWay ==
    /\ \A d \in Devices : wire[d] \in Seq(AskedOf(d)) /\ back[d] \in Seq(GivenBy(d))
    /\ \A d \in Devices, q \in Questions, a \in Answers :
          <<q, d, a>> \in produced => q \in AskedOf(d)

Held ==
    \A q \in Questions :
        /\ ask[q].at = "none" => future[q] = "none"
        /\ future[q] \in Answers => <<q, ask[q].device, future[q]>> \in produced

\* Only who is over has a result.
Listed ==
    \A q \in Questions :
        /\ ask[q].result # "none" => ask[q].at = "over"
        /\ q \in table /\ ask[q].at = "over" => future[q] # "pending"

\* A question is written once, and then on its wire or answered, but never both.
Sent == {q \in Questions : ask[q].at \notin {"none", "sending"} /\ ask[q].result # "refused"}
Unanswered == {q \in Questions : \A d \in Devices, a \in Answers : <<q, d, a>> \notin produced}

Once ==
    /\ \A d \in Devices : \A i \in 1..Len(wire[d]) :
          /\ wire[d][i] \in Sent \cap Unanswered
          /\ \A j \in 1..Len(wire[d]) : wire[d][i] = wire[d][j] => i = j
    /\ Questions \ Unanswered \subseteq Sent

\* Nothing is known of a question before it is asked.
Untouched == \A q \in Questions : ask[q].at = "none" => ask[q] = NotAsked

IInv == TypeOK /\ OnTheWay /\ Held /\ Listed /\ OwnAnswer /\ TableFits

-----------------------------------------------------------------------------

LEMMA SeqGrows ==
    ASSUME NEW S, NEW T, S \subseteq T, NEW s \in Seq(S)
    PROVE  s \in Seq(T)
  OBVIOUS

\* What a step leaves or adds, as long as no question is given to another device.
LEMMA OnTheWayGrows ==
    ASSUME OnTheWay,
           \A d \in Devices : AskedOf(d) \subseteq AskedOf(d)',
           UNCHANGED <<wire, back, produced>>
    PROVE  OnTheWay'
<1>1. \A d \in Devices : GivenBy(d)' = GivenBy(d)
  BY DEF GivenBy
<1>2. \A d \in Devices : wire'[d] \in Seq(AskedOf(d)') /\ back'[d] \in Seq(GivenBy(d)')
  BY <1>1, SeqGrows DEF OnTheWay
<1> QED
  BY <1>2 DEF OnTheWay

LEMMA InitIInv == Init => IInv
<1> SUFFICES ASSUME Init PROVE IInv
  OBVIOUS
<1>1. \A q \in Questions : ask[q] = NotAsked /\ future[q] = "none"
  BY DEF Init
<1>2. NotAsked \in Asks
  BY DEF NotAsked, Asks, Kinds
<1>3. TypeOK
  <2>1. wire \in [Devices -> Seq(Questions)] /\ back \in [Devices -> Seq(Replied)]
    <3>1. <<>> \in Seq(Questions) /\ <<>> \in Seq(Replied)
      OBVIOUS
    <3> QED
      BY <3>1 DEF Init
  <2>2. ask \in [Questions -> Asks] /\ future \in [Questions -> Answers \cup {"none", "pending", "cancelled"}]
    BY <1>2 DEF Init
  <2> QED
    BY <1>1, <2>1, <2>2 DEF Init, TypeOK, NotAsked
<1>4. OnTheWay
  <2>1. \A d \in Devices : <<>> \in Seq(AskedOf(d)) /\ <<>> \in Seq(GivenBy(d))
    OBVIOUS
  <2> QED
    BY <2>1 DEF Init, OnTheWay
<1>5. Held /\ Listed /\ OwnAnswer /\ TableFits
  BY <1>1 DEF Init, Held, Listed, OwnAnswer, TableFits, NotAsked, Answers
<1> QED
  BY <1>3, <1>4, <1>5 DEF IInv

LEMMA AskIInv ==
    ASSUME IInv, NEW q \in Questions, NEW k \in Kinds, NEW d \in Devices, Ask(q, k, d)
    PROVE  IInv'
<1>1. PICK r \in Asks : /\ ask' = [ask EXCEPT ![q] = r]
                        /\ r.at \in {"sending", "cut", "over"} /\ r.device = d
                        /\ r.result \in {"none", "refused"}
                        /\ r.result # "none" => r.at = "over"
  <2>1. \A at \in {"sending", "cut"} : Asked(k, d, at) \in Asks
    BY DEF Asks, Asked
  <2>2. [Asked(k, d, "over") EXCEPT !.result = "refused"] \in Asks
    BY DEF Asks, Asked
  <2> QED
    BY <2>1, <2>2 DEF Ask, Asked
<1>2. /\ UNCHANGED <<table, future, wire, back, live, produced>>
      /\ ask[q].at = "none" /\ q \notin table /\ future[q] = "none" /\ ask \in [Questions -> Asks]
  BY DEF Ask, IInv, TypeOK, Held, TableFits, Listed
<1>3. \A e \in Devices : AskedOf(e) \subseteq AskedOf(e)'
  BY <1>1, <1>2 DEF AskedOf
<1>4. OnTheWay'
  BY <1>2, <1>3, OnTheWayGrows DEF IInv
<1>5. TypeOK'
  BY <1>1, <1>2 DEF IInv, TypeOK
<1>6. Held' /\ Listed' /\ OwnAnswer' /\ TableFits'
  BY <1>1, <1>2 DEF IInv, Held, Listed, OwnAnswer, TableFits, Answers
<1> QED
  BY <1>4, <1>5, <1>6 DEF IInv

\* An endpoint goes on: its request keeps kind and device.
LEMMA GoesOn ==
    ASSUME IInv, NEW q \in Questions, ask[q].at # "none",
           NEW at \in {"written", "waiting", "over"},
           NEW result \in Answers \cup {"none", "timeout", "exception"},
           ask' = [ask EXCEPT ![q] = [ask[q] EXCEPT !.at = at, !.result = result]]
    PROVE  /\ ask' \in [Questions -> Asks]
           /\ \A p \in Questions : p # q => ask'[p] = ask[p]
           /\ ask'[q].at = at /\ ask'[q].result = result
           /\ ask'[q].device = ask[q].device /\ ask'[q].kind = ask[q].kind
           /\ \A d \in Devices : AskedOf(d) \subseteq AskedOf(d)'
<1>1. ask \in [Questions -> Asks] /\ ask[q] \in Asks
  BY DEF IInv, TypeOK
<1>2. [ask[q] EXCEPT !.at = at, !.result = result] \in Asks
  BY <1>1 DEF Asks
<1>3. /\ ask' \in [Questions -> Asks]
      /\ \A p \in Questions : p # q => ask'[p] = ask[p]
      /\ ask'[q] = [ask[q] EXCEPT !.at = at, !.result = result]
  BY <1>1, <1>2
<1>4. /\ ask'[q].at = at /\ ask'[q].result = result
      /\ ask'[q].device = ask[q].device /\ ask'[q].kind = ask[q].kind
  BY <1>1, <1>3 DEF Asks
<1>5. \A d \in Devices : AskedOf(d) \subseteq AskedOf(d)'
  BY <1>3, <1>4 DEF AskedOf
<1> QED
  BY <1>3, <1>4, <1>5

LEMMA SentIInv ==
    ASSUME IInv, NEW q \in Questions, Written(q) \/ SendReturns(q)
    PROVE  IInv'
<1>1. CASE Written(q)
  <2>1. ask[q] \in Asks /\ ask[q].result = "none" /\ ask[q].at = "sending" /\ ask[q].device \in Devices
    BY <1>1 DEF Written, IInv, TypeOK, Listed
  <2>2. ask' = [ask EXCEPT ![q] = [ask[q] EXCEPT !.at = "written", !.result = "none"]]
    BY <1>1, <2>1 DEF Written, Goes, Asks
  <2> USE <2>2
  <2>3. /\ ask' \in [Questions -> Asks]
        /\ \A p \in Questions : p # q => ask'[p] = ask[p]
        /\ ask'[q].at = "written" /\ ask'[q].result = "none"
        /\ ask'[q].device = ask[q].device /\ ask'[q].kind = ask[q].kind
        /\ \A d \in Devices : AskedOf(d) \subseteq AskedOf(d)'
    BY <2>1, GoesOn
  <2>4. /\ wire' = [wire EXCEPT ![ask[q].device] = Append(@, q)]
        /\ UNCHANGED <<table, future, back, live, produced>>
    BY <1>1 DEF Written
  <2>5. TypeOK'
    <3>1. wire' \in [Devices -> Seq(Questions)]
      BY <2>1, <2>4 DEF IInv, TypeOK
    <3> QED
      BY <2>1, <2>3, <2>4, <3>1 DEF IInv, TypeOK
  <2>6. OnTheWay'
    <3>1. q \in AskedOf(ask[q].device)
      BY <2>1 DEF AskedOf
    <3>2. \A d \in Devices : wire'[d] \in Seq(AskedOf(d))
      BY <2>4, <3>1 DEF OnTheWay, IInv, TypeOK
    <3>3. \A d \in Devices : wire'[d] \in Seq(AskedOf(d)')
      BY <2>3, <3>2, SeqGrows
    <3>4. \A d \in Devices : GivenBy(d)' = GivenBy(d)
      BY <2>4 DEF GivenBy
    <3> QED
      BY <2>3, <2>4, <3>3, <3>4 DEF OnTheWay, IInv
  <2>7. Held' /\ Listed' /\ OwnAnswer' /\ TableFits'
    BY <2>1, <2>3, <2>4 DEF IInv, Held, Listed, OwnAnswer, TableFits, Answers
  <2> QED
    BY <2>5, <2>6, <2>7 DEF IInv
<1>2. CASE SendReturns(q)
  <2>1. ask[q] \in Asks /\ ask[q].result = "none" /\ ask[q].at \in {"written", "cut"}
    BY <1>2 DEF SendReturns, IInv, TypeOK, Listed
  <2>2. ask' = [ask EXCEPT ![q] = [ask[q] EXCEPT !.at = "waiting", !.result = "none"]]
    BY <1>2, <2>1 DEF SendReturns, Goes, Asks
  <2> USE <2>2
  <2>3. /\ ask' \in [Questions -> Asks]
        /\ \A p \in Questions : p # q => ask'[p] = ask[p]
        /\ ask'[q].at = "waiting" /\ ask'[q].result = "none"
        /\ ask'[q].device = ask[q].device /\ ask'[q].kind = ask[q].kind
        /\ \A d \in Devices : AskedOf(d) \subseteq AskedOf(d)'
    BY <2>1, GoesOn
  <2>4. /\ table' = table \cup {q} /\ future' = [future EXCEPT ![q] = "pending"]
        /\ UNCHANGED <<wire, back, live, produced>>
    BY <1>2 DEF SendReturns
  <2>5. /\ future'[q] = "pending" /\ future' \in [Questions -> Answers \cup {"none", "pending", "cancelled"}]
        /\ \A p \in Questions : p # q => future'[p] = future[p]
    BY <2>4 DEF IInv, TypeOK
  <2>6. TypeOK'
    BY <2>1, <2>3, <2>4, <2>5 DEF IInv, TypeOK
  <2>7. OnTheWay'
    BY <2>3, <2>4, OnTheWayGrows DEF IInv
  <2>8. Held' /\ Listed' /\ OwnAnswer' /\ TableFits'
    BY <2>1, <2>3, <2>4, <2>5 DEF IInv, Held, Listed, OwnAnswer, TableFits, Answers
  <2> QED
    BY <2>6, <2>7, <2>8 DEF IInv
<1> QED
  BY <1>1, <1>2

\* The answer, the error of the connection and the timeout end the question.
LEMMA EndedIInv ==
    ASSUME IInv, NEW q \in Questions, SendRaises(q) \/ Wakes(q) \/ Expires(q)
    PROVE  IInv'
<1>1. ask[q] \in Asks /\ ask[q].at \in {"cut", "waiting"} /\ future[q] \in Answers \cup {"none", "pending", "cancelled"}
  BY DEF SendRaises, Wakes, Expires, IInv, TypeOK
<1>2. PICK result \in Answers \cup {"timeout", "exception"} :
          /\ ask' = [ask EXCEPT ![q] = [ask[q] EXCEPT !.at = "over", !.result = result]]
          /\ result \in Answers => future[q] = result
  <2>1. \A res : Ends(q, res) => ask' = [ask EXCEPT ![q] = [ask[q] EXCEPT !.at = "over", !.result = res]]
    BY <1>1 DEF Ends, IInv, TypeOK
  <2>2. CASE SendRaises(q)
    <3>1. ask' = [ask EXCEPT ![q] = [ask[q] EXCEPT !.at = "over", !.result = "exception"]]
      BY <2>1, <2>2 DEF SendRaises
    <3>2. "exception" \in {"timeout", "exception"} /\ "exception" \notin Answers
      BY DEF Answers
    <3> QED
      BY <3>1, <3>2
  <2>3. CASE Wakes(q)
    BY <2>1, <2>3 DEF Wakes
  <2>4. CASE Expires(q)
    <3>1. PICK res \in {"timeout", "exception"} : Ends(q, res)
      BY <2>4 DEF Expires
    <3>2. ask' = [ask EXCEPT ![q] = [ask[q] EXCEPT !.at = "over", !.result = res]]
      BY <2>1, <3>1
    <3>3. res \notin Answers
      BY DEF Answers
    <3> QED
      BY <3>2, <3>3
  <2> QED
    BY <2>2, <2>3, <2>4
<1>3. /\ ask' \in [Questions -> Asks]
      /\ \A p \in Questions : p # q => ask'[p] = ask[p]
      /\ ask'[q].at = "over" /\ ask'[q].result = result
      /\ ask'[q].device = ask[q].device /\ ask'[q].kind = ask[q].kind
      /\ \A d \in Devices : AskedOf(d) \subseteq AskedOf(d)'
  BY <1>1, <1>2, GoesOn
<1>4. UNCHANGED <<wire, back, live, produced>>
  BY DEF SendRaises, Wakes, Expires
<1>5. /\ \A p \in Questions : p # q => future'[p] = future[p] /\ (p \in table' <=> p \in table)
      /\ future'[q] # "pending" \/ q \notin table
      /\ future'[q] \in Answers => future[q] = future'[q]
      /\ future' \in [Questions -> Answers \cup {"none", "pending", "cancelled"}]
      /\ table' \subseteq table
      /\ q \in table' => ask[q].kind = "agent_test" /\ result = "exception"
  <2>1. CASE SendRaises(q)
    BY <2>1 DEF SendRaises, IInv, TypeOK, TableFits, Listed
  <2>2. CASE Wakes(q)
    BY <2>2 DEF Wakes, IInv, TypeOK, TableFits, Listed, Answers
  <2>3. CASE Expires(q)
    <3>1. /\ future' = [future EXCEPT ![q] = IF @ = "pending" THEN "cancelled" ELSE @]
          /\ table' = table \/ table' = table \ {q}
      BY <2>3 DEF Expires
    <3>2. (ask[q].kind = "agent_test" /\ result = "exception") \/ table' = table \ {q}
      <4>1. CASE table' = table \ {q}
        BY <4>1
      <4>2. CASE ask[q].kind = "agent_test" /\ Ends(q, "exception")
        <5>1. ask' = [ask EXCEPT ![q] = [ask[q] EXCEPT !.at = "over", !.result = "exception"]]
          BY <1>1, <4>2 DEF Ends, IInv, TypeOK
        <5>2. ask'[q].result = "exception"
          BY <1>1, <5>1 DEF IInv, TypeOK, Asks
        <5> QED
          BY <1>3, <4>2, <5>2
      <4> QED
        BY <2>3, <4>1, <4>2 DEF Expires
    <3> QED
      BY <3>1, <3>2 DEF IInv, TypeOK, Answers
  <2> QED
    BY <2>1, <2>2, <2>3
<1>6. TypeOK'
  BY <1>1, <1>3, <1>4, <1>5 DEF IInv, TypeOK
<1>7. OnTheWay'
  BY <1>3, <1>4, OnTheWayGrows DEF IInv
<1>8. Held' /\ OwnAnswer'
  BY <1>1, <1>2, <1>3, <1>4, <1>5 DEF IInv, Held, OwnAnswer, Answers
<1>9. Listed'
  BY <1>1, <1>3, <1>5 DEF IInv, Listed
<1>10. TableFits'
  BY <1>1, <1>3, <1>5 DEF IInv, TableFits
<1> QED
  BY <1>6, <1>7, <1>8, <1>9, <1>10 DEF IInv

-----------------------------------------------------------------------------

\* The device answers what it was asked.
LEMMA AnswerIInv ==
    ASSUME IInv, NEW d \in Devices, Answer(d)
    PROVE  IInv'
<1>1. PICK a \in Answers :
          /\ back' = [back EXCEPT ![d] = Append(@, [question |-> Head(wire[d]), answer |-> a])]
          /\ produced' = produced \cup {<<Head(wire[d]), d, a>>}
  BY DEF Answer
<1>2. wire[d] # <<>> /\ wire' = [wire EXCEPT ![d] = Tail(@)] /\ UNCHANGED <<ask, table, future, live>>
  BY DEF Answer
<1> DEFINE q == Head(wire[d])
<1>3. wire[d] \in Seq(AskedOf(d)) /\ wire \in [Devices -> Seq(Questions)] /\ back \in [Devices -> Seq(Replied)]
  BY DEF IInv, OnTheWay, TypeOK
<1>4. q \in AskedOf(d) /\ Tail(wire[d]) \in Seq(AskedOf(d))
  BY <1>2, <1>3
<1>5. q \in Questions
  BY <1>4 DEF AskedOf
<1> HIDE DEF q
<1>6. [question |-> q, answer |-> a] \in Replied
  BY <1>5 DEF Replied
<1>7. \A e \in Devices : AskedOf(e)' = AskedOf(e)
  BY <1>2 DEF AskedOf
<1>8. \A e \in Devices : GivenBy(e) \subseteq GivenBy(e)'
  BY <1>1 DEF GivenBy
<1>9. [question |-> q, answer |-> a] \in GivenBy(d)'
  BY <1>1, <1>6 DEF GivenBy, q
<1>10. \A e \in Devices : back'[e] \in Seq(GivenBy(e)')
  <2>1. \A e \in Devices : back[e] \in Seq(GivenBy(e)')
    BY <1>8, SeqGrows DEF IInv, OnTheWay
  <2>2. back'[d] = Append(back[d], [question |-> q, answer |-> a])
    BY <1>1, <1>3 DEF q
  <2>3. back'[d] \in Seq(GivenBy(d)')
    BY <1>9, <2>1, <2>2
  <2> QED
    BY <1>1, <1>3, <2>1, <2>3
<1>11. \A e \in Devices : wire'[e] \in Seq(AskedOf(e)')
  BY <1>2, <1>3, <1>4, <1>7 DEF IInv, OnTheWay
<1>12. OnTheWay'
  BY <1>1, <1>4, <1>7, <1>10, <1>11 DEF IInv, OnTheWay, q
<1>13. TypeOK'
  <2>1. wire' \in [Devices -> Seq(Questions)]
    BY <1>2, <1>3
  <2>2. back' \in [Devices -> Seq(Replied)]
    BY <1>1, <1>3, <1>6 DEF q
  <2>3. produced' \subseteq Questions \X Devices \X Answers
    BY <1>1, <1>5 DEF IInv, TypeOK, q
  <2> QED
    BY <1>2, <2>1, <2>2, <2>3 DEF IInv, TypeOK
<1>14. Held' /\ Listed' /\ OwnAnswer' /\ TableFits'
  BY <1>1, <1>2 DEF IInv, Held, Listed, OwnAnswer, TableFits
<1> QED
  BY <1>12, <1>13, <1>14 DEF IInv

\* The server takes the next answer; it is one that its device has given.
LEMMA ResolveIInv ==
    ASSUME IInv, NEW d \in Devices, Resolve(d)
    PROVE  IInv'
<1> DEFINE m == Head(back[d])
           hit == Resolved(d, m)
<1>1. /\ back[d] # <<>> /\ back' = [back EXCEPT ![d] = Tail(@)]
      /\ table' = table \ hit
      /\ future' = [q \in Questions |->
                       IF q \in hit /\ future[q] = "pending" THEN m.answer ELSE future[q]]
      /\ UNCHANGED <<ask, wire, live, produced>>
  BY DEF Resolve
<1>2. back[d] \in Seq(GivenBy(d)) /\ back \in [Devices -> Seq(Replied)]
  BY DEF IInv, OnTheWay, TypeOK
<1>3. m \in GivenBy(d) /\ Tail(back[d]) \in Seq(GivenBy(d))
  BY <1>1, <1>2
<1>4. \A e \in Devices : AskedOf(e)' = AskedOf(e) /\ GivenBy(e)' = GivenBy(e)
  BY <1>1 DEF AskedOf, GivenBy
<1>5. OnTheWay'
  BY <1>1, <1>2, <1>3, <1>4 DEF IInv, OnTheWay
<1>6. back' \in [Devices -> Seq(Replied)]
  BY <1>1, <1>2
<1>7. \A q \in hit : q = m.question /\ q \in table
  BY DEF Resolved
<1> HIDE DEF hit
<1>8. m.answer \in Answers /\ <<m.question, d, m.answer>> \in produced
  BY <1>3 DEF GivenBy, Replied
<1>9. m.question \in AskedOf(d)
  BY <1>8, <1>3 DEF IInv, OnTheWay, GivenBy, Replied
<1>10. \A q \in hit : <<q, ask[q].device, m.answer>> \in produced /\ ask[q].at # "none"
  BY <1>7, <1>8, <1>9 DEF AskedOf
<1> HIDE DEF m
<1>11. /\ \A q \in Questions : IF q \in hit /\ future[q] = "pending" THEN future'[q] = m.answer
                               ELSE future'[q] = future[q]
       /\ \A q \in Questions : q \in hit => future'[q] # "pending"
       /\ \A q \in Questions : q \notin hit => future'[q] = future[q] /\ (q \in table' <=> q \in table)
       /\ \A q \in hit : q \notin table'
  BY <1>1, <1>8 DEF Answers
<1>12. TypeOK'
  BY <1>1, <1>6, <1>8 DEF IInv, TypeOK
<1>13. Held' /\ OwnAnswer'
  BY <1>1, <1>10, <1>11 DEF IInv, Held, OwnAnswer
<1>14. Listed'
  BY <1>1, <1>11 DEF IInv, Listed
<1>15. TableFits'
  BY <1>1, <1>11 DEF IInv, TableFits
<1> QED
  BY <1>5, <1>12, <1>13, <1>14, <1>15 DEF IInv

LEMMA ConnectIInv ==
    ASSUME IInv, NEW d \in Devices, Connect(d)
    PROVE  IInv'
<1>1. UNCHANGED <<ask, table, future, wire, back, produced>> /\ live' \in [Devices -> BOOLEAN]
  BY DEF Connect, IInv, TypeOK
<1>2. OnTheWay'
  BY <1>1, OnTheWayGrows DEF IInv, AskedOf
<1> QED
  BY <1>1, <1>2 DEF IInv, TypeOK, Held, Listed, OwnAnswer, TableFits

\* A connection breaks: who was sending goes on without it.
LEMMA BreakIInv ==
    ASSUME IInv, NEW d \in Devices, Break(d)
    PROVE  IInv'
<1>1. /\ UNCHANGED <<table, future, produced>>
      /\ live' = [live EXCEPT ![d] = FALSE]
      /\ wire' = [wire EXCEPT ![d] = <<>>]
      /\ ask \in [Questions -> Asks]
  BY DEF Break, IInv, TypeOK
<1>2. \A q \in Questions : ask'[q] = ask[q] \/ /\ ask'[q] = [ask[q] EXCEPT !.at = "cut"]
                                               /\ ask[q].at \in {"sending", "written"}
  BY DEF Break
<1>3. \A q \in Questions : [ask[q] EXCEPT !.at = "cut"] \in Asks
  BY <1>1 DEF Asks
<1>4. /\ ask' \in [Questions -> Asks]
      /\ \A q \in Questions :
            /\ ask'[q].device = ask[q].device /\ ask'[q].kind = ask[q].kind
            /\ ask'[q].result = ask[q].result
            /\ \/ ask'[q].at = ask[q].at
               \/ ask'[q].at = "cut" /\ ask[q].at \in {"sending", "written"}
  <2>1. ask' \in [Questions -> Asks]
    BY <1>1, <1>2, <1>3 DEF Break
  <2>2. \A q \in Questions : ask[q] \in Asks
    BY <1>1
  <2> QED
    BY <1>2, <2>1, <2>2 DEF Asks
<1>5. \A e \in Devices : AskedOf(e) \subseteq AskedOf(e)' /\ GivenBy(e)' = GivenBy(e)
  BY <1>1, <1>4 DEF AskedOf, GivenBy
<1>6. PICK n \in 0..Len(back[d]) : back' = [back EXCEPT ![d] = SubSeq(@, 1, n)]
  BY DEF Break
<1>7. \A S : back[d] \in Seq(S) => SubSeq(back[d], 1, n) \in Seq(S)
  <2> SUFFICES ASSUME NEW S, back[d] \in Seq(S) PROVE SubSeq(back[d], 1, n) \in Seq(S)
    OBVIOUS
  <2>1. 1 \in 1 .. Len(back[d])+1 /\ n \in 1-1 .. Len(back[d])
    BY <1>6, LenProperties
  <2> QED
    BY <2>1, SubSeqProperties
<1>8. \A e \in Devices : wire'[e] \in Seq(AskedOf(e)) /\ back'[e] \in Seq(GivenBy(e))
  <2>1. \A e \in Devices : <<>> \in Seq(AskedOf(e))
    OBVIOUS
  <2>2. SubSeq(back[d], 1, n) \in Seq(GivenBy(d))
    BY <1>7 DEF IInv, OnTheWay
  <2> QED
    BY <1>1, <1>6, <2>1, <2>2 DEF IInv, OnTheWay, TypeOK
<1>9. OnTheWay'
  <2>1. \A e \in Devices : wire'[e] \in Seq(AskedOf(e)')
    BY <1>5, <1>8, SeqGrows
  <2> QED
    BY <1>1, <1>5, <1>8, <2>1 DEF IInv, OnTheWay
<1>10. TypeOK'
  <2>1. wire' \in [Devices -> Seq(Questions)] /\ back' \in [Devices -> Seq(Replied)]
    <3>1. <<>> \in Seq(Questions)
      OBVIOUS
    <3>2. SubSeq(back[d], 1, n) \in Seq(Replied)
      BY <1>7 DEF IInv, TypeOK
    <3> QED
      BY <1>1, <1>6, <3>1, <3>2 DEF IInv, TypeOK
  <2> QED
    BY <1>1, <1>4, <2>1 DEF IInv, TypeOK
<1>11. Held' /\ Listed' /\ OwnAnswer' /\ TableFits'
  BY <1>1, <1>4 DEF IInv, Held, Listed, OwnAnswer, TableFits
<1> QED
  BY <1>9, <1>10, <1>11 DEF IInv

-----------------------------------------------------------------------------

LEMMA NextIInv == IInv /\ [Next]_vars => IInv'
<1> SUFFICES ASSUME IInv, [Next]_vars PROVE IInv'
  OBVIOUS
<1>1. ASSUME NEW q \in Questions, NEW k \in Kinds, NEW d \in Devices, Ask(q, k, d) PROVE IInv'
  BY <1>1, AskIInv
<1>2. ASSUME NEW q \in Questions, EndpointStep(q) PROVE IInv'
  BY <1>2, SentIInv, EndedIInv DEF EndpointStep
<1>3. ASSUME NEW d \in Devices, Answer(d) PROVE IInv'
  BY <1>3, AnswerIInv
<1>4. ASSUME NEW d \in Devices, Resolve(d) PROVE IInv'
  BY <1>4, ResolveIInv
<1>5. ASSUME NEW d \in Devices, Connect(d) PROVE IInv'
  BY <1>5, ConnectIInv
<1>6. ASSUME NEW d \in Devices, Break(d) PROVE IInv'
  BY <1>6, BreakIInv
<1>7. CASE UNCHANGED vars
  <2>1. UNCHANGED <<ask, table, future, wire, back, live, produced>>
    BY <1>7 DEF vars
  <2>2. OnTheWay'
    BY <2>1, OnTheWayGrows DEF IInv, AskedOf
  <2> QED
    BY <2>1, <2>2 DEF IInv, TypeOK, Held, Listed, OwnAnswer, TableFits
<1> QED
  BY <1>1, <1>2, <1>3, <1>4, <1>5, <1>6, <1>7 DEF Next

-----------------------------------------------------------------------------

LEMMA InitOnce == Init => Once
<1> SUFFICES ASSUME Init PROVE Once
  OBVIOUS
<1>1. produced = {} /\ \A d \in Devices : wire[d] = <<>>
  BY DEF Init
<1>2. \A d \in Devices : Len(wire[d]) = 0
  BY <1>1, EmptySeq
<1> QED
  BY <1>1, <1>2 DEF Once, Unanswered

\* What was sent once has been sent for ever.
LEMMA OnceStays ==
    ASSUME Once, UNCHANGED produced,
           Sent \subseteq Sent',
           \A d \in Devices : wire'[d] = wire[d] \/ wire'[d] = <<>>,
           \A d \in Devices : wire[d] \in Seq(Questions)
    PROVE  Once'
<1>1. Unanswered' = Unanswered
  BY DEF Unanswered
<1>2. ASSUME NEW d \in Devices, NEW i \in 1..Len(wire'[d])
      PROVE  /\ wire'[d][i] \in Sent' \cap Unanswered'
             /\ \A j \in 1..Len(wire'[d]) : wire'[d][i] = wire'[d][j] => i = j
  <2>1. wire'[d] = wire[d]
    <3>1. wire'[d] # <<>>
      BY <1>2, EmptySeq
    <3> QED
      BY <3>1
  <2>2. i \in 1..Len(wire[d])
    BY <2>1
  <2>3. wire[d][i] \in Questions
    BY <2>2
  <2> QED
    BY <1>1, <2>1, <2>2, <2>3 DEF Once
<1> QED
  BY <1>1, <1>2 DEF Once

LEMMA WrittenOnce ==
    ASSUME IInv, Once, NEW q \in Questions, Written(q)
    PROVE  Once'
<1> DEFINE d == ask[q].device
<1>1. /\ ask[q].at = "sending" /\ d \in Devices /\ ask[q].result = "none"
      /\ ask' = [ask EXCEPT ![q].at = "written"]
      /\ wire' = [wire EXCEPT ![d] = Append(@, q)]
      /\ UNCHANGED produced
      /\ ask \in [Questions -> Asks] /\ wire \in [Devices -> Seq(Questions)]
  BY DEF Written, Goes, IInv, TypeOK, Listed
<1> HIDE DEF d
<1>2. ask[q] \in Asks
  BY <1>1
<1>3. /\ \A p \in Questions : p # q => ask'[p] = ask[p]
      /\ ask'[q].at = "written" /\ ask'[q].result = "none"
  BY <1>1, <1>2 DEF Asks
<1>4. Sent \subseteq Sent' /\ q \in Sent' /\ q \notin Sent
  BY <1>1, <1>3 DEF Sent
<1>5. Unanswered' = Unanswered
  BY <1>1 DEF Unanswered
<1>6. q \in Unanswered
  BY <1>4 DEF Once
<1>7. \A e \in Devices : \A i \in 1..Len(wire[e]) : wire[e][i] # q
  BY <1>4 DEF Once
<1>8. ASSUME NEW e \in Devices, NEW i \in 1..Len(wire'[e])
      PROVE  /\ wire'[e][i] \in Sent' \cap Unanswered'
             /\ \A j \in 1..Len(wire'[e]) : wire'[e][i] = wire'[e][j] => i = j
  <2>1. CASE e # d
    <3>1. wire'[e] = wire[e]
      BY <1>1, <2>1
    <3>2. i \in 1..Len(wire[e]) /\ wire[e][i] \in Questions
      BY <1>1, <3>1
    <3> QED
      BY <1>4, <1>5, <3>1, <3>2 DEF Once
  <2>2. CASE e = d
    <3>1. wire'[e] = Append(wire[e], q) /\ wire[e] \in Seq(Questions)
      BY <1>1, <2>2
    <3>2. /\ Len(wire'[e]) = Len(wire[e]) + 1 /\ Len(wire[e]) \in Nat
          /\ wire'[e][Len(wire[e]) + 1] = q
          /\ \A j \in 1..Len(wire[e]) : wire'[e][j] = wire[e][j] /\ wire[e][j] \in Questions
      BY <3>1
    <3>3. \A j \in 1..Len(wire'[e]) : j \in 1..Len(wire[e]) \/ j = Len(wire[e]) + 1
      BY <3>2
    <3>4. CASE i \in 1..Len(wire[e])
      <4>1. wire[e][i] \in Sent \cap Unanswered /\ wire[e][i] # q
        BY <1>7, <3>4 DEF Once
      <4>2. \A j \in 1..Len(wire[e]) : wire[e][i] = wire[e][j] => i = j
        BY <3>4 DEF Once
      <4> QED
        BY <1>4, <1>5, <3>2, <3>3, <3>4, <4>1, <4>2
    <3>5. CASE i = Len(wire[e]) + 1
      <4>1. \A j \in 1..Len(wire[e]) : wire'[e][j] # q
        BY <1>7, <3>2
      <4> QED
        BY <1>4, <1>5, <1>6, <3>2, <3>3, <3>5, <4>1
    <3> QED
      BY <1>8, <3>3, <3>4, <3>5
  <2> QED
    BY <2>1, <2>2
<1>9. Questions \ Unanswered' \subseteq Sent'
  BY <1>4, <1>5 DEF Once
<1> QED
  BY <1>8, <1>9 DEF Once

\* The question that is answered leaves the wire, and is on no other.
LEMMA AnswerOnce ==
    ASSUME IInv, Once, NEW d \in Devices, Answer(d)
    PROVE  Once'
<1> DEFINE q == Head(wire[d])
<1>1. /\ wire[d] # <<>> /\ wire' = [wire EXCEPT ![d] = Tail(@)]
      /\ \E a \in Answers : produced' = produced \cup {<<q, d, a>>}
      /\ UNCHANGED ask
      /\ wire \in [Devices -> Seq(Questions)]
  BY DEF Answer, IInv, TypeOK
<1>2. wire[d] \in Seq(Questions) /\ Len(wire[d]) \in Nat /\ Len(wire[d]) > 0
  BY <1>1
<1>3. q = wire[d][1] /\ q \in Questions /\ 1 \in 1..Len(wire[d])
  BY <1>2
<1>4. /\ Len(wire'[d]) = Len(wire[d]) - 1
      /\ \A i \in 1..Len(wire'[d]) : wire'[d][i] = wire[d][i + 1] /\ i + 1 \in 1..Len(wire[d])
  BY <1>1, <1>2
<1> HIDE DEF q
<1>5. Sent' = Sent /\ Unanswered \ {q} \subseteq Unanswered' /\ Unanswered' \subseteq Unanswered
  BY <1>1 DEF Sent, Unanswered
<1>6. q \in Sent /\ q \in AskedOf(d)
  <2>1. wire[d] \in Seq(AskedOf(d))
    BY DEF IInv, OnTheWay
  <2>2. wire[d][1] \in AskedOf(d)
    BY <1>3, <2>1
  <2> QED
    BY <1>3, <2>2 DEF Once
<1>7. ASSUME NEW e \in Devices, NEW i \in 1..Len(wire'[e])
      PROVE  /\ wire'[e][i] \in Sent' \cap Unanswered'
             /\ \A j \in 1..Len(wire'[e]) : wire'[e][i] = wire'[e][j] => i = j
  <2>1. CASE e # d
    <3>1. wire'[e] = wire[e] /\ i \in 1..Len(wire[e])
      BY <1>1, <1>7, <2>1
    <3>2. wire[e][i] \in AskedOf(e) /\ wire[e][i] \in Questions
      <4>1. wire[e] \in Seq(AskedOf(e)) /\ wire[e] \in Seq(Questions)
        BY <1>1 DEF IInv, OnTheWay
      <4> QED
        BY <3>1, <4>1
    <3>3. wire[e][i] # q
      BY <1>6, <2>1, <3>2 DEF AskedOf
    <3> QED
      BY <1>5, <3>1, <3>2, <3>3 DEF Once
  <2>2. CASE e = d
    <3>1. i \in 1..Len(wire'[d]) /\ i + 1 \in 1..Len(wire[d]) /\ wire'[d][i] = wire[d][i + 1]
      BY <1>4, <1>7, <2>2
    <3>2. wire[d][i + 1] \in Questions
      BY <1>2, <3>1
    <3>3. i + 1 # 1
      BY <3>1
    <3>4. wire[d][i + 1] # q
      BY <1>3, <3>1, <3>3 DEF Once
    <3>5. \A j \in 1..Len(wire'[d]) : wire'[d][i] = wire'[d][j] => i = j
      <4> SUFFICES ASSUME NEW j \in 1..Len(wire'[d]), wire'[d][i] = wire'[d][j] PROVE i = j
        OBVIOUS
      <4>1. j + 1 \in 1..Len(wire[d]) /\ wire[d][i + 1] = wire[d][j + 1]
        BY <1>4, <3>1
      <4>2. i + 1 = j + 1
        BY <3>1, <4>1 DEF Once
      <4>3. i \in Int /\ j \in Int
        BY <3>1
      <4> QED
        BY <4>2, <4>3
    <3> QED
      BY <1>5, <2>2, <3>1, <3>2, <3>4, <3>5 DEF Once
  <2> QED
    BY <2>1, <2>2
<1>8. Questions \ Unanswered' \subseteq Sent'
  BY <1>5, <1>6 DEF Once
<1> QED
  BY <1>7, <1>8 DEF Once

\* What a step makes of the request of one question, and of no other.
LEMMA GoesStep ==
    ASSUME IInv, NEW q \in Questions, NEW at \in {"written", "waiting"}, Goes(q, at)
    PROVE  /\ \A p \in Questions : p # q => ask'[p] = ask[p]
           /\ ask'[q].at = at /\ ask'[q].device = ask[q].device /\ ask'[q].result = ask[q].result
<1>1. ask \in [Questions -> Asks] /\ ask[q] \in Asks
  BY DEF IInv, TypeOK
<1>2. ask' = [ask EXCEPT ![q] = [ask[q] EXCEPT !.at = at]]
  BY <1>1 DEF Goes
<1>3. \A p \in Questions : ask'[p] = IF p = q THEN [ask[q] EXCEPT !.at = at] ELSE ask[p]
  BY <1>1, <1>2
<1> QED
  BY <1>1, <1>3 DEF Asks

LEMMA EndsStep ==
    ASSUME IInv, NEW q \in Questions, NEW result, Ends(q, result)
    PROVE  /\ \A p \in Questions : p # q => ask'[p] = ask[p]
           /\ ask'[q].at = "over" /\ ask'[q].device = ask[q].device /\ ask'[q].result = result
<1>1. ask \in [Questions -> Asks] /\ ask[q] \in Asks
  BY DEF IInv, TypeOK
<1>2. ask' = [ask EXCEPT ![q] = [ask[q] EXCEPT !.at = "over", !.result = result]]
  BY <1>1 DEF Ends
<1>3. /\ \A p \in Questions : p # q => ask'[p] = ask[p]
      /\ ask'[q] = [ask[q] EXCEPT !.at = "over", !.result = result]
  BY <1>1, <1>2
<1> QED
  BY <1>1, <1>3 DEF Asks

LEMMA AskStep ==
    ASSUME IInv, NEW q \in Questions, NEW k \in Kinds, NEW d \in Devices, Ask(q, k, d)
    PROVE  /\ \A p \in Questions : p # q => ask'[p] = ask[p]
           /\ ask[q].at = "none" /\ ask'[q].at # "none"
           /\ ask'[q].device = d /\ ask'[q].result \in {"none", "refused"}
<1>1. ask \in [Questions -> Asks]
  BY DEF IInv, TypeOK
<1>2. PICK r : /\ ask' = [ask EXCEPT ![q] = r]
               /\ r.at # "none" /\ r.device = d /\ r.result \in {"none", "refused"}
  BY DEF Ask, Asked
<1> QED
  BY <1>1, <1>2 DEF Ask

LEMMA BreakStep ==
    ASSUME IInv, NEW d \in Devices, Break(d), NEW q \in Questions
    PROVE  /\ ask'[q].device = ask[q].device /\ ask'[q].result = ask[q].result
           /\ \/ ask'[q] = ask[q]
              \/ ask'[q].at = "cut" /\ ask[q].at \in {"sending", "written"}
<1>1. ask \in [Questions -> Asks] /\ ask[q] \in Asks
  BY DEF IInv, TypeOK
<1>2. \/ ask'[q] = ask[q]
      \/ ask'[q] = [ask[q] EXCEPT !.at = "cut"] /\ ask[q].at \in {"sending", "written"}
  BY DEF Break
<1> QED
  BY <1>1, <1>2 DEF Asks

\* How a question ends: with the answer of its Future, or with none.
LEMMA EndingStep ==
    ASSUME IInv, NEW q \in Questions, SendRaises(q) \/ Wakes(q) \/ Expires(q)
    PROVE  /\ UNCHANGED <<wire, produced>> /\ ask[q].at \in {"cut", "waiting"}
           /\ \E result \in Answers \cup {"timeout", "exception"} :
                 /\ Ends(q, result)
                 /\ result \in Answers => future[q] = result
<1>1. CASE SendRaises(q)
  BY <1>1 DEF SendRaises, Answers
<1>2. CASE Wakes(q)
  BY <1>2 DEF Wakes
<1>3. CASE Expires(q)
  <2>1. "timeout" \notin Answers /\ "exception" \notin Answers
    BY DEF Answers
  <2>2. CASE Ends(q, "timeout")
    BY <1>3, <2>1, <2>2 DEF Expires
  <2>3. CASE Ends(q, "exception")
    BY <1>3, <2>1, <2>3 DEF Expires
  <2> QED
    BY <1>3, <2>2, <2>3 DEF Expires
<1> QED
  BY <1>1, <1>2, <1>3

LEMMA UntouchedStays ==
    ASSUME Untouched,
           \A q \in Questions : ask'[q] = ask[q] \/ ask'[q].at # "none"
    PROVE  Untouched'
  BY DEF Untouched

\* A step that writes no question and answers none.
LEMMA OthersOnce ==
    ASSUME IInv, Once, UNCHANGED produced,
           \A q \in Questions : \/ ask'[q] = ask[q] \/ ask[q].at = "none"
                                \/ /\ ask'[q].at \notin {"none", "sending"}
                                   /\ ask'[q].result = "refused" => ask[q].result = "refused",
           \A d \in Devices : wire'[d] = wire[d] \/ wire'[d] = <<>>
    PROVE  Once'
<1>1. Sent \subseteq Sent'
  BY DEF Sent
<1>2. \A d \in Devices : wire[d] \in Seq(Questions)
  BY DEF IInv, TypeOK
<1> QED
  BY <1>1, <1>2, OnceStays

-----------------------------------------------------------------------------
(* Replies implements Inquiry *)

Fresh == IInv /\ Once /\ Untouched

LEMMA InitFresh == Init => Fresh
<1>1. Init => Untouched
  BY DEF Init, Untouched
<1> QED
  BY <1>1, InitIInv, InitOnce DEF Fresh

LEMMA NextFresh == Fresh /\ [Next]_vars => Fresh'
<1> SUFFICES ASSUME Fresh, [Next]_vars PROVE Once' /\ Untouched'
  BY NextIInv DEF Fresh
<1>1. IInv /\ Once /\ Untouched
  BY DEF Fresh
<1>2. ASSUME NEW q \in Questions, NEW k \in Kinds, NEW d \in Devices, Ask(q, k, d)
      PROVE  Once' /\ Untouched'
  <2>1. UNCHANGED <<wire, produced>>
    BY <1>2 DEF Ask
  <2> QED
    BY <1>1, <1>2, <2>1, AskStep, OthersOnce, UntouchedStays
<1>3. ASSUME NEW q \in Questions, Written(q)
      PROVE  Once' /\ Untouched'
  <2>1. Goes(q, "written")
    BY <1>3 DEF Written
  <2> QED
    BY <1>1, <1>3, <2>1, WrittenOnce, GoesStep, UntouchedStays
<1>4. ASSUME NEW q \in Questions, SendReturns(q)
      PROVE  Once' /\ Untouched'
  <2>1. Goes(q, "waiting") /\ UNCHANGED <<wire, produced>>
    BY <1>4 DEF SendReturns
  <2>2. /\ \A p \in Questions : p # q => ask'[p] = ask[p]
        /\ ask'[q].at = "waiting" /\ ask'[q].result = ask[q].result
    BY <1>1, <2>1, GoesStep
  <2> QED
    BY <1>1, <2>1, <2>2, OthersOnce, UntouchedStays
<1>5. ASSUME NEW q \in Questions, SendRaises(q) \/ Wakes(q) \/ Expires(q)
      PROVE  Once' /\ Untouched'
  <2>1. PICK result \in Answers \cup {"timeout", "exception"} : Ends(q, result)
    BY <1>1, <1>5, EndingStep
  <2>2. /\ \A p \in Questions : p # q => ask'[p] = ask[p]
        /\ ask'[q].at = "over" /\ ask'[q].result = result
    BY <1>1, <2>1, EndsStep
  <2>3. result # "refused"
    BY DEF Answers
  <2>4. UNCHANGED <<wire, produced>>
    BY <1>1, <1>5, EndingStep
  <2> QED
    BY <1>1, <2>2, <2>3, <2>4, OthersOnce, UntouchedStays
<1>6. ASSUME NEW d \in Devices, Answer(d)
      PROVE  Once' /\ Untouched'
  <2>1. UNCHANGED ask
    BY <1>6 DEF Answer
  <2> QED
    BY <1>1, <1>6, <2>1, AnswerOnce, UntouchedStays
<1>7. ASSUME NEW d \in Devices, Resolve(d) \/ Connect(d)
      PROVE  Once' /\ Untouched'
  <2>1. UNCHANGED <<ask, wire, produced>>
    BY <1>7 DEF Resolve, Connect
  <2> QED
    BY <1>1, <2>1, OthersOnce, UntouchedStays
<1>8. ASSUME NEW d \in Devices, Break(d)
      PROVE  Once' /\ Untouched'
  <2>1. UNCHANGED produced /\ \A e \in Devices : wire'[e] = wire[e] \/ wire'[e] = <<>>
    BY <1>1, <1>8 DEF Break, IInv, TypeOK
  <2>2. \A q \in Questions : \/ ask'[q] = ask[q]
                             \/ ask'[q].at = "cut" /\ ask'[q].result = ask[q].result
    BY <1>1, <1>8, BreakStep
  <2> QED
    BY <1>1, <2>1, <2>2, OthersOnce, UntouchedStays
<1>9. CASE UNCHANGED vars
  <2>1. UNCHANGED <<ask, wire, produced>>
    BY <1>9 DEF vars
  <2> QED
    BY <1>1, <2>1, OthersOnce, UntouchedStays
<1> QED
  BY <1>2, <1>3, <1>4, <1>5, <1>6, <1>7, <1>8, <1>9 DEF Next, EndpointStep

AskedNow == [q \in Questions |-> ask[q].device]
Outcome == [q \in Questions |-> ask[q].result]

LEMMA InitInquiry == Init => I!Init
<1> SUFFICES ASSUME Init PROVE I!Init
  OBVIOUS
<1>1. \A q \in Questions : ask[q].device = None /\ ask[q].result = "none"
  BY DEF Init, NotAsked
<1> QED
  BY <1>1 DEF Init, I!Init

\* Every step of Replies is one of Inquiry, or changes nothing of it.
LEMMA NextInquiry == Fresh /\ [Next]_vars => [I!Next]_I!vars
<1> DEFINE Same == UNCHANGED <<AskedNow, produced, Outcome>>
           Goal == I!Next \/ Same
<1> SUFFICES ASSUME Fresh, [Next]_vars PROVE Goal
  BY DEF I!vars, AskedNow, Outcome
<1>1. IInv /\ Once /\ Untouched /\ ask \in [Questions -> Asks]
  BY DEF Fresh, IInv, TypeOK
<1>2. ASSUME \A p \in Questions : ask'[p].device = ask[p].device /\ ask'[p].result = ask[p].result,
             UNCHANGED produced
      PROVE  Goal
  BY <1>2 DEF AskedNow, Outcome
<1> HIDE DEF Same
<1>3. ASSUME NEW q \in Questions, NEW k \in Kinds, NEW d \in Devices, Ask(q, k, d)
      PROVE  Goal
  <2>1. /\ \A p \in Questions : p # q => ask'[p] = ask[p]
        /\ ask[q].at = "none"
        /\ ask'[q].device = d /\ ask'[q].result \in {"none", "refused"}
    BY <1>1, <1>3, AskStep
  <2>2. ask[q].device = None /\ ask[q].result = "none"
    BY <1>1, <2>1 DEF Untouched, NotAsked
  <2>3. AskedNow' = [AskedNow EXCEPT ![q] = d]
    BY <2>1 DEF AskedNow
  <2>4. Outcome' \in {Outcome, [Outcome EXCEPT ![q] = "refused"]}
    <3>1. Outcome' = [Outcome EXCEPT ![q] = ask'[q].result]
      BY <2>1 DEF Outcome
    <3>2. Outcome = [Outcome EXCEPT ![q] = "none"]
      BY <2>2 DEF Outcome
    <3> QED
      BY <2>1, <3>1, <3>2
  <2>5. UNCHANGED produced
    BY <1>3 DEF Ask
  <2>6. AskedNow[q] = None
    BY <2>2 DEF AskedNow
  <2>7. I!Ask(q, d)
    BY <2>3, <2>4, <2>5, <2>6 DEF I!Ask, AskedNow, Outcome
  <2> QED
    BY <2>7 DEF I!Next
<1>4. ASSUME NEW q \in Questions, Written(q) \/ SendReturns(q)
      PROVE  Goal
  <2>1. PICK at \in {"written", "waiting"} : Goes(q, at)
    BY <1>4 DEF Written, SendReturns
  <2>2. UNCHANGED produced
    BY <1>4 DEF Written, SendReturns
  <2>3. \A p \in Questions : ask'[p].device = ask[p].device /\ ask'[p].result = ask[p].result
    BY <1>1, <2>1, GoesStep
  <2> QED
    BY <1>2, <2>2, <2>3
<1>5. ASSUME NEW q \in Questions, SendRaises(q) \/ Wakes(q) \/ Expires(q)
      PROVE  Goal
  <2>1. /\ ask[q].at \in {"cut", "waiting"} /\ UNCHANGED produced
        /\ \E r \in Answers \cup {"timeout", "exception"} :
              Ends(q, r) /\ (r \in Answers => future[q] = r)
    BY <1>1, <1>5, EndingStep
  <2>2. PICK result \in Answers \cup {"timeout", "exception"} :
            Ends(q, result) /\ (result \in Answers => future[q] = result)
    BY <2>1
  <2>3. /\ \A p \in Questions : p # q => ask'[p] = ask[p]
        /\ ask'[q].device = ask[q].device /\ ask'[q].result = result
    BY <1>1, <2>2, EndsStep
  <2>4. AskedNow' = AskedNow /\ Outcome' = [Outcome EXCEPT ![q] = result]
    BY <2>3 DEF AskedNow, Outcome
  <2>5. ask[q].device # None
    BY <1>1, <2>1, RepliesAssumption DEF IInv, TypeOK
  <2>6. ask[q].result = "none"
    BY <1>1, <2>1 DEF IInv, Listed
  <2>7. result \in Answers => <<q, ask[q].device, result>> \in produced
    BY <1>1, <2>2 DEF IInv, Held
  <2>8. AskedNow[q] = ask[q].device /\ Outcome[q] = "none"
    BY <2>6 DEF AskedNow, Outcome
  <2>9. I!End(q, result)
    BY <2>1, <2>4, <2>5, <2>7, <2>8 DEF I!End, AskedNow, Outcome
  <2> QED
    BY <2>9 DEF I!Next
<1>6. ASSUME NEW d \in Devices, Answer(d)
      PROVE  Goal
  <2> DEFINE q == Head(wire[d])
  <2>1. /\ wire[d] # <<>> /\ UNCHANGED ask
        /\ \E a \in Answers : produced' = produced \cup {<<q, d, a>>}
    BY <1>6 DEF Answer
  <2>2. PICK a \in Answers : produced' = produced \cup {<<q, d, a>>}
    BY <2>1
  <2>3. wire[d] \in Seq(Questions) /\ wire[d] \in Seq(AskedOf(d))
    BY <1>1 DEF IInv, TypeOK, OnTheWay
  <2>4. q = wire[d][1] /\ 1 \in 1..Len(wire[d]) /\ q \in AskedOf(d) /\ q \in Questions
    BY <2>1, <2>3
  <2> HIDE DEF q
  <2>5. q \in Sent /\ q \in Unanswered
    BY <1>1, <2>4 DEF Once
  <2>6. AskedNow[q] = d /\ AskedNow[q] # None /\ Outcome[q] # "refused"
    BY <2>4, <2>5, RepliesAssumption DEF AskedNow, Outcome, AskedOf, Sent
  <2>7. \A e \in Devices, b \in Answers : <<q, e, b>> \notin produced
    BY <2>5 DEF Unanswered
  <2>8. AskedNow' = AskedNow /\ Outcome' = Outcome
    BY <2>1 DEF AskedNow, Outcome
  <2>9. I!Unanswered(q)
    BY <2>7 DEF I!Unanswered
  <2>10. I!Give(q, a)
    BY <2>2, <2>6, <2>8, <2>9 DEF I!Give, AskedNow, Outcome
  <2> QED
    BY <2>4, <2>10 DEF I!Next
<1>7. ASSUME NEW d \in Devices, Resolve(d) \/ Connect(d)
      PROVE  Goal
  BY <1>2, <1>7 DEF Resolve, Connect
<1>8. ASSUME NEW d \in Devices, Break(d)
      PROVE  Goal
  <2>1. UNCHANGED produced
    BY <1>8 DEF Break
  <2>2. \A q \in Questions : ask'[q].device = ask[q].device /\ ask'[q].result = ask[q].result
    BY <1>1, <1>8, BreakStep
  <2> QED
    BY <1>2, <2>1, <2>2
<1>9. CASE UNCHANGED vars
  BY <1>2, <1>9 DEF vars
<1> QED
  BY <1>3, <1>4, <1>5, <1>6, <1>7, <1>8, <1>9 DEF Next, EndpointStep

-----------------------------------------------------------------------------

LEMMA Invariant == Spec => []IInv
  BY InitIInv, NextIInv, PTL DEF Spec

\* For any number of administrators and devices, the state keeps its form.
THEOREM TypeCorrect == Spec => []TypeOK
<1>1. IInv => TypeOK
  BY DEF IInv
<1> QED
  BY <1>1, Invariant, PTL

\* main.py:534, an answer comes from the device that was asked, to the question asked.
THEOREM OwnAnswerCorrect == Spec => []OwnAnswer
<1>1. IInv => OwnAnswer
  BY DEF IInv
<1> QED
  BY <1>1, Invariant, PTL

\* main.py:528, who waits is in the table, and all but the expired agent-tests leave it.
THEOREM TableCorrect == Spec => []TableFits
<1>1. IInv => TableFits
  BY DEF IInv
<1> QED
  BY <1>1, Invariant, PTL

\* Of any number of questions to any devices each is answered at most once, by the device
\* that was asked and not when it was refused; it ends once, with that answer or none.
THEOREM InquiryCorrect == Spec => InquirySpec
<1>1. Spec => []Fresh
  BY InitFresh, NextFresh, PTL DEF Spec
<1> QED
  BY <1>1, InitInquiry, NextInquiry, PTL DEF Spec, InquirySpec, I!Spec

==============================================================================
