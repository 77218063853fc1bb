--------------------------- MODULE MCSidecarExec ---------------------------
(* Instances of SidecarExec for TLC: commands on agents a1, a2, a3, skills s1, *)
(* s2 and the provider p1.                                                     *)
EXTENDS SidecarExec, TLC

CONSTANTS r1, r2, r3, r4, r5, r6, r7, r8, a1, a2, a3, s1, s2, p1

Cmd(a, is) == [action |-> a, items |-> is, intact |-> TRUE]

\* A new agent, two skills in one command, an agent that is deleted, disabled,
\* updated, with a wrong fingerprint and with the right one, a provider that is added
\* (or updated, which writes the same file) and removed.
Commands ==
    r1 :> Cmd("create", <<None>>) @@ r2 :> Cmd("sync", <<s1, s2>>)
    @@ r3 :> Cmd("delete", <<a1>>) @@ r4 :> Cmd("disable", <<a1>>)
    @@ r5 :> [Cmd("update", <<a1>>) EXCEPT !.intact = FALSE]
    @@ r6 :> Cmd("update", <<a1>>)
    @@ r7 :> Cmd("add", <<p1>>) @@ r8 :> Cmd("remove", <<p1>>)

Sent(q) == [r \in Requests |-> IF r \in DOMAIN q THEN q[r] ELSE 0]

\* A request sent twice, or two requests.
TwiceOrTwo ==
    {Sent(r1 :> 2), Sent(r2 :> 2), Sent(r1 :> 1 @@ r3 :> 1),
     Sent(r3 :> 1 @@ r6 :> 1), Sent(r4 :> 1 @@ r5 :> 1), Sent(r7 :> 1 @@ r8 :> 1)}

\* One agent to create, sent twice.
OneCreate == r1 :> Cmd("create", <<None>>)
Twice == {Sent(r1 :> 2)}

============================================================================
