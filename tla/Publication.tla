----------------------------- MODULE Publication -----------------------------
(***************************************************************************)
(* What the repository of one package promises, without requests, pushes,  *)
(* messages and receipts: a history to which versions are appended until   *)
(* it is withdrawn as a whole, devices that install only what was once     *)
(* published and into no agent but the one it names, and an anchor for     *)
(* each device that tells what it has installed.  AgentRepo implements     *)
(* this module.                                                            *)
(***************************************************************************)
EXTENDS Naturals, Sequences

CONSTANTS
    Devices, Agents,
    None,        \* the id of a version that names no agent
    Unknown      \* an anchor that tells nothing

VARIABLES
    history,     \* the versions of the package in their order
    published,   \* all versions there ever were
    content,     \* the version that an agent of a device has, if any
    installed,   \* what each device has installed so far, by rev and version
    anchor       \* what the server holds for installed

vars == <<history, published, content, installed, anchor>>

Init ==
    /\ history = <<>> /\ published = {}
    /\ installed = [d \in Devices |-> {}]
    /\ anchor = [d \in Devices |-> Unknown]

Label(row) == [rev |-> row.rev, version |-> row.version]

Publish(row) ==
    /\ row.rev = Len(history) + 1
    /\ history' = Append(history, row)
    /\ published' = published \cup {row}
    /\ UNCHANGED <<content, installed, anchor>>

Withdraw ==
    /\ history' = <<>>
    /\ anchor' = [d \in Devices |-> Unknown]
    /\ UNCHANGED <<published, content, installed>>

\* The version may have been withdrawn, or another be later.
Install(d, i, row) ==
    /\ row.id \in {i, None}
    /\ content' = [content EXCEPT ![d][i] = row]
    /\ installed' = [installed EXCEPT ![d] = @ \cup {Label(row)}]
    /\ UNCHANGED <<history, published, anchor>>

Learn(d, label) ==
    /\ anchor' = [anchor EXCEPT ![d] = label]
    /\ UNCHANGED <<history, published, content, installed>>

Next ==
    \/ \E row \in published' : Publish(row)
    \/ Withdraw
    \/ \E d \in Devices :
          \/ \E i \in Agents, row \in published : Install(d, i, row)
          \/ \E label \in installed[d] : Learn(d, label)

Spec == Init /\ [][Next]_vars
==============================================================================
