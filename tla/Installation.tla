---------------------------- MODULE Installation ----------------------------
(***************************************************************************)
(* One Windows device (sidecar/sidecar.py): the commands set-server,       *)
(* first-run, install-service and uninstall-service, which keep            *)
(* config.json and managed_key in the profile of the user who runs them,   *)
(* and the service, which runs as LocalSystem, looks for these files in    *)
(* all profiles, and registers with the key at a server, which binds the   *)
(* device to the first key it gets (server/ws_server.py, _authorize).      *)
(*                                                                         *)
(* The commands of a device run one after the other, next to the service.  *)
(* The device id is a fingerprint of the machine and always the same: of a *)
(* configuration only counts whether it has the id.  Registration tokens   *)
(* are right.                                                              *)
(***************************************************************************)
EXTENDS Naturals

CONSTANTS
    Users,      \* the profiles below C:\Users
    Plain,      \* users whose commands run without administrator's rights
    System,     \* the profile of LocalSystem
    Servers,    \* addresses
    Shipped,    \* the address in the embedded configuration
    Given,      \* the addresses users give, with --ip or in a --config file
    Keys,       \* what token_urlsafe may return
    None

Profiles == Users \cup {System}

ASSUME InstallationAssumption ==
    /\ Plain \subseteq Users /\ System \notin Users
    /\ Shipped \in Servers /\ Given \subseteq Servers
    /\ None \notin Keys \cup Servers \cup Profiles

VARIABLES
    config,     \* config.json of each profile
    edited,     \* whose config.json is newer than whose
    key,        \* managed_key of each profile
    keyed,      \* whose managed_key is newer than whose
    cmd,        \* the command under way
    svc,        \* the service
    bound,      \* the key a server has bound the device to
    missed,     \* auxiliary: was a key file deleted, or not seen when keys were looked for
    chosen,     \* auxiliary: the address a user gave to set-server
    cut         \* auxiliary: whose command was cut short while it saved config.json

vars == <<config, edited, key, keyed, cmd, svc, bound, missed, chosen, cut>>

\* A file that was opened for writing is torn until it is closed.
Files == [is : {"none", "torn", "whole"}, url : Servers, named : BOOLEAN]
NoFile == [is |-> "none", url |-> Shipped, named |-> FALSE]
Torn == [NoFile EXCEPT !.is = "torn"]
Template(s) == [is |-> "whole", url |-> s, named |-> FALSE]

Commands == [name : {"none", "set-server", "first-run", "install", "uninstall"},
             user : Users \cup {None}, url : Servers \cup {None},
             at : {"none", "create", "copy", "edit", "save", "key", "replace", "install",
                   "start", "delete"},
             file : Files, key : Keys \cup {None}]
Idle == [name |-> "none", user |-> None, url |-> None, at |-> "none", file |-> NoFile,
         key |-> None]

Services == [at : {"absent", "starting", "copying", "loaded", "making", "keyed", "serving"},
             file : Files, key : Keys \cup {None}]
Absent == [at |-> "absent", file |-> NoFile, key |-> None]
Starting == [Absent EXCEPT !.at = "starting"]

TypeOK ==
    /\ config \in [Profiles -> Files]
    /\ edited \subseteq Users \X Users /\ keyed \subseteq Users \X Users
    /\ key \in [Profiles -> Keys \cup {None}]
    /\ cmd \in Commands
    /\ cmd.at # "none" => cmd.user \in Users
    /\ cmd.name = "set-server" => cmd.url \in Servers
    /\ cmd.at = "replace" => cmd.key # None
    /\ svc \in Services
    /\ svc.at \in {"making", "keyed"} => svc.key # None
    /\ bound \in [Servers -> Keys \cup {None}]
    /\ missed \in BOOLEAN
    /\ chosen \in [Users -> Servers \cup {None}]
    /\ cut \subseteq Users

Init ==
    /\ config = [p \in Profiles |-> NoFile] /\ edited = {}
    /\ key = [p \in Profiles |-> None] /\ keyed = {}
    /\ cmd = Idle /\ svc = Absent
    /\ bound = [s \in Servers |-> None]
    /\ missed = FALSE
    /\ chosen = [u \in Users |-> None] /\ cut = {}

\* mtime: u's file is gone; it has just been written; the newest of the files of S.
Forget(order, u) == {p \in order : u \notin {p[1], p[2]}}
Touch(order, u) == Forget(order, u) \cup ({u} \X (Users \ {u}))
Newest(order, S) == {u \in S : \A v \in S \ {u} : <<u, v>> \in order}

-----------------------------------------------------------------------------
(* Keys *)

WithKey == {p \in Profiles : key[p] # None}

\* Whose files a process of p does not get to see: those it may not or cannot read.
Hidden(p, failing) == failing \cup (IF p \in Plain THEN Users \ {p} ELSE {})

\* _scan_user_managed_key: the newest key file of a user.
Scanned(hidden) == {key[u] : u \in Newest(keyed, (WithKey \cap Users) \ hidden)}

\* _managed_key up to the point where a key is made: the key in the process's own
\* profile, else the one the scan finds, if any.
SeenScanFirst(p, hidden) ==
    IF Scanned(hidden) # {} THEN Scanned(hidden)
    ELSE {key[q] : q \in {p} \cap (WithKey \ hidden)}
SeenOwn(p, hidden) == {key[q] : q \in {p} \cap (WithKey \ hidden)}
Seen(p, hidden) == IF p \in WithKey \ hidden THEN {key[p]} ELSE Scanned(hidden)

\* token_urlsafe never returns a key that is in use.
FreshOrEmpty == Keys \cup {None}
Fresh == Keys \ ({key[p] : p \in Profiles} \cup {bound[s] : s \in Servers} \cup {cmd.key, svc.key})

Misses(hidden) == missed' = (missed \/ hidden \cap WithKey # {})

-----------------------------------------------------------------------------
(* The commands *)

CmdGoes(at) == cmd' = [cmd EXCEPT !.at = at]

Writes(u, file) ==
    /\ config' = [config EXCEPT ![u] = file]
    /\ edited' = Touch(edited, u)

\* set-server --ip
SetServer(u, s) ==
    /\ cmd = Idle
    /\ cmd' = [Idle EXCEPT !.name = "set-server", !.user = u, !.url = s,
                           !.at = IF config[u].is = "none" THEN "create" ELSE "edit"]
    /\ UNCHANGED <<config, edited, key, keyed, svc, bound, missed, chosen, cut>>

\* first-run, with --config where s is not None
FirstRunCopies(u, s) ==
    /\ cmd = Idle
    /\ cmd' = [Idle EXCEPT !.name = "first-run", !.user = u, !.url = s, !.at = "create"]
    /\ chosen' = IF s # None THEN [chosen EXCEPT ![u] = None] ELSE chosen
    /\ UNCHANGED <<config, edited, key, keyed, svc, bound, missed, cut>>
FirstRun(u, s) ==
    /\ cmd = Idle
    /\ cmd' = [Idle EXCEPT !.name = "first-run", !.user = u, !.url = s,
                           !.at = IF config[u].is = "none" \/ s # None THEN "create" ELSE "edit"]
    /\ chosen' = IF s # None THEN [chosen EXCEPT ![u] = None] ELSE chosen
    /\ UNCHANGED <<config, edited, key, keyed, svc, bound, missed, cut>>

InstallService(u) ==
    /\ cmd = Idle
    /\ cmd' = [Idle EXCEPT !.name = "install", !.user = u, !.at = "install"]
    /\ UNCHANGED <<config, edited, key, keyed, svc, bound, missed, chosen, cut>>

UninstallService(u) ==
    /\ cmd = Idle
    /\ cmd' = [Idle EXCEPT !.name = "uninstall", !.user = u, !.at = "install"]
    /\ UNCHANGED <<config, edited, key, keyed, svc, bound, missed, chosen, cut>>

\* The template, or the --config file, is copied into the profile.
Creates ==
    /\ cmd.at = "create"
    /\ Writes(cmd.user, Torn)
    /\ CmdGoes("copy")
    /\ cut' = cut \ {cmd.user}
    /\ UNCHANGED <<key, keyed, svc, bound, missed, chosen>>

Copies ==
    /\ cmd.at = "copy"
    /\ \/ cmd.name = "first-run" /\ cmd.url # None /\ Writes(cmd.user, Template(cmd.url))
       \/ (cmd.name = "set-server" \/ cmd.url = None) /\ Writes(cmd.user, Template(Shipped))
    /\ CmdGoes("edit")
    /\ UNCHANGED <<key, keyed, svc, bound, missed, chosen, cut>>

\* The configuration is read, which fails on a torn file, changed, and opened for writing.
Edited ==
    IF cmd.name = "set-server" THEN [config[cmd.user] EXCEPT !.url = cmd.url]
    ELSE [config[cmd.user] EXCEPT !.named = TRUE]

Edits ==
    /\ cmd.at = "edit" /\ config[cmd.user].is = "whole"
    /\ cmd' = [cmd EXCEPT !.file = Edited, !.at = "save"]
    /\ Writes(cmd.user, Torn)
    /\ UNCHANGED <<key, keyed, svc, bound, missed, chosen, cut>>

Saves ==
    /\ cmd.at = "save"
    /\ Writes(cmd.user, cmd.file)
    /\ \/ /\ cmd.name = "set-server"
          /\ cmd' = Idle
          /\ chosen' = [chosen EXCEPT ![cmd.user] = cmd.url]
       \/ /\ cmd.name = "first-run"
          /\ cmd' = [cmd EXCEPT !.url = None, !.file = NoFile, !.at = "key"]
          /\ UNCHANGED chosen
    /\ UNCHANGED <<key, keyed, svc, bound, missed, cut>>

CmdLooks ==
    /\ cmd.at = "key"
    /\ \E failing \in SUBSET WithKey :
          LET hidden == Hidden(cmd.user, failing)
          IN  /\ Misses(hidden)
              /\ \/ Seen(cmd.user, hidden) # {} /\ CmdGoes("install")
                 \/ /\ Seen(cmd.user, hidden) = {}
                    /\ \E f \in Fresh : cmd' = [cmd EXCEPT !.key = f, !.at = "replace"]
    /\ UNCHANGED <<config, edited, key, keyed, svc, bound, chosen, cut>>

CmdReplaces ==
    /\ cmd.at = "replace"
    /\ key' = [key EXCEPT ![cmd.user] = cmd.key]
    /\ keyed' = Touch(keyed, cmd.user)
    /\ cmd' = [cmd EXCEPT !.key = None, !.at = "install"]
    /\ UNCHANGED <<config, edited, svc, bound, missed, chosen, cut>>

\* nssm stops and removes the service; without the rights for it the command fails.
Removes ==
    /\ cmd.at = "install"
    /\ \/ /\ cmd.user \notin Plain
          /\ svc' = Absent
          /\ CmdGoes(IF cmd.name = "uninstall" THEN "delete" ELSE "start")
       \/ cmd.user \in Plain /\ cmd' = Idle /\ UNCHANGED svc
    /\ UNCHANGED <<config, edited, key, keyed, bound, missed, chosen, cut>>

Starts ==
    /\ cmd.at = "start"
    /\ svc' = Starting /\ cmd' = Idle
    /\ UNCHANGED <<config, edited, key, keyed, bound, missed, chosen, cut>>

\* The uninstaller, which called uninstall-service, deletes the user's directory.
Deletes ==
    /\ cmd.at = "delete"
    /\ config' = [config EXCEPT ![cmd.user] = NoFile] /\ edited' = Forget(edited, cmd.user)
    /\ key' = [key EXCEPT ![cmd.user] = None] /\ keyed' = Forget(keyed, cmd.user)
    /\ missed' = (missed \/ key[cmd.user] # None)
    /\ chosen' = [chosen EXCEPT ![cmd.user] = None] /\ cut' = cut \ {cmd.user}
    /\ cmd' = Idle
    /\ UNCHANGED <<svc, bound>>

\* The command fails, with a file it cannot read or a call of nssm, or is killed.
Fails ==
    /\ cmd.at # "none"
    /\ cut' = IF cmd.at = "save" THEN cut \cup {cmd.user} ELSE cut
    /\ cmd' = Idle
    /\ UNCHANGED <<config, edited, key, keyed, svc, bound, missed, chosen>>

-----------------------------------------------------------------------------
(* The service *)

SvcGoes(at) == svc' = [svc EXCEPT !.at = at]

\* _load_config: LocalSystem's own file, else the newest of the users.
Loadable ==
    LET exists == {p \in Profiles : config[p].is # "none"}
    IN  IF System \in exists THEN {System} ELSE Newest(edited, exists)

\* On a torn file run fails, and NSSM starts it again.
Loads ==
    /\ svc.at = "starting"
    /\ \E p \in Loadable :
          /\ config[p].is = "whole"
          /\ svc' = [svc EXCEPT !.file = config[p], !.at = "loaded"]
    /\ UNCHANGED <<config, edited, key, keyed, cmd, bound, missed, chosen, cut>>

SvcCreates ==
    /\ svc.at = "starting" /\ Loadable = {}
    /\ config' = [config EXCEPT ![System] = Torn]
    /\ SvcGoes("copying")
    /\ UNCHANGED <<edited, key, keyed, cmd, bound, missed, chosen, cut>>

SvcCopies ==
    /\ svc.at = "copying"
    /\ config' = [config EXCEPT ![System] = Template(Shipped)]
    /\ svc' = [svc EXCEPT !.file = Template(Shipped), !.at = "loaded"]
    /\ UNCHANGED <<edited, key, keyed, cmd, bound, missed, chosen, cut>>

\* _register, on each connection.
SvcLooks ==
    /\ svc.at = "loaded"
    /\ \E failing \in SUBSET WithKey :
          LET hidden == Hidden(System, failing)
          IN  /\ Misses(hidden)
              /\ \/ \E k \in Seen(System, hidden) :
                       svc' = [svc EXCEPT !.key = k, !.at = "keyed"]
                 \/ /\ Seen(System, hidden) = {}
                    /\ \E f \in Fresh : svc' = [svc EXCEPT !.key = f, !.at = "making"]
    /\ UNCHANGED <<config, edited, key, keyed, cmd, bound, chosen, cut>>

SvcReplaces ==
    /\ svc.at = "making"
    /\ key' = [key EXCEPT ![System] = svc.key]
    /\ SvcGoes("keyed")
    /\ UNCHANGED <<config, edited, keyed, cmd, bound, missed, chosen, cut>>

\* _authorize, and register of the device with the key.
Accepts == svc.file.named /\ bound[svc.file.url] \in {None, svc.key}

Registers ==
    /\ svc.at = "keyed"
    /\ Accepts
    /\ bound' = [bound EXCEPT ![svc.file.url] = svc.key]
    /\ svc' = [svc EXCEPT !.key = None, !.at = "serving"]
    /\ UNCHANGED <<config, edited, key, keyed, cmd, missed, chosen, cut>>

\* The key cannot be written, the server refuses, or the connection is lost.
Disconnects ==
    /\ svc.at \in {"making", "keyed", "serving"}
    /\ svc' = [svc EXCEPT !.key = None, !.at = "loaded"]
    /\ UNCHANGED <<config, edited, key, keyed, cmd, bound, missed, chosen, cut>>

\* The process ends, or the machine restarts; NSSM starts it again.
Exits ==
    /\ svc.at \notin {"absent", "starting"}
    /\ svc' = Starting
    /\ UNCHANGED <<config, edited, key, keyed, cmd, bound, missed, chosen, cut>>

-----------------------------------------------------------------------------

Begins ==
    \E u \in Users :
        \/ \E s \in Given : SetServer(u, s)
        \/ \E s \in Given \cup {None} : FirstRun(u, s)
        \/ InstallService(u)
        \/ UninstallService(u)

CommandStep ==
    \/ Creates \/ Copies \/ Edits \/ Saves
    \/ CmdLooks \/ CmdReplaces \/ Removes \/ Starts \/ Deletes \/ Fails

ServiceStep ==
    \/ Loads \/ SvcCreates \/ SvcCopies
    \/ SvcLooks \/ SvcReplaces \/ Registers \/ Disconnects \/ Exits

Next == Begins \/ CommandStep \/ ServiceStep

Spec == Init /\ [][Next]_vars

-----------------------------------------------------------------------------

\* sidecar.py:242, the service uses the key the server knows: as long as no key file
\* was deleted or could not be read, what the service finds is what every server has
\* bound the device to.  The service may start before or after any command, and any
\* of them may be cut short.
BoundKeyIsFound ==
    missed \/ \A s \in Servers : bound[s] # None => Seen(System, {}) = {bound[s]}

\* sidecar.py:282, no second key is made for the users of a device: whoever runs
\* first-run later finds the first one.
OneUserKey ==
    missed \/ \A u, v \in Users \cap WithKey : u = v

\* u's file is open for writing, by a command that holds the address to be kept.
Saving(u) ==
    /\ cmd.at = "save" /\ cmd.user = u
    /\ cmd.name = "set-server" \/ cmd.file.url = chosen[u]

\* sidecar.py:984, other commands leave the address alone that a user gave to
\* set-server, until a configuration is given explicitly or the device is uninstalled.
\* They may be cut short anywhere but in the save, which opens config.json for writing
\* before it writes: cut short there a command leaves the file torn, and the address is
\* lost.  Nothing else does, and a file that can be read never has another address.
ChosenAddressIsKept ==
    \A u \in Users : chosen[u] # None =>
        \/ config[u].is = "whole" /\ config[u].url = chosen[u]
        \/ config[u].is = "torn" /\ (u \in cut \/ Saving(u))

=============================================================================
