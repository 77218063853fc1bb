-------------------------- MODULE InstallationProofs --------------------------
(***************************************************************************)
(* Theorems about Installation, for any users, rights, addresses and keys. *)
(***************************************************************************)
EXTENDS Installation, TLAPS

USE InstallationAssumption

-----------------------------------------------------------------------------
(* Types *)

LEMMA FilesTyped ==
    /\ NoFile \in Files /\ Torn \in Files
    /\ \A s \in Servers : Template(s) \in Files
  BY DEF Files, NoFile, Torn, Template

LEMMA TouchTyped ==
    ASSUME NEW order, order \subseteq Users \X Users, NEW u \in Users
    PROVE  Touch(order, u) \subseteq Users \X Users /\ Forget(order, u) \subseteq Users \X Users
  BY DEF Touch, Forget

\* What a command and the service may become, field by field.
LEMMA IdleTyped == Idle \in Commands /\ Idle.at = "none" /\ Idle.name = "none"
  BY FilesTyped DEF Idle, Commands

LEMMA AbsentTyped ==
    /\ Absent \in Services /\ Absent.at = "absent"
    /\ Starting \in Services /\ Starting.at = "starting"
  BY FilesTyped DEF Absent, Starting, Services

LEMMA InitTyped == Init => TypeOK
<1> SUFFICES ASSUME Init
             PROVE  TypeOK
  OBVIOUS
<1>1. /\ config \in [Profiles -> Files] /\ edited \subseteq Users \X Users
      /\ key \in [Profiles -> Keys \cup {None}] /\ keyed \subseteq Users \X Users
      /\ bound \in [Servers -> Keys \cup {None}]
      /\ chosen \in [Users -> Servers \cup {None}] /\ cut \subseteq Users
  BY FilesTyped DEF Init
<1>2. /\ cmd \in Commands /\ cmd.at = "none" /\ cmd.name = "none"
      /\ svc \in Services /\ svc.at = "absent" /\ missed \in BOOLEAN
  BY IdleTyped, AbsentTyped DEF Init
<1> QED
  BY <1>1, <1>2 DEF TypeOK

LEMMA BeginsTyped ==
    ASSUME TypeOK, Begins
    PROVE  TypeOK'
<1>1. /\ UNCHANGED <<config, edited, key, keyed, svc, bound, missed, cut>>
      /\ chosen' \in [Users -> Servers \cup {None}]
  BY DEF TypeOK, Begins, SetServer, FirstRun, InstallService, UninstallService
<1>2. /\ cmd' \in Commands
      /\ cmd'.at # "none" => cmd'.user \in Users
      /\ cmd'.name = "set-server" => cmd'.url \in Servers
      /\ cmd'.at # "replace"
  <2> USE FilesTyped DEF Idle, Commands
  <2>1. PICK u \in Users :
            \/ \E s \in Given : SetServer(u, s)
            \/ \E s \in Given \cup {None} : FirstRun(u, s)
            \/ InstallService(u) \/ UninstallService(u)
    BY DEF Begins
  <2>2. CASE \E s \in Given : SetServer(u, s)
    BY <2>2 DEF SetServer
  <2>3. CASE \E s \in Given \cup {None} : FirstRun(u, s)
    BY <2>3 DEF FirstRun
  <2>4. CASE InstallService(u)
    BY <2>4 DEF InstallService
  <2>5. CASE UninstallService(u)
    BY <2>5 DEF UninstallService
  <2> QED
    BY <2>1, <2>2, <2>3, <2>4, <2>5
<1> QED
  BY <1>1, <1>2 DEF TypeOK

LEMMA CommandTyped ==
    ASSUME TypeOK, CommandStep
    PROVE  TypeOK'
<1> USE DEF TypeOK
<1>1. CASE Creates
  BY <1>1, FilesTyped, TouchTyped DEF Creates, Writes, CmdGoes, Commands, Profiles
<1>2. CASE Copies
  <2>1. cmd' \in Commands /\ cmd' = [cmd EXCEPT !.at = "edit"]
    BY <1>2 DEF Copies, CmdGoes, Commands
  <2>2. PICK file \in Files : Writes(cmd.user, file)
    <3>1. cmd.url \in Servers \cup {None}
      BY DEF Commands
    <3> QED
      BY <1>2, <3>1, FilesTyped DEF Copies
  <2>3. cmd.user \in Users /\ cmd.user \in Profiles
    BY <1>2 DEF Copies, Profiles
  <2>4. config' \in [Profiles -> Files] /\ edited' \subseteq Users \X Users
    BY <2>2, <2>3, TouchTyped DEF Writes
  <2>5. cmd'.at = "edit" /\ cmd'.user = cmd.user /\ cmd'.name = cmd.name /\ cmd'.url = cmd.url
    BY <2>1 DEF Commands
  <2> QED
    BY <1>2, <2>1, <2>3, <2>4, <2>5 DEF Copies
<1>3. CASE Edits
  <2>1. Edited \in Files
    BY <1>3 DEF Edits, Edited, Commands, Profiles, Files
  <2> QED
    BY <1>3, <2>1, FilesTyped, TouchTyped DEF Edits, Writes, Commands, Profiles
<1>4. CASE Saves
  <2>1. cmd.user \in Users /\ cmd.user \in Profiles /\ cmd.file \in Files
    BY <1>4 DEF Saves, Commands, Profiles
  <2>2. config' \in [Profiles -> Files] /\ edited' \subseteq Users \X Users
    BY <1>4, <2>1, TouchTyped DEF Saves, Writes
  <2>3. /\ cmd' \in Commands /\ (cmd'.at # "none" => cmd'.user \in Users)
        /\ cmd'.name # "set-server" /\ cmd'.at # "replace"
    BY <1>4, <2>1, FilesTyped, IdleTyped DEF Saves, Commands
  <2>4. chosen' \in [Users -> Servers \cup {None}]
    BY <1>4 DEF Saves
  <2> QED
    BY <1>4, <2>2, <2>3, <2>4 DEF Saves
<1>5. CASE CmdLooks
  <2>1. Fresh \subseteq Keys /\ None \notin Fresh
    BY DEF Fresh
  <2>2. missed' \in BOOLEAN
    BY <1>5 DEF CmdLooks, Misses
  <2>3. /\ cmd' \in Commands
        /\ cmd'.user \in Users
        /\ cmd'.name = cmd.name /\ cmd'.url = cmd.url
        /\ cmd'.at = "replace" => cmd'.key # None
    <3>1. CASE cmd' = [cmd EXCEPT !.at = "install"]
      BY <1>5, <3>1 DEF CmdLooks, Commands
    <3>2. CASE \E f \in Fresh : cmd' = [cmd EXCEPT !.key = f, !.at = "replace"]
      BY <1>5, <2>1, <3>2 DEF CmdLooks, Commands
    <3> QED
      BY <1>5, <3>1, <3>2 DEF CmdLooks, CmdGoes
  <2> QED
    BY <1>5, <2>2, <2>3 DEF CmdLooks
<1>6. CASE CmdReplaces
  BY <1>6, TouchTyped DEF CmdReplaces, Commands, Profiles
<1>7. CASE Removes
  BY <1>7, IdleTyped, AbsentTyped DEF Removes, CmdGoes, Commands
<1>8. CASE Starts
  BY <1>8, IdleTyped, AbsentTyped DEF Starts
<1>9. CASE Deletes
  BY <1>9, FilesTyped, TouchTyped, IdleTyped DEF Deletes, Commands, Profiles
<1>10. CASE Fails
  BY <1>10, IdleTyped DEF Fails
<1> QED
  BY <1>1, <1>2, <1>3, <1>4, <1>5, <1>6, <1>7, <1>8, <1>9, <1>10 DEF CommandStep

LEMMA ServiceTyped ==
    ASSUME TypeOK, ServiceStep
    PROVE  TypeOK'
<1> USE DEF TypeOK
<1>1. CASE Loads
  <2>1. Loadable \subseteq Profiles
    BY DEF Loadable, Newest, Profiles
  <2> QED
    BY <1>1, <2>1 DEF Loads, Services
<1>2. CASE SvcCreates
  BY <1>2, FilesTyped DEF SvcCreates, SvcGoes, Services, Profiles
<1>3. CASE SvcCopies
  BY <1>3, FilesTyped DEF SvcCopies, Services, Profiles
<1>4. CASE SvcLooks
  <2>1. Fresh \subseteq Keys /\ None \notin Fresh
    BY DEF Fresh
  <2>2. missed' \in BOOLEAN
    BY <1>4 DEF SvcLooks, Misses
  <2>3. \A hidden : Seen(System, hidden) \subseteq Keys
    BY DEF Seen, Scanned, Newest, WithKey, Profiles
  <2>4. /\ svc' \in Services
        /\ svc'.key # None
    <3>1. PICK k \in Keys : \E at \in {"keyed", "making"} :
              svc' = [svc EXCEPT !.key = k, !.at = at]
      BY <1>4, <2>1, <2>3 DEF SvcLooks
    <3> QED
      BY <3>1 DEF Services
  <2> QED
    BY <1>4, <2>2, <2>4 DEF SvcLooks
<1>5. CASE SvcReplaces
  BY <1>5 DEF SvcReplaces, SvcGoes, Services, Profiles
<1>6. CASE Registers
  BY <1>6 DEF Registers, Accepts, Services
<1>7. CASE Disconnects
  BY <1>7 DEF Disconnects, Services
<1>8. CASE Exits
  BY <1>8, AbsentTyped DEF Exits
<1> QED
  BY <1>1, <1>2, <1>3, <1>4, <1>5, <1>6, <1>7, <1>8 DEF ServiceStep

\* Every reachable state has the declared types.
THEOREM TypeCorrect == Spec => []TypeOK
<1>1. Init => TypeOK
  BY InitTyped
<1>2. TypeOK /\ [Next]_vars => TypeOK'
  <2> SUFFICES ASSUME TypeOK, [Next]_vars
               PROVE  TypeOK'
    OBVIOUS
  <2>1. CASE Begins
    BY <2>1, BeginsTyped
  <2>2. CASE CommandStep
    BY <2>2, CommandTyped
  <2>3. CASE ServiceStep
    BY <2>3, ServiceTyped
  <2>4. CASE UNCHANGED vars
    BY <2>4 DEF vars, TypeOK
  <2> QED
    BY <2>1, <2>2, <2>3, <2>4 DEF Next
<1> QED
  BY <1>1, <1>2, PTL DEF Spec

-----------------------------------------------------------------------------
(* Keys *)

\* While no file was missed: one user has a key at most, and none while a command is
\* about to write one; the service is about to register with the key that it would
\* find; while it makes one no server has one.
KeysAgree ==
    /\ \A u, v \in Users \cap WithKey : u = v
    /\ \A s \in Servers : bound[s] # None => Seen(System, {}) = {bound[s]}
    /\ cmd.at = "replace" => Users \cap WithKey = {}
    /\ svc.at = "keyed" => Seen(System, {}) = {svc.key}
    /\ svc.at = "making" => \A s \in Servers : bound[s] = None

KeyInv == missed \/ KeysAgree

\* The newest of at most one file.
LEMMA NewestOfOne ==
    ASSUME NEW order, NEW S, \A u, v \in S : u = v
    PROVE  Newest(order, S) = S
  BY DEF Newest

\* What LocalSystem finds when every file can be read.
LEMMA SeenByService ==
    ASSUME \A u, v \in Users \cap WithKey : u = v
    PROVE  Seen(System, {}) = IF System \in WithKey THEN {key[System]}
                              ELSE {key[u] : u \in Users \cap WithKey}
<1>1. Newest(keyed, (WithKey \cap Users) \ {}) = Users \cap WithKey
  BY NewestOfOne
<1> QED
  BY <1>1 DEF Seen, Scanned

LEMMA KeysUnchanged ==
    ASSUME UNCHANGED <<key, keyed>>
    PROVE  WithKey' = WithKey /\ Seen(System, {})' = Seen(System, {})
<1>1. WithKey' = WithKey
  BY DEF WithKey
<1>2. Newest(keyed, (WithKey \cap Users) \ {})' = Newest(keyed, (WithKey \cap Users) \ {})
  BY <1>1 DEF Newest
<1>3. Scanned({})' = Scanned({})
  BY <1>1, <1>2 DEF Scanned
<1> QED
  BY <1>1, <1>3 DEF Seen

\* Steps that touch no key, and bring nobody closer to writing or using one.
Quiet ==
    /\ UNCHANGED <<key, keyed, bound, missed>>
    /\ cmd'.at = "replace" => cmd.at = "replace"
    /\ svc'.at \in {"keyed", "making"} => svc' = svc

LEMMA QuietKeys ==
    ASSUME KeyInv, Quiet
    PROVE  KeyInv'
  BY KeysUnchanged DEF KeyInv, KeysAgree, Quiet

LEMMA QuietSteps ==
    ASSUME TypeOK,
           \/ Begins \/ Creates \/ Copies \/ Edits \/ Saves \/ Removes \/ Starts \/ Fails
           \/ Loads \/ SvcCreates \/ SvcCopies \/ Disconnects \/ Exits \/ UNCHANGED vars
    PROVE  Quiet
<1> USE DEF Quiet, TypeOK
<1>1. CASE Begins
  <2>1. cmd'.at # "replace" /\ UNCHANGED <<key, keyed, svc, bound, missed>>
    BY <1>1 DEF Begins, SetServer, FirstRun, InstallService, UninstallService, Idle
  <2> QED
    BY <2>1
<1>2. CASE Creates \/ Copies
  BY <1>2 DEF Creates, Copies, CmdGoes, Commands
<1>3. CASE Edits \/ Saves
  BY <1>3, IdleTyped DEF Edits, Saves, Commands
<1>4. CASE Removes
  BY <1>4, IdleTyped, AbsentTyped DEF Removes, CmdGoes, Commands
<1>5. CASE Starts \/ Fails
  BY <1>5, IdleTyped, AbsentTyped DEF Starts, Fails
<1>6. CASE Loads \/ SvcCreates \/ SvcCopies
  BY <1>6 DEF Loads, SvcCreates, SvcCopies, SvcGoes, Services
<1>7. CASE Disconnects \/ Exits
  BY <1>7, AbsentTyped DEF Disconnects, Exits, Services
<1>8. CASE UNCHANGED vars
  BY <1>8 DEF vars
<1> QED
  BY <1>1, <1>2, <1>3, <1>4, <1>5, <1>6, <1>7, <1>8

\* A process that found nothing although it missed no file: there is nothing.
LEMMA NothingSeen ==
    ASSUME KeysAgree, NEW p, NEW hidden, hidden \cap WithKey = {}, Seen(p, hidden) = {}
    PROVE  p \notin WithKey /\ Users \cap WithKey = {}
<1>1. (WithKey \cap Users) \ hidden = Users \cap WithKey
  OBVIOUS
<1>2. Newest(keyed, Users \cap WithKey) = Users \cap WithKey
  BY NewestOfOne DEF KeysAgree
<1>3. p \notin WithKey /\ Scanned(hidden) = {}
  BY DEF Seen
<1> QED
  BY <1>1, <1>2, <1>3 DEF Scanned

\* It finds the same whichever files that have no key it cannot read.
LEMMA SeenIsSame ==
    ASSUME NEW hidden, hidden \cap WithKey = {}
    PROVE  Seen(System, hidden) = Seen(System, {})
<1>1. (WithKey \cap Users) \ hidden = (WithKey \cap Users) \ {}
  OBVIOUS
<1> QED
  BY <1>1 DEF Seen, Scanned

LEMMA CommandKeys ==
    ASSUME TypeOK, KeyInv, ~missed, ~missed', CmdLooks \/ CmdReplaces \/ Deletes
    PROVE  KeyInv'
<1>1. KeysAgree
  BY DEF KeyInv
<1>2. CASE CmdLooks
  <2>1. WithKey' = WithKey /\ Seen(System, {})' = Seen(System, {})
    BY <1>2, KeysUnchanged DEF CmdLooks
  <2>2. cmd'.at = "replace" => Users \cap WithKey = {}
    <3>1. PICK hidden : /\ Misses(hidden)
                        /\ \/ CmdGoes("install")
                           \/ Seen(cmd.user, hidden) = {}
      BY <1>2 DEF CmdLooks
    <3>2. hidden \cap WithKey = {}
      BY <3>1 DEF Misses
    <3>3. CASE CmdGoes("install")
      BY <3>3 DEF CmdGoes, TypeOK, Commands
    <3> QED
      BY <1>1, <3>1, <3>2, <3>3, NothingSeen
  <2> QED
    BY <1>1, <1>2, <2>1, <2>2 DEF KeyInv, KeysAgree, CmdLooks
<1>3. CASE CmdReplaces
  <2>1. /\ cmd.user \in Users /\ cmd.user # System /\ Users \cap WithKey = {}
        /\ cmd.key # None
    BY <1>1, <1>3 DEF CmdReplaces, TypeOK, KeysAgree
  <2>2. WithKey' = WithKey \cup {cmd.user} /\ key'[System] = key[System]
    BY <1>3, <2>1 DEF CmdReplaces, WithKey, TypeOK, Profiles
  <2>3. Users \cap WithKey' = {cmd.user}
    BY <2>1, <2>2
  <2>4. Seen(System, {}) # {} => Seen(System, {})' = Seen(System, {})
    <3>1. Seen(System, {}) # {} => System \in WithKey
      BY <1>1, <2>1, SeenByService DEF KeysAgree
    <3>2. System \in WithKey => Seen(System, {}) = {key[System]}
      BY DEF Seen
    <3>3. System \in WithKey => Seen(System, {})' = {key[System]}
      BY <2>2 DEF Seen
    <3> QED
      BY <3>1, <3>2, <3>3
  <2>5. cmd'.at # "replace"
    BY <1>3 DEF CmdReplaces, TypeOK, Commands
  <2>6. \A k : Seen(System, {}) = {k} => Seen(System, {})' = {k}
    BY <2>4
  <2> QED
    BY <1>1, <1>3, <2>3, <2>5, <2>6 DEF KeyInv, KeysAgree, CmdReplaces
<1>4. CASE Deletes
  <2>1. cmd.user \in Users /\ key[cmd.user] = None
    BY <1>4 DEF Deletes, TypeOK
  <2>2. WithKey' = WithKey /\ key' = key
    BY <1>4, <2>1 DEF Deletes, WithKey, TypeOK, Profiles
  <2>3. Seen(System, {}) = IF System \in WithKey THEN {key[System]}
                           ELSE {key[u] : u \in Users \cap WithKey}
    BY <1>1, SeenByService DEF KeysAgree
  <2>4. Newest(keyed', (WithKey \cap Users) \ {}) = Users \cap WithKey
    BY <1>1, NewestOfOne DEF KeysAgree
  <2>5. Seen(System, {})' = Seen(System, {})
    BY <2>2, <2>3, <2>4 DEF Seen, Scanned, Newest
  <2> QED
    BY <1>1, <1>4, <2>2, <2>5, IdleTyped DEF KeyInv, KeysAgree, Deletes
<1> QED
  BY <1>2, <1>3, <1>4

LEMMA ServiceKeys ==
    ASSUME TypeOK, KeyInv, ~missed, ~missed', SvcLooks \/ SvcReplaces \/ Registers
    PROVE  KeyInv'
<1>1. KeysAgree
  BY DEF KeyInv
<1>2. CASE SvcLooks
  <2>1. WithKey' = WithKey /\ Seen(System, {})' = Seen(System, {})
    BY <1>2, KeysUnchanged DEF SvcLooks
  <2>2. PICK hidden :
            /\ Misses(hidden)
            /\ \/ \E k \in Seen(System, hidden) :
                     svc' = [svc EXCEPT !.key = k, !.at = "keyed"]
               \/ /\ Seen(System, hidden) = {}
                  /\ \E f \in Fresh : svc' = [svc EXCEPT !.key = f, !.at = "making"]
    BY <1>2 DEF SvcLooks
  <2>3. hidden \cap WithKey = {}
    BY <2>2 DEF Misses
  <2>4. Seen(System, hidden) = Seen(System, {})
    BY <2>3, SeenIsSame
  <2>5. CASE \E k \in Seen(System, hidden) : svc' = [svc EXCEPT !.key = k, !.at = "keyed"]
    <3>1. PICK k \in Seen(System, {}) : svc' = [svc EXCEPT !.key = k, !.at = "keyed"]
      BY <2>4, <2>5
    <3>2. Seen(System, {}) = {k}
      BY <1>1, <3>1, SeenByService DEF KeysAgree
    <3>3. svc'.at = "keyed" /\ svc'.key = k
      BY <3>1 DEF TypeOK, Services
    <3> QED
      BY <1>1, <1>2, <2>1, <3>2, <3>3 DEF KeyInv, KeysAgree, SvcLooks
  <2>6. CASE /\ Seen(System, hidden) = {}
             /\ \E f \in Fresh : svc' = [svc EXCEPT !.key = f, !.at = "making"]
    <3>1. svc'.at = "making"
      BY <2>6 DEF TypeOK, Services
    <3>2. \A s \in Servers : bound[s] = None
      BY <1>1, <2>4, <2>6 DEF KeysAgree
    <3> QED
      BY <1>1, <1>2, <2>1, <3>1, <3>2 DEF KeyInv, KeysAgree, SvcLooks
  <2> QED
    BY <2>2, <2>5, <2>6
<1>3. CASE SvcReplaces
  <2>1. /\ System \in Profiles /\ svc.key # None
        /\ \A s \in Servers : bound[s] = None
    BY <1>1, <1>3 DEF SvcReplaces, TypeOK, KeysAgree, Profiles
  <2>2. WithKey' = WithKey \cup {System} /\ key'[System] = svc.key
    BY <1>3, <2>1 DEF SvcReplaces, WithKey, TypeOK
  <2>3. Users \cap WithKey' = Users \cap WithKey
    BY <2>2
  <2>4. Seen(System, {})' = {svc.key}
    BY <2>2 DEF Seen
  <2>5. svc'.at = "keyed" /\ svc'.key = svc.key
    BY <1>3 DEF SvcReplaces, SvcGoes, TypeOK, Services
  <2> QED
    BY <1>1, <1>3, <2>1, <2>3, <2>4, <2>5 DEF KeyInv, KeysAgree, SvcReplaces
<1>4. CASE Registers
  <2>1. WithKey' = WithKey /\ Seen(System, {})' = Seen(System, {})
    BY <1>4, KeysUnchanged DEF Registers
  <2>2. svc'.at = "serving"
    BY <1>4 DEF Registers, TypeOK, Services
  <2>3. \A s \in Servers : bound'[s] \in {bound[s], svc.key}
    BY <1>4 DEF Registers, TypeOK
  <2>4. Seen(System, {}) = {svc.key}
    BY <1>1, <1>4 DEF KeysAgree, Registers
  <2> QED
    BY <1>1, <1>4, <2>1, <2>2, <2>3, <2>4 DEF KeyInv, KeysAgree, Registers
<1> QED
  BY <1>2, <1>3, <1>4

LEMMA KeyInvInductive ==
    ASSUME TypeOK, KeyInv, [Next]_vars
    PROVE  KeyInv'
<1>1. CASE missed'
  BY <1>1 DEF KeyInv
<1>2. CASE ~missed'
  <2>1. CASE CmdLooks \/ CmdReplaces \/ Deletes
    <3>1. ~missed
      BY <1>2, <2>1 DEF CmdLooks, CmdReplaces, Deletes, Misses
    <3> QED
      BY <1>2, <2>1, <3>1, CommandKeys
  <2>2. CASE SvcLooks \/ SvcReplaces \/ Registers
    <3>1. ~missed
      BY <1>2, <2>2 DEF SvcLooks, SvcReplaces, Registers, Misses
    <3> QED
      BY <1>2, <2>2, <3>1, ServiceKeys
  <2>3. CASE \/ Begins \/ Creates \/ Copies \/ Edits \/ Saves \/ Removes \/ Starts \/ Fails
             \/ Loads \/ SvcCreates \/ SvcCopies \/ Disconnects \/ Exits \/ UNCHANGED vars
    BY <2>3, QuietSteps, QuietKeys
  <2> QED
    BY <2>1, <2>2, <2>3 DEF Next, CommandStep, ServiceStep
<1> QED
  BY <1>1, <1>2

LEMMA InitKeyInv == Init => KeyInv
<1> SUFFICES ASSUME Init
             PROVE  KeysAgree
  BY DEF KeyInv
<1>1. WithKey = {}
  BY DEF Init, WithKey
<1> QED
  BY <1>1, IdleTyped, AbsentTyped DEF Init, KeysAgree

\* As long as no key file was deleted or could not be read, the service finds the key
\* that every server has bound the device to; one user has a key file at most.
THEOREM KeyCorrect == Spec => [](BoundKeyIsFound /\ OneUserKey)
<1>1. Init => KeyInv
  BY InitKeyInv
<1>2. TypeOK /\ KeyInv /\ [Next]_vars => KeyInv'
  BY KeyInvInductive
<1>3. KeyInv => BoundKeyIsFound /\ OneUserKey
  BY DEF KeyInv, KeysAgree, BoundKeyIsFound, OneUserKey
<1> QED
  BY TypeCorrect, <1>1, <1>2, <1>3, PTL DEF Spec

\* No second user gets a key of the own while the first one's file can be read.
THEOREM OneUserKeyCorrect == Spec => []OneUserKey
BY KeyCorrect, PTL

-----------------------------------------------------------------------------
(* Addresses *)

\* What a command under way has in hand agrees with what was chosen.
CommandAgrees ==
    /\ cmd.at \in {"create", "copy"} => chosen[cmd.user] = None
    /\ cmd.at = "save" =>
          /\ cmd.file.is = "whole"
          /\ cmd.name = "set-server" => cmd.file.url = cmd.url
          /\ cmd.name # "set-server" /\ chosen[cmd.user] # None
                => cmd.file.url = chosen[cmd.user]

AddressInv == ChosenAddressIsKept /\ CommandAgrees

\* The address u chose, if any, is in the file, or the file was torn by a save cut short.
Kept(u) ==
    chosen[u] # None =>
        \/ config[u].is = "whole" /\ config[u].url = chosen[u]
        \/ config[u].is = "torn" /\ u \in cut

\* Only the command that saves may hold the address instead of the file.
LEMMA KeptByOthers ==
    ASSUME ChosenAddressIsKept, NEW u \in Users, cmd.at # "save" \/ cmd.user # u
    PROVE  Kept(u)
  BY DEF ChosenAddressIsKept, Saving, Kept

LEMMA BeginsAddress ==
    ASSUME TypeOK, AddressInv, Begins
    PROVE  AddressInv'
<1> USE DEF TypeOK, AddressInv
<1>1. PICK u \in Users :
          \/ \E s \in Given : SetServer(u, s)
          \/ \E s \in Given \cup {None} : FirstRun(u, s)
          \/ InstallService(u) \/ UninstallService(u)
  BY DEF Begins
<1>2. /\ UNCHANGED <<config, cut>> /\ cmd.at # "save"
      /\ \A v \in Users : chosen'[v] # None => chosen'[v] = chosen[v]
  BY <1>1, IdleTyped DEF SetServer, FirstRun, InstallService, UninstallService
<1>3. ChosenAddressIsKept'
  <2>1. \A v \in Users : Kept(v)'
    BY <1>2, KeptByOthers DEF Kept
  <2> QED
    BY <2>1 DEF ChosenAddressIsKept, Kept
<1>4. cmd'.at # "save" /\ (cmd'.at \in {"create", "copy"} => chosen'[cmd'.user] = None)
  <2>0. \A v \in Users : config[v].is = "none" => chosen[v] = None
    BY DEF ChosenAddressIsKept
  <2>1. CASE \E s \in Given : SetServer(u, s)
    BY <2>0, <2>1 DEF SetServer, Idle
  <2>2. CASE \E s \in Given \cup {None} : FirstRun(u, s)
    BY <2>0, <2>2 DEF FirstRun, Idle
  <2>3. CASE InstallService(u) \/ UninstallService(u)
    BY <2>3 DEF InstallService, UninstallService, Idle
  <2> QED
    BY <1>1, <2>1, <2>2, <2>3
<1> QED
  BY <1>3, <1>4 DEF CommandAgrees

\* A command touches the file, the address and the mark of its own user alone.
LEMMA OwnAddress ==
    ASSUME TypeOK, ChosenAddressIsKept, cmd.user \in Users,
           \A v \in Users \ {cmd.user} :
               config'[v] = config[v] /\ chosen'[v] = chosen[v] /\ (v \in cut => v \in cut')
    PROVE  \A v \in Users \ {cmd.user} : Kept(v)'
  BY KeptByOthers DEF Kept

LEMMA WritesOwn ==
    ASSUME TypeOK, NEW file \in Files, cmd.user \in Users, Writes(cmd.user, file)
    PROVE  /\ config'[cmd.user] = file
           /\ \A v \in Users \ {cmd.user} : config'[v] = config[v]
  BY DEF Writes, TypeOK, Profiles

LEMMA CommandAddress ==
    ASSUME TypeOK, AddressInv, CommandStep
    PROVE  AddressInv'
<1> USE DEF TypeOK, AddressInv
<1>0. Torn.is = "torn" /\ \A s : Template(s).is = "whole" /\ Template(s).url = s
  BY DEF Torn, NoFile, Template
<1>1. CASE Creates
  <2>1. /\ cmd.user \in Users /\ cmd'.at = "copy" /\ cmd'.user = cmd.user /\ chosen' = chosen
        /\ cut' = cut \ {cmd.user} /\ chosen[cmd.user] = None
    BY <1>1 DEF Creates, CmdGoes, Commands, CommandAgrees
  <2>2. \A v \in Users \ {cmd.user} : config'[v] = config[v]
    BY <1>1, <2>1, FilesTyped, WritesOwn DEF Creates
  <2>3. ChosenAddressIsKept'
    BY <2>1, <2>2, OwnAddress DEF ChosenAddressIsKept, Kept
  <2> QED
    BY <2>1, <2>3 DEF CommandAgrees
<1>2. CASE Copies
  <2>1. /\ cmd.user \in Users /\ cmd'.at = "edit"
        /\ UNCHANGED <<chosen, cut>> /\ chosen[cmd.user] = None
    BY <1>2 DEF Copies, CmdGoes, Commands, CommandAgrees
  <2>2. PICK s \in Servers : Writes(cmd.user, Template(s))
    <3>1. cmd.url \in Servers \cup {None}
      BY DEF Commands
    <3> QED
      BY <1>2, <3>1 DEF Copies
  <2>3. \A v \in Users \ {cmd.user} : config'[v] = config[v]
    BY <2>1, <2>2, FilesTyped, WritesOwn
  <2>4. ChosenAddressIsKept'
    BY <2>1, <2>3, OwnAddress DEF ChosenAddressIsKept, Kept
  <2> QED
    BY <2>1, <2>4 DEF CommandAgrees
<1>3. CASE Edits
  <2>1. /\ cmd.user \in Users /\ cmd.user \in Profiles /\ UNCHANGED <<chosen, cut>>
        /\ config[cmd.user].is = "whole" /\ config[cmd.user] \in Files
        /\ cmd.at # "save"
    BY <1>3 DEF Edits, Profiles
  <2>2. /\ config'[cmd.user] = Torn
        /\ \A v \in Users \ {cmd.user} : config'[v] = config[v]
    BY <1>3, <2>1, FilesTyped, WritesOwn DEF Edits
  <2>3. /\ cmd'.at = "save" /\ cmd'.user = cmd.user /\ cmd'.url = cmd.url
        /\ cmd'.name = cmd.name /\ cmd'.file = Edited
    BY <1>3 DEF Edits, Commands
  <2>4. /\ Edited.is = "whole"
        /\ cmd.name = "set-server" => Edited.url = cmd.url
        /\ cmd.name # "set-server" => Edited.url = config[cmd.user].url
    BY <2>1 DEF Edited, Files
  <2>5. cmd.name # "set-server" /\ chosen[cmd.user] # None => Edited.url = chosen[cmd.user]
    BY <2>1, <2>4, KeptByOthers, <1>0 DEF Kept
  <2>6. \A v \in Users : v = cmd.user /\ chosen[v] # None => Saving(v)'
    BY <2>1, <2>3, <2>5 DEF Saving
  <2>7. \A v \in Users \ {cmd.user} : Kept(v)'
    BY <2>1, <2>2, OwnAddress
  <2>8. ASSUME NEW v \in Users, chosen'[v] # None
        PROVE  \/ config'[v].is = "whole" /\ config'[v].url = chosen'[v]
               \/ config'[v].is = "torn" /\ (v \in cut' \/ Saving(v)')
    <3>1. CASE v = cmd.user
      BY <1>0, <2>1, <2>2, <2>6, <2>8, <3>1
    <3>2. CASE v # cmd.user
      BY <2>7, <2>8, <3>2 DEF Kept
    <3> QED
      BY <3>1, <3>2
  <2>9. ChosenAddressIsKept'
    BY <2>8 DEF ChosenAddressIsKept
  <2> QED
    BY <2>1, <2>3, <2>4, <2>5, <2>9 DEF CommandAgrees
<1>4. CASE Saves
  <2>1. /\ cmd.user \in Users /\ cmd.file \in Files /\ cmd.file.is = "whole"
        /\ Writes(cmd.user, cmd.file) /\ cut' = cut
    BY <1>4 DEF Saves, Commands, CommandAgrees
  <2>2. cmd'.at \in {"none", "key"}
    BY <1>4, IdleTyped DEF Saves, Commands
  <2>3. /\ chosen'[cmd.user] \in {None, cmd.file.url}
        /\ \A v \in Users \ {cmd.user} : chosen'[v] = chosen[v]
    BY <1>4, <2>1 DEF Saves, CommandAgrees
  <2>4. /\ config'[cmd.user] = cmd.file
        /\ \A v \in Users \ {cmd.user} : config'[v] = config[v]
    BY <2>1, WritesOwn
  <2>5. ChosenAddressIsKept'
    BY <2>1, <2>3, <2>4, OwnAddress DEF ChosenAddressIsKept, Kept
  <2> QED
    BY <2>2, <2>5 DEF CommandAgrees
<1>5. CASE CmdLooks \/ CmdReplaces \/ Removes \/ Starts
  <2>1. UNCHANGED <<config, chosen, cut>> /\ cmd.at # "save"
    BY <1>5 DEF CmdLooks, CmdReplaces, Removes, Starts
  <2>2. cmd'.at \notin {"create", "copy", "save"}
    <3>1. CASE CmdLooks
      BY <3>1 DEF CmdLooks, CmdGoes, Commands
    <3>2. CASE CmdReplaces
      BY <3>2 DEF CmdReplaces, Commands
    <3>3. CASE Removes
      BY <3>3, IdleTyped DEF Removes, CmdGoes, Commands
    <3>4. CASE Starts
      BY <3>4, IdleTyped DEF Starts
    <3> QED
      BY <1>5, <3>1, <3>2, <3>3, <3>4
  <2>3. ChosenAddressIsKept'
    BY <2>1, KeptByOthers DEF ChosenAddressIsKept, Kept
  <2> QED
    BY <2>2, <2>3 DEF CommandAgrees
<1>6. CASE Deletes
  <2>1. /\ cmd.user \in Users /\ cmd' = Idle /\ chosen'[cmd.user] = None
        /\ \A v \in Users \ {cmd.user} :
              chosen'[v] = chosen[v] /\ config'[v] = config[v] /\ (v \in cut => v \in cut')
    BY <1>6 DEF Deletes, Profiles
  <2>2. ChosenAddressIsKept'
    BY <2>1, OwnAddress DEF ChosenAddressIsKept, Kept
  <2> QED
    BY <2>1, <2>2, IdleTyped DEF CommandAgrees
\* Cut short in the save, the command leaves the file to the mark.
<1>7. CASE Fails
  <2>1. /\ cmd.user \in Users /\ cmd' = Idle /\ UNCHANGED <<config, chosen>>
        /\ cut \subseteq cut' /\ (cmd.at = "save" => cmd.user \in cut')
    BY <1>7 DEF Fails
  <2>2. ASSUME NEW v \in Users, v = cmd.user
        PROVE  Kept(v)'
    <3>1. chosen[v] # None =>
             \/ config[v].is = "whole" /\ config[v].url = chosen[v]
             \/ config[v].is = "torn" /\ (v \in cut \/ cmd.at = "save")
      BY DEF ChosenAddressIsKept, Saving
    <3> QED
      BY <2>1, <2>2, <3>1 DEF Kept
  <2>3. \A v \in Users \ {cmd.user} : Kept(v)'
    BY <2>1, OwnAddress
  <2>4. \A v \in Users : Kept(v)'
    BY <2>2, <2>3
  <2>5. ChosenAddressIsKept'
    BY <2>4 DEF ChosenAddressIsKept, Kept
  <2> QED
    BY <2>1, <2>5, IdleTyped DEF CommandAgrees
<1> QED
  BY <1>1, <1>2, <1>3, <1>4, <1>5, <1>6, <1>7 DEF CommandStep

LEMMA ServiceAddress ==
    ASSUME TypeOK, AddressInv, ServiceStep \/ UNCHANGED vars
    PROVE  AddressInv'
<1>1. UNCHANGED <<cmd, chosen, cut>> /\ \A u \in Users : config'[u] = config[u]
  BY DEF ServiceStep, Loads, SvcCreates, SvcCopies, SvcLooks, SvcReplaces, Registers,
         Disconnects, Exits, vars, TypeOK, Profiles
<1> QED
  BY <1>1 DEF AddressInv, ChosenAddressIsKept, Saving, CommandAgrees

\* The address that a user gave to set-server is kept by every other command, until a
\* configuration is given explicitly or the device is uninstalled, with one exception:
\* a command that was cut short in its save left the file torn.  A file that is whole
\* has the address, and the file is there.
THEOREM AddressCorrect == Spec => []ChosenAddressIsKept
<1>1. Init => AddressInv
  BY IdleTyped DEF Init, AddressInv, ChosenAddressIsKept, CommandAgrees
<1>2. TypeOK /\ AddressInv /\ [Next]_vars => AddressInv'
  BY BeginsAddress, CommandAddress, ServiceAddress DEF Next
<1>3. AddressInv => ChosenAddressIsKept
  BY DEF AddressInv
<1> QED
  BY TypeCorrect, <1>1, <1>2, <1>3, PTL DEF Spec

=============================================================================
