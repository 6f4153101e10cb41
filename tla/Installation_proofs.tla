------------------------ MODULE Installation_proofs ------------------------
(***************************************************************************)
(* What commands leave behind, for any number of edits between them:       *)
(* nothing that the journal cannot undo, no route to a unit that is being  *)
(* stopped, the administrator's edits, a site that nginx can load, and the *)
(* initial password in its place.                                          *)
(*                                                                         *)
(* The invariant has a line for each point of a command at which a crash   *)
(* would leave something: what is in the site, the snippet and nginx then. *)
(***************************************************************************)
EXTENDS Installation, TLAPS

Running(ops) == cmd # None /\ cmd.op \in ops

TypeInv ==
  /\ file \in Text /\ wanted \in 0 .. MaxEdits
  /\ journal # None => journal.original \in Text
  /\ cmd # None => {"op", "pc"} \subseteq DOMAIN cmd
  /\ Running({"install"}) => "next" \in DOMAIN cmd /\ cmd.next \in {"return", "domain"}
  /\ Running({"connect", "disconnect"}) =>
       /\ {"original", "current", "owned", "next"} \subseteq DOMAIN cmd
       /\ cmd.original \in Text /\ cmd.current \in Text

(* Only a takeover that is in the journal has a block or a snippet.        *)
TraceInv ==
  /\ journal = None => ~file.managed /\ snippet = None /\ ~routed
  /\ journal # None => ~journal.original.managed
  /\ Running({"connect", "disconnect"}) =>
       ~cmd.original.managed /\ snippet \in {None, "ours"}

ConnectInv ==
  Running({"connect"}) =>
    /\ cmd.next \in {"return", "domain"}
    /\ cmd.pc = "prepare" \/ journal # None
    /\ cmd.pc \in {"undo snippet", "undo apply", "forget"} => ~file.managed
    /\ cmd.pc \in {"undo apply", "forget"} => snippet = None
    /\ cmd.pc = "forget" => ~routed

DisconnectInv ==
  Running({"disconnect"}) =>
    /\ journal # None /\ cmd.next \in {"return", "service-stop", "uninstall"}
    /\ cmd.pc \in {"restore", "drop"} => cmd.owned = (snippet # None)
    /\ cmd.pc \in {"drop", "apply", "detach"} => ~file.managed
    /\ cmd.pc \in {"apply", "detach"} => snippet = None
    /\ cmd.pc = "detach" => ~routed

StopInv == Running({"service-stop", "uninstall"}) => journal = None

TakeoverInv == TypeInv /\ TraceInv /\ ConnectInv /\ DisconnectInv /\ StopInv

(* What a command carries, and what it does to the console's site: a site   *)
(* that is live, or that a command may put there, has its certificate.     *)
ConsoleInv ==
  /\ console = "live" => certified
  /\ Running({"domain"}) /\ cmd.pc # "start" =>
       /\ {"site", "old"} \subseteq DOMAIN cmd
       /\ cmd.site \in {"pending", "live"} /\ cmd.old \in {None, "pending", "live"}
       /\ cmd.site = "live" \/ cmd.old = "live" => certified

NextInv ==
  /\ Running({"connect"}) => cmd.next \in {"return", "domain"}
  /\ Running({"disconnect"}) => cmd.next \in {"return", "service-stop", "uninstall"}

UnitTypes ==
  /\ unit \in BOOLEAN /\ service \in {"up", "down"}
  /\ config \in {None, "unsaved", "saved", "chosen"} /\ initial \subseteq {"home", "root"}

StateInv == TypeInv /\ TakeoverTypeOK /\ UnitTypes /\ NextInv /\ ConsoleInv

(* The texts that a command may put back contain the last edit, and its    *)
(* block is not in the site without the snippet that it needs.             *)
ChangesInv ==
  /\ ManualChangesKept
  /\ Running({"connect", "disconnect"}) => cmd.original.edit = wanted
  /\ Running({"disconnect"}) => cmd.current.edit = wanted
  /\ Running({"connect"}) /\ cmd.pc \in {"site", "apply", "confirm"} => snippet = "ours"

PasswordInv ==
  /\ PasswordKept
  /\ unit \/ service = "up" => config # None
  /\ cmd # None => {"op", "pc"} \subseteq DOMAIN cmd
  /\ Running({"install"}) =>
       /\ cmd.pc = "password" => ~unit /\ service # "up"
       /\ cmd.pc \in {"copy", "unlink", "unit", "enable"} => config # None
       /\ cmd.pc = "unlink" => "root" \in initial
       /\ cmd.pc \in {"unit", "enable"} => "home" \notin initial

-----------------------------------------------------------------------------
(* The command that Then begins. *)
LEMMA ThenBegins ==
  ASSUME NEW next \in {"return", "domain", "service-stop", "uninstall"}, Then(next) # None
  PROVE  /\ next # "return" /\ Then(next).op = next /\ Then(next).pc = "start"
         /\ {"op", "pc"} \subseteq DOMAIN Then(next)
  BY DEF Then

(* A step of connect or disconnect, one case per file operation. *)
LEMMA TakeoverKeeps ==
  ASSUME ~EditsDuringCommands, TakeoverInv, TakeoverStep, UNCHANGED <<consoleVars, unitVars>>
  PROVE  TakeoverInv'
<1> USE TakeoverAssumption, NoneAssumption
    DEF TakeoverInv, TypeInv, TraceInv, ConnectInv, DisconnectInv, StopInv, Running, Text,
        Updated, Applied, ApplyFails, Unlock, At, Goto
<1> DEFINE entry(phase) == [phase |-> phase, original |-> cmd.original]
<1>0. Running({"connect"}) =>
        \A phase \in {"prepared", "connected"} : entry(phase) # None /\ entry(phase).original = cmd.original
  <2> SUFFICES ASSUME Running({"connect"}), NEW phase \in {"prepared", "connected"}
               PROVE  entry(phase) # None /\ entry(phase).original = cmd.original
    OBVIOUS
  <2>1. entry(phase) \in [phase : {"prepared", "connected"}, original : Text]
    OBVIOUS
  <2>2. QED  BY <2>1
<1>1. CASE Prepare
  BY <1>0, <1>1 DEF Prepare
<1>2. CASE WriteSnippet
  BY <1>2 DEF WriteSnippet
<1>3. CASE WriteSite
  BY <1>3 DEF WriteSite
<1>4. CASE ApplyTakeover
  BY <1>4 DEF ApplyTakeover
<1>5. CASE Confirm
  <2>1. CASE /\ journal' = entry("connected")
            /\ cmd' = Then(cmd.next) /\ lock' = FALSE
    <3>1. journal' # None /\ journal'.original = cmd.original
      BY <1>0, <1>5, <2>1 DEF Confirm
    <3>2. QED  BY <1>5, <2>1, <3>1, ThenBegins DEF Confirm
  <2>2. CASE UNCHANGED journal /\ Goto("undo site")
    BY <1>5, <2>2 DEF Confirm
  <2>3. QED  BY <1>5, <2>1, <2>2 DEF Confirm
<1>6. CASE UndoSite
  BY <1>6 DEF UndoSite
<1>7. CASE UndoSnippet
  BY <1>7 DEF UndoSnippet
<1>8. CASE ApplyUndo
  BY <1>8 DEF ApplyUndo
<1>9. CASE Forget
  BY <1>9 DEF Forget
<1>10. CASE RestoreSite
  BY <1>10 DEF RestoreSite
<1>11. CASE DropSnippet
  BY <1>11 DEF DropSnippet
<1>12. CASE ApplyRestored
  BY <1>12 DEF ApplyRestored
<1>13. CASE Detach
  <2>1. CASE journal' = None /\ cmd' = Then(cmd.next)
    BY <1>13, <2>1, ThenBegins DEF Detach
  <2>2. CASE cmd' = None /\ UNCHANGED journal
    BY <1>13, <2>2 DEF Detach
  <2>3. QED  BY <1>13, <2>1, <2>2 DEF Detach
<1>14. CASE RedoSite
  BY <1>14 DEF RedoSite
<1>15. CASE RedoSnippet
  BY <1>15 DEF RedoSnippet
<1>16. QED
  BY <1>1, <1>2, <1>3, <1>4, <1>5, <1>6, <1>7, <1>8, <1>9, <1>10, <1>11, <1>12, <1>13, <1>14, <1>15 DEF TakeoverStep

(* The steps of the other commands leave files and journal alone. *)
LEMMA CommandsKeep ==
  ASSUME ~EditsDuringCommands, TakeoverInv, InstallStep \/ ServiceStep
  PROVE  TakeoverInv'
<1> USE TakeoverAssumption, NoneAssumption
    DEF TakeoverInv, TypeInv, TraceInv, ConnectInv, DisconnectInv, StopInv, Running, Text,
        At, Goto, Done, Untouched
<1>1. CASE Install
  BY <1>1 DEF Install
<1>2. CASE WriteConfig
  BY <1>2 DEF WriteConfig
<1>3. CASE WritePassword
  BY <1>3 DEF WritePassword
<1>4. CASE CopyPassword
  BY <1>4 DEF CopyPassword
<1>5. CASE UnlinkPassword
  BY <1>5 DEF UnlinkPassword
<1>6. CASE WriteUnit
  BY <1>6 DEF WriteUnit
<1>7. CASE EnableService
  BY <1>7, ThenBegins DEF EnableService
<1>8. CASE ChangePassword
  BY <1>8 DEF ChangePassword, takeoverVars
<1>9. CASE StartService
  BY <1>9 DEF StartService, takeoverVars
<1>10. CASE StopService
  BY <1>10 DEF StopService
<1>11. CASE RemoveUnit
  BY <1>11 DEF RemoveUnit
<1>12. CASE ConnectNginx
  <2> PICK next \in {"return", "domain"} : Connect(next)
    BY <1>12 DEF ConnectNginx
  <2>1. /\ journal = None /\ snippet = None /\ ~file.managed
        /\ cmd' = [op |-> "connect", pc |-> "prepare", original |-> file, current |-> file,
                   owned |-> FALSE, next |-> next]
        /\ Untouched
    BY DEF Connect
  <2>2. QED  BY <2>1
<1>13. CASE DisconnectNginx
  <2> PICK next \in {"return", "service-stop", "uninstall"} :
           NothingToDisconnect(next) \/ Disconnect(next)
    BY <1>13 DEF DisconnectNginx
  <2>1. CASE NothingToDisconnect(next)
    BY <2>1, ThenBegins DEF NothingToDisconnect
  <2>2. CASE Disconnect(next)
    BY <2>2 DEF Disconnect, Begin
  <2>3. QED  BY <2>1, <2>2
<1>14. QED
  BY <1>1, <1>2, <1>3, <1>4, <1>5, <1>6, <1>7, <1>8, <1>9, <1>10, <1>11, <1>12, <1>13 DEF InstallStep, ServiceStep

(* Only the reload of a new console site touches nginx. *)
LEMMA DomainKeeps ==
  ASSUME ~EditsDuringCommands, TakeoverInv, DomainStep
  PROVE  TakeoverInv'
<1> USE TakeoverAssumption, NoneAssumption
    DEF TakeoverInv, TypeInv, TraceInv, ConnectInv, DisconnectInv, StopInv, Running, Text,
        At, Goto, Done, Untouched, Putting, Applied, ApplyFails
<1>1. CASE SetUpDomain
  BY <1>1 DEF SetUpDomain
<1>2. CASE PutSite
  BY <1>2 DEF PutSite
<1>3. CASE ApplySite
  <2>1. CASE Applied /\ IF cmd.site = "pending" /\ cmd.issue THEN Goto("certbot") ELSE Done
    BY <1>3, <2>1 DEF ApplySite
  <2>2. CASE ApplyFails /\ Goto("restore")
    BY <1>3, <2>2 DEF ApplySite
  <2>3. QED  BY <1>3, <2>1, <2>2 DEF ApplySite
<1>4. CASE RestoreConsole
  BY <1>4 DEF RestoreConsole
<1>5. CASE Certbot
  BY <1>5 DEF Certbot
<1>6. QED  BY <1>1, <1>2, <1>3, <1>4, <1>5 DEF DomainStep

(* A new text of the site, with or without the takeover's block. *)
LEMMA EditedText ==
  ASSUME file \in Text, NEW edit \in 0 .. MaxEdits, NEW managed \in {FALSE, file.managed}
  PROVE  [edit |-> edit, managed |-> managed] \in Text
<1>1. CASE managed = FALSE
  BY <1>1 DEF Text
<1>2. CASE managed = file.managed
  BY <1>2 DEF Text
<1>3. QED  BY <1>1, <1>2

(* There is room for another edit below the bound.                         *)
LEMMA NextEdit ==
  ASSUME wanted \in 0 .. MaxEdits, wanted < MaxEdits PROVE wanted + 1 \in 0 .. MaxEdits
BY TakeoverAssumption

(* The administrator edits between commands, never a block into the site.  *)
LEMMA OutsideKeeps ==
  ASSUME ~EditsDuringCommands, TakeoverInv, Outside, UNCHANGED <<consoleVars, unitVars>>
  PROVE  TakeoverInv'
<1> USE TakeoverAssumption, NoneAssumption
    DEF TakeoverInv, TypeInv, TraceInv, ConnectInv, DisconnectInv, StopInv, Running, Text, Updated
<1>1. CASE EditSite
  <2>0. cmd = None /\ cmd' = None /\ UNCHANGED <<snippet, journal, routed>>
    BY <1>1 DEF EditSite
  <2>1. CASE /\ wanted < MaxEdits /\ wanted' = wanted + 1
            /\ \E managed \in {FALSE, file.managed} : file' = [edit |-> wanted', managed |-> managed]
    <3>1. PICK managed \in {FALSE, file.managed} : file' = [edit |-> wanted', managed |-> managed]
      BY <2>1
    <3>2. wanted' \in 0 .. MaxEdits
      BY <2>1, NextEdit
    <3>3. file' \in Text
      BY <3>1, <3>2, EditedText
    <3>4. file'.managed = managed /\ (~file.managed => ~managed)
      BY <3>1
    <3>5. QED  BY <2>0, <2>1, <3>2, <3>3, <3>4
  <2>2. CASE /\ journal # None /\ wanted' = journal.original.edit
            /\ file' \in {journal.original, Updated(journal.original)}
    BY <2>0, <2>2
  <2>3. QED  BY <1>1, <2>1, <2>2 DEF EditSite
<1>2. CASE EditSnippet
  BY <1>2 DEF EditSnippet
<1>3. CASE NginxReloads
  BY <1>3 DEF NginxReloads
<1>4. CASE Crash
  BY <1>4 DEF Crash
<1>5. CASE RemoveLock
  BY <1>5 DEF RemoveLock
<1>6. QED  BY <1>1, <1>2, <1>3, <1>4, <1>5 DEF Outside

(* What the takeover commands leave at every point, if nobody edits        *)
(* meanwhile.                                                              *)
LEMMA TakeoverInvHolds ==
  ASSUME ~EditsDuringCommands PROVE Spec => []TakeoverInv
<1>1. Init => TakeoverInv
  BY TakeoverAssumption
  DEF Init, TakeoverInit, TakeoverInv, TypeInv, TraceInv, ConnectInv, DisconnectInv, StopInv,
      Running, Text
<1>2. TakeoverInv /\ [Next]_vars => TakeoverInv'
  <2>1. ASSUME TakeoverInv, UNCHANGED vars PROVE TakeoverInv'
    BY <2>1 DEF vars, takeoverVars, TakeoverInv, TypeInv, TraceInv, ConnectInv, DisconnectInv,
           StopInv, Running, Text
  <2>2. QED
    BY <2>1, TakeoverKeeps, CommandsKeep, DomainKeeps, OutsideKeeps DEF Next
<1>3. QED  BY <1>1, <1>2, PTL DEF Spec
-----------------------------------------------------------------------------
(* What disconnect and the handler of a failed connect leave: without the  *)
(* journal there is nothing of a takeover, on disk or in nginx.            *)
THEOREM NoTraceLeft ==
  ASSUME ~EditsDuringCommands PROVE Spec => []NoTraceWithoutJournal
<1>1. TakeoverInv => NoTraceWithoutJournal
  BY NoneAssumption DEF TakeoverInv, TraceInv, NoTraceWithoutJournal
<1>2. QED  BY <1>1, TakeoverInvHolds, PTL

(* service-stop and uninstall stop the unit after the route to it: only    *)
(* StopService lowers it, and there the journal is gone.                   *)
THEOREM StoppedUnrouted ==
  ASSUME ~EditsDuringCommands PROVE Spec => StopsUnrouted
<1>1. TakeoverInv /\ [Next]_vars => [service = "up" /\ service' = "down" => ~routed]_vars
  <2> SUFFICES ASSUME TakeoverInv, Next, service = "up", service' = "down" PROVE ~routed
    OBVIOUS
  <2>1. CASE InstallStep
    BY <2>1 DEF InstallStep, Install, WriteConfig, WritePassword, CopyPassword, UnlinkPassword,
           WriteUnit, EnableService, ConnectNginx, unitVars
  <2>2. CASE ChangePassword \/ StartService \/ DisconnectNginx \/ RemoveUnit
    BY <2>2 DEF ChangePassword, StartService, DisconnectNginx, RemoveUnit, unitVars
  <2>3. CASE StopService
    BY <2>3 DEF StopService, At, TakeoverInv, StopInv, TraceInv, Running
  <2>4. CASE DomainStep
    BY <2>4 DEF DomainStep, SetUpDomain, PutSite, ApplySite, RestoreConsole, Certbot, unitVars
  <2>5. CASE UNCHANGED unitVars
    BY <2>5 DEF unitVars
  <2>6. QED  BY <2>1, <2>2, <2>3, <2>4, <2>5 DEF Next, ServiceStep
<1>2. QED  BY <1>1, TakeoverInvHolds, PTL DEF Spec, StopsUnrouted

-----------------------------------------------------------------------------
(* A step that leaves configuration and unit alone, and after which no     *)
(* install has begun its work, keeps the password where it is.             *)
LEMMA PasswordUntouched ==
  ASSUME PasswordInv, UNCHANGED unitVars,
         cmd' # None => /\ {"op", "pc"} \subseteq DOMAIN cmd'
                        /\ cmd'.op # "install" \/ cmd'.pc = "start"
  PROVE  PasswordInv'
BY DEF PasswordInv, PasswordKept, Running, unitVars

(* Every step keeps what install knows of the password, with edits at any  *)
(* time.                                                                   *)
LEMMA PasswordStepKeeps ==
  ASSUME PasswordInv, [Next]_vars PROVE PasswordInv'
<1> USE DEF PasswordInv, PasswordKept, Running, At, Goto, Done, unitVars
<1>1. CASE UNCHANGED vars
  BY <1>1 DEF vars, takeoverVars
<1>2. CASE InstallStep
  <2>1. CASE Install
    BY <2>1 DEF Install
  <2>2. CASE WriteConfig
    BY <2>2, NoneAssumption DEF WriteConfig, MadeConfig
  <2>3. CASE WritePassword
    BY <2>3, NoneAssumption DEF WritePassword
  <2>4. CASE CopyPassword
    BY <2>4 DEF CopyPassword
  <2>5. CASE UnlinkPassword
    BY <2>5 DEF UnlinkPassword
  <2>6. CASE WriteUnit
    BY <2>6 DEF WriteUnit
  <2>7. CASE EnableService
    BY <2>7 DEF EnableService, Then
  <2>8. CASE ConnectNginx
    BY <2>8 DEF ConnectNginx, Connect
  <2>9. QED  BY <1>2, <2>1, <2>2, <2>3, <2>4, <2>5, <2>6, <2>7, <2>8 DEF InstallStep
<1>3. CASE ServiceStep
  <2>1. CASE ChangePassword
    BY <2>1, NoneAssumption DEF ChangePassword, takeoverVars
  <2>2. CASE StartService
    BY <2>2 DEF StartService, takeoverVars
  <2>3. CASE DisconnectNginx
    BY <2>3 DEF DisconnectNginx, NothingToDisconnect, Disconnect, Begin, Then
  <2>4. CASE StopService
    BY <2>4 DEF StopService
  <2>5. CASE RemoveUnit
    BY <2>5 DEF RemoveUnit
  <2>6. QED  BY <1>3, <2>1, <2>2, <2>3, <2>4, <2>5 DEF ServiceStep
<1>4. CASE DomainStep
  <2>1. CASE SetUpDomain
    BY <2>1 DEF SetUpDomain, Putting
  <2>2. CASE PutSite \/ ApplySite \/ RestoreConsole
    BY <2>2 DEF PutSite, ApplySite, RestoreConsole
  <2>3. CASE Certbot
    BY <2>3 DEF Certbot, Putting
  <2>4. QED  BY <1>4, <2>1, <2>2, <2>3 DEF DomainStep
<1>5. CASE TakeoverStep /\ UNCHANGED unitVars
  <2>1. /\ cmd # None /\ cmd.op \in {"connect", "disconnect"}
        /\ \/ cmd' \in {None, Then(cmd.next)}
           \/ DOMAIN cmd' = DOMAIN cmd /\ cmd'.op = cmd.op
    BY <1>5 DEF TakeoverStep, Prepare, WriteSnippet, WriteSite, ApplyTakeover, Confirm, UndoSite,
           UndoSnippet, ApplyUndo, Forget, RestoreSite, DropSnippet, ApplyRestored, Detach,
           RedoSite, RedoSnippet, Unlock
  <2>2. QED  BY <1>5, <2>1, PasswordUntouched DEF Then
<1>6. CASE Outside /\ UNCHANGED unitVars
  BY <1>6 DEF Outside, EditSite, EditSnippet, NginxReloads, Crash, RemoveLock
<1>7. QED  BY <1>1, <1>2, <1>3, <1>4, <1>5, <1>6 DEF Next

(* However often install is begun, ended or killed, the initial password   *)
(* is kept, and not where the service's user could replace it.             *)
THEOREM PasswordStays == Spec => []PasswordKept
<1>1. Init => PasswordInv
  BY NoneAssumption DEF Init, TakeoverInit, PasswordInv, PasswordKept, Running
<1>2. PasswordInv /\ [Next]_vars => PasswordInv'
  BY PasswordStepKeeps
<1>3. PasswordInv => PasswordKept
  BY DEF PasswordInv
<1>4. QED  BY <1>1, <1>2, <1>3, PTL DEF Spec

-----------------------------------------------------------------------------
(* What a command carries and what the files can be: every step keeps it,  *)
(* whenever the administrator edits.                                       *)

(* A step of connect or disconnect. *)
LEMMA TakeoverTypes ==
  ASSUME StateInv, TakeoverStep, UNCHANGED <<consoleVars, unitVars>> PROVE StateInv'
<1>1. Running({"connect", "disconnect"}) /\ lock /\ wanted' = wanted
  BY DEF StateInv, TakeoverTypeOK, Running, At, TakeoverStep, Prepare, WriteSnippet, WriteSite, ApplyTakeover,
         Confirm, UndoSite, UndoSnippet, ApplyUndo, Forget, RestoreSite, DropSnippet, ApplyRestored, Detach,
         RedoSite, RedoSnippet
<1>2. file' \in Text /\ file \in Text
  BY <1>1 DEF StateInv, TypeInv, Running, Text, Updated, TakeoverStep, Prepare, WriteSnippet, WriteSite,
         ApplyTakeover, Confirm, UndoSite, UndoSnippet, ApplyUndo, Forget, RestoreSite, DropSnippet,
         ApplyRestored, Detach, RedoSite, RedoSnippet
<1>3. snippet' \in {None, "ours", "theirs"}
  BY DEF StateInv, TakeoverTypeOK, TakeoverStep, Prepare, WriteSnippet, WriteSite, ApplyTakeover,
         Confirm, UndoSite, UndoSnippet, ApplyUndo, Forget, RestoreSite, DropSnippet, ApplyRestored, Detach,
         RedoSite, RedoSnippet
<1>4. journal' \in {None} \cup [phase : {"prepared", "connected"}, original : Text]
  <2>1. cmd.original \in Text /\ journal \in {None} \cup [phase : {"prepared", "connected"}, original : Text]
    BY <1>1 DEF StateInv, TypeInv, TakeoverTypeOK, Running
  <2>2. journal' \in {None, journal, [phase |-> "prepared", original |-> cmd.original],
                      [phase |-> "connected", original |-> cmd.original]}
    BY DEF TakeoverStep, Prepare, WriteSnippet, WriteSite, ApplyTakeover, Confirm, UndoSite, UndoSnippet,
           ApplyUndo, Forget, RestoreSite, DropSnippet, ApplyRestored, Detach, RedoSite, RedoSnippet
  <2>3. QED  BY <2>1, <2>2
<1>5. routed' \in {routed, file.managed}
  BY DEF Applied, ApplyFails, TakeoverStep, Prepare, WriteSnippet, WriteSite, ApplyTakeover, Confirm, UndoSite,
         UndoSnippet, ApplyUndo, Forget, RestoreSite, DropSnippet, ApplyRestored, Detach, RedoSite, RedoSnippet
<1>6. \/ cmd' = None /\ lock' = FALSE
      \/ cmd' = Then(cmd.next) /\ lock' = FALSE
      \/ \E pc : cmd' = [cmd EXCEPT !.pc = pc] /\ lock' = lock
  BY DEF Unlock, Goto, TakeoverStep, Prepare, WriteSnippet, WriteSite, ApplyTakeover, Confirm, UndoSite,
         UndoSnippet, ApplyUndo, Forget, RestoreSite, DropSnippet, ApplyRestored, Detach, RedoSite, RedoSnippet
<1>7. {lock', routed'} \subseteq BOOLEAN
  <2>1. routed' \in BOOLEAN
    BY <1>2, <1>5 DEF StateInv, TakeoverTypeOK, Text
  <2>2. lock' \in BOOLEAN
    BY <1>1, <1>6 DEF StateInv, TakeoverTypeOK
  <2>3. QED  BY <2>1, <2>2
<1>8. /\ cmd' # None => {"op", "pc"} \subseteq DOMAIN cmd'
      /\ Running({"install"})' => "next" \in DOMAIN cmd' /\ cmd'.next \in {"return", "domain"}
      /\ Running({"connect", "disconnect"})' =>
           /\ {"original", "current", "owned", "next"} \subseteq DOMAIN cmd'
           /\ cmd'.original \in Text /\ cmd'.current \in Text /\ lock'
      /\ NextInv'
      /\ Running({"domain"})' => cmd'.pc = "start"
  <2>1. CASE cmd' = None
    BY <2>1 DEF NextInv, Running
  <2>2. CASE cmd' = Then(cmd.next) /\ cmd' # None
    BY <1>1, <2>2, ThenBegins DEF StateInv, NextInv, Running
  <2>3. CASE \E pc : cmd' = [cmd EXCEPT !.pc = pc] /\ lock' = lock
    BY <1>1, <2>3 DEF StateInv, TypeInv, NextInv, Running
  <2>4. QED  BY <1>6, <2>1, <2>2, <2>3
<1>9. TypeInv'
  BY <1>1, <1>2, <1>4, <1>8 DEF StateInv, TypeInv
<1>10. TakeoverTypeOK'
  BY <1>1, <1>2, <1>3, <1>4, <1>7, <1>8 DEF StateInv, TypeInv, TakeoverTypeOK, Running, consoleVars
<1>11. UnitTypes' /\ ConsoleInv'
  BY <1>8 DEF StateInv, UnitTypes, ConsoleInv, consoleVars, unitVars
<1>12. QED
  BY <1>8, <1>9, <1>10, <1>11 DEF StateInv

(* A step of another command. *)
LEMMA CommandTypes ==
  ASSUME StateInv, InstallStep \/ ServiceStep PROVE StateInv'
<1> USE TakeoverAssumption, NoneAssumption
    DEF StateInv, TypeInv, TakeoverTypeOK, UnitTypes, NextInv, ConsoleInv, Running, Text,
        At, Goto, Done, Untouched, consoleVars, unitVars
<1>1. CASE Install
  BY <1>1 DEF Install
<1>2. CASE WriteConfig
  BY <1>2 DEF WriteConfig, MadeConfig
<1>3. CASE WritePassword
  BY <1>3 DEF WritePassword
<1>4. CASE CopyPassword
  BY <1>4 DEF CopyPassword
<1>5. CASE UnlinkPassword
  BY <1>5 DEF UnlinkPassword
<1>6. CASE WriteUnit
  BY <1>6 DEF WriteUnit
<1>7. CASE EnableService
  BY <1>7, ThenBegins DEF EnableService
<1>8. CASE ChangePassword
  BY <1>8 DEF ChangePassword, takeoverVars
<1>9. CASE StartService
  BY <1>9 DEF StartService, takeoverVars
<1>10. CASE StopService
  BY <1>10 DEF StopService
<1>11. CASE RemoveUnit
  BY <1>11 DEF RemoveUnit
<1>12. CASE ConnectNginx
  <2> PICK next \in {"return", "domain"} : Connect(next)
    BY <1>12 DEF ConnectNginx
  <2>1. /\ cmd' = [op |-> "connect", pc |-> "prepare", original |-> file, current |-> file,
                   owned |-> FALSE, next |-> next]
        /\ lock' = TRUE /\ Untouched
    BY DEF Connect
  <2>2. QED  BY <1>12, <2>1 DEF ConnectNginx
<1>13. CASE DisconnectNginx
  <2> PICK next \in {"return", "service-stop", "uninstall"} :
           NothingToDisconnect(next) \/ Disconnect(next)
    BY <1>13 DEF DisconnectNginx
  <2>1. CASE NothingToDisconnect(next)
    BY <1>13, <2>1, ThenBegins DEF NothingToDisconnect, DisconnectNginx
  <2>2. CASE Disconnect(next)
    BY <1>13, <2>2 DEF Disconnect, Begin, DisconnectNginx
  <2>3. QED  BY <2>1, <2>2
<1>14. QED
  BY <1>1, <1>2, <1>3, <1>4, <1>5, <1>6, <1>7, <1>8, <1>9, <1>10, <1>11, <1>12, <1>13 DEF InstallStep, ServiceStep

(* A step of the console's site. *)
LEMMA DomainTypes == ASSUME StateInv, DomainStep PROVE StateInv'
<1> USE TakeoverAssumption, NoneAssumption
    DEF StateInv, TypeInv, TakeoverTypeOK, UnitTypes, NextInv, ConsoleInv, Running, Text,
        At, Goto, Done, Untouched, Putting, Applied, ApplyFails, consoleVars, unitVars
<1>1. CASE SetUpDomain
  BY <1>1 DEF SetUpDomain
<1>2. CASE PutSite
  BY <1>2 DEF PutSite
<1>3. CASE ApplySite
  BY <1>3 DEF ApplySite
<1>4. CASE RestoreConsole
  BY <1>4 DEF RestoreConsole
<1>5. CASE Certbot
  BY <1>5 DEF Certbot
<1>6. QED  BY <1>1, <1>2, <1>3, <1>4, <1>5 DEF DomainStep

(* A step of the administrator or of the machine. *)
LEMMA OutsideTypes ==
  ASSUME StateInv, Outside, UNCHANGED <<consoleVars, unitVars>> PROVE StateInv'
<1> USE TakeoverAssumption, NoneAssumption
    DEF StateInv, TypeInv, TakeoverTypeOK, UnitTypes, NextInv, ConsoleInv, Running, Text, Updated,
        consoleVars, unitVars
<1>1. CASE EditSite
  <2>1. wanted' \in 0 .. MaxEdits /\ file' \in Text
    <3>1. CASE /\ wanted < MaxEdits /\ wanted' = wanted + 1
              /\ \E managed \in {FALSE, file.managed} : file' = [edit |-> wanted', managed |-> managed]
      BY <3>1, NextEdit, EditedText
    <3>2. CASE /\ journal # None /\ wanted' = journal.original.edit
              /\ file' \in {journal.original, Updated(journal.original)}
      BY <3>2
    <3>3. QED  BY <1>1, <3>1, <3>2 DEF EditSite
  <2>2. QED  BY <1>1, <2>1 DEF EditSite
<1>2. CASE EditSnippet
  BY <1>2 DEF EditSnippet
<1>3. CASE NginxReloads
  BY <1>3 DEF NginxReloads
<1>4. CASE Crash
  BY <1>4 DEF Crash
<1>5. CASE RemoveLock
  BY <1>5 DEF RemoveLock
<1>6. QED  BY <1>1, <1>2, <1>3, <1>4, <1>5 DEF Outside

(* Commands and files keep their types. *)
LEMMA StateHolds == Spec => []StateInv
<1>1. Init => StateInv
  <2> SUFFICES ASSUME Init PROVE StateInv
    OBVIOUS
  <2> USE TakeoverAssumption DEF Init, TakeoverInit
  <2>1. file \in Text /\ wanted \in 0 .. MaxEdits
    BY DEF Text
  <2>2. lock \in BOOLEAN /\ routed \in BOOLEAN /\ unit \in BOOLEAN /\ certified \in BOOLEAN
    OBVIOUS
  <2>3. TakeoverTypeOK
    BY <2>1, <2>2 DEF TakeoverTypeOK
  <2>4. console # "live"
    BY NoneAssumption
  <2>5. QED
    BY <2>1, <2>2, <2>3, <2>4 DEF StateInv, TypeInv, UnitTypes, NextInv, ConsoleInv, Running
<1>2. StateInv /\ [Next]_vars => StateInv'
  <2>1. ASSUME StateInv, UNCHANGED vars PROVE StateInv'
    BY <2>1 DEF vars, takeoverVars, consoleVars, unitVars, StateInv, TypeInv, TakeoverTypeOK, UnitTypes,
           NextInv, ConsoleInv, Running, Text
  <2>2. QED
    BY <2>1, TakeoverTypes, CommandTypes, DomainTypes, OutsideTypes DEF Next
<1>3. QED  BY <1>1, <1>2, PTL DEF Spec

(* What root's commands write, remove and hold, whenever the administrator *)
(* edits: the files have their types, a process that changes nginx's files *)
(* has the lock, and a unit has a configuration.                           *)
THEOREM TypesHold == Spec => []TypeOK
<1>1. Init => PasswordInv
  BY NoneAssumption DEF Init, TakeoverInit, PasswordInv, PasswordKept, Running
<1>2. PasswordInv /\ [Next]_vars => PasswordInv'
  BY PasswordStepKeeps
<1>3. StateInv /\ PasswordInv => TypeOK
  BY DEF StateInv, PasswordInv, UnitTypes, TypeOK
<1>4. QED  BY <1>1, <1>2, <1>3, StateHolds, PTL DEF Spec

-----------------------------------------------------------------------------
(* The administrator's edits *)

(* A command that runs puts back what contains the last edit. *)
LEMMA TakeoverChanges ==
  ASSUME ~EditsDuringCommands, StateInv, TakeoverInv, ChangesInv, TakeoverStep PROVE ChangesInv'
<1> USE NoneAssumption
    DEF StateInv, TypeInv, ChangesInv, ManualChangesKept, Running, Text, Updated, Unlock, At, Goto
<1>1. CASE Prepare
  BY <1>1 DEF Prepare
<1>2. CASE WriteSnippet
  BY <1>2 DEF WriteSnippet
<1>3. CASE WriteSite
  BY <1>3 DEF WriteSite
<1>4. CASE ApplyTakeover
  BY <1>4 DEF ApplyTakeover
<1>5. CASE Confirm
  BY <1>5, ThenBegins DEF Confirm, NextInv
<1>6. CASE UndoSite
  BY <1>6 DEF UndoSite
<1>7. CASE UndoSnippet
  BY <1>7 DEF UndoSnippet
<1>8. CASE ApplyUndo
  BY <1>8 DEF ApplyUndo
<1>9. CASE Forget
  BY <1>9 DEF Forget
<1>10. CASE RestoreSite
  BY <1>10 DEF RestoreSite
<1>11. CASE DropSnippet
  BY <1>11 DEF DropSnippet
<1>12. CASE ApplyRestored
  BY <1>12 DEF ApplyRestored
<1>13. CASE Detach
  BY <1>13, ThenBegins DEF Detach, NextInv
<1>14. CASE RedoSite
  BY <1>14 DEF RedoSite
<1>15. CASE RedoSnippet
  BY <1>15 DEF RedoSnippet
<1>16. QED
  BY <1>1, <1>2, <1>3, <1>4, <1>5, <1>6, <1>7, <1>8, <1>9, <1>10, <1>11, <1>12, <1>13, <1>14, <1>15 DEF TakeoverStep

(* Other commands leave the site alone; connect and disconnect begin with  *)
(* the text they have read.                                                *)
LEMMA CommandChanges ==
  ASSUME ~EditsDuringCommands, StateInv, ChangesInv, InstallStep \/ ServiceStep \/ DomainStep
  PROVE  ChangesInv'
<1> USE NoneAssumption
    DEF StateInv, TypeInv, ChangesInv, ManualChangesKept, Running, Text
<1>1. CASE ConnectNginx
  BY <1>1 DEF ConnectNginx, Connect
<1>2. CASE DisconnectNginx
  <2> PICK next \in {"return", "service-stop", "uninstall"} :
           NothingToDisconnect(next) \/ Disconnect(next)
    BY <1>2 DEF DisconnectNginx
  <2>1. CASE NothingToDisconnect(next)
    BY <2>1, ThenBegins DEF NothingToDisconnect
  <2>2. CASE Disconnect(next)
    BY <2>2 DEF Disconnect, Begin, Updated
  <2>3. QED  BY <2>1, <2>2
<1>3. CASE ~ConnectNginx /\ ~DisconnectNginx
  <2>1. file' = file /\ wanted' = wanted
    BY <1>3 DEF InstallStep, ServiceStep, DomainStep, Install, WriteConfig, WritePassword, CopyPassword,
           UnlinkPassword, WriteUnit, EnableService, ChangePassword, StartService, StopService, RemoveUnit,
           SetUpDomain, PutSite, ApplySite, RestoreConsole, Certbot, Untouched, takeoverVars
  <2>2. ~Running({"connect", "disconnect"})' \/ UNCHANGED <<cmd, snippet>>
    <3> USE DEF At, Goto, Done
    <3>1. CASE InstallStep
      BY <1>3, <3>1, ThenBegins DEF InstallStep, Install, WriteConfig, WritePassword, CopyPassword,
             UnlinkPassword, WriteUnit, EnableService
    <3>2. CASE ServiceStep
      BY <1>3, <3>2 DEF ServiceStep, ChangePassword, StartService, StopService, RemoveUnit, takeoverVars
    <3>3. CASE DomainStep
      BY <3>3 DEF DomainStep, SetUpDomain, PutSite, ApplySite, RestoreConsole, Certbot, Putting
    <3>4. QED  BY <3>1, <3>2, <3>3
  <2>3. QED  BY <2>1, <2>2
<1>4. QED  BY <1>1, <1>2, <1>3

(* The administrator edits while no command runs. *)
LEMMA OutsideChanges ==
  ASSUME ~EditsDuringCommands, StateInv, ChangesInv, Outside PROVE ChangesInv'
<1> USE NoneAssumption
    DEF StateInv, TypeInv, ChangesInv, ManualChangesKept, Running, Text
<1>1. CASE EditSite
  <2>1. cmd' = None
    BY <1>1 DEF EditSite
  <2>2. file'.edit = wanted'
    BY <1>1 DEF EditSite, Updated
  <2>3. QED  BY <2>1, <2>2
<1>2. CASE EditSnippet
  BY <1>2 DEF EditSnippet
<1>3. CASE NginxReloads
  BY <1>3 DEF NginxReloads
<1>4. CASE Crash
  BY <1>4 DEF Crash
<1>5. CASE RemoveLock
  BY <1>5 DEF RemoveLock
<1>6. QED  BY <1>1, <1>2, <1>3, <1>4, <1>5 DEF Outside

(* What the commands put back contains the last edit, throughout. *)
LEMMA ChangesHold == ASSUME ~EditsDuringCommands PROVE Spec => []ChangesInv
<1>1. Init => ChangesInv
  BY DEF Init, TakeoverInit, ChangesInv, ManualChangesKept, Running
<1>2. StateInv /\ TakeoverInv /\ ChangesInv /\ [Next]_vars => ChangesInv'
  <2>1. ASSUME ChangesInv, UNCHANGED vars PROVE ChangesInv'
    BY <2>1 DEF vars, takeoverVars, ChangesInv, ManualChangesKept, Running
  <2>2. QED
    BY <2>1, TakeoverChanges, CommandChanges, OutsideChanges DEF Next
<1>3. QED  BY <1>1, <1>2, StateHolds, TakeoverInvHolds, PTL DEF Spec

(* "manual changes are never silently overwritten" (nginx.test.mjs:36), if *)
(* they are not made while a command runs: whatever fails, and however     *)
(* takeovers and edits follow each other, the site has the last edit.      *)
THEOREM ManualChangesStay ==
  ASSUME ~EditsDuringCommands PROVE Spec => []ManualChangesKept
<1>1. ChangesInv => ManualChangesKept
  BY DEF ChangesInv
<1>2. QED  BY <1>1, ChangesHold, PTL

(* A step that leaves nginx able to start: the block is not in the site    *)
(* without the snippet it needs, nor the console's site without its        *)
(* certificate.                                                            *)
LEMMA LoadsKept ==
  ASSUME ~EditsDuringCommands, StateInv, StateInv', TakeoverInv, TakeoverInv', ChangesInv, Next, Loads
  PROVE  Loads' \/ RedoSite
<1>1. (console = "live" => certified)'
  BY DEF StateInv, ConsoleInv
<1>2. (file'.managed => snippet' # None) \/ RedoSite
  <2> USE NoneAssumption DEF Loads
  <2>1. CASE UNCHANGED <<file, snippet>>
    BY <2>1
  <2>2. CASE TakeoverStep
    <3> USE DEF StateInv, TypeInv, TakeoverInv, TraceInv, ConnectInv, DisconnectInv, ChangesInv, Running, At, Text, Updated
    <3>1. CASE Prepare \/ ApplyTakeover \/ Confirm \/ ApplyUndo \/ Forget \/ ApplyRestored \/ Detach
      BY <2>1, <3>1 DEF Prepare, ApplyTakeover, Confirm, ApplyUndo, Forget, ApplyRestored, Detach
    <3>2. CASE WriteSnippet \/ WriteSite
      BY <3>2 DEF WriteSnippet, WriteSite
    <3>3. CASE UndoSite \/ RestoreSite
      BY <3>3 DEF UndoSite, RestoreSite
    <3>4. CASE UndoSnippet \/ DropSnippet
      BY <3>4 DEF UndoSnippet, DropSnippet
    <3>5. CASE RedoSnippet
      BY <3>5 DEF RedoSnippet
    <3>6. QED  BY <2>2, <3>1, <3>2, <3>3, <3>4, <3>5 DEF TakeoverStep
  <2>3. CASE EditSite \/ EditSnippet
    BY <2>3 DEF EditSite, EditSnippet, StateInv, TypeInv, TakeoverInv, TraceInv
  <2>4. CASE InstallStep \/ ServiceStep \/ DomainStep
    <3>1. UNCHANGED <<file, snippet>>
      BY <2>4 DEF InstallStep, ServiceStep, DomainStep, Install, WriteConfig, WritePassword, CopyPassword,
             UnlinkPassword, WriteUnit, EnableService, ConnectNginx, Connect, ChangePassword, StartService,
             DisconnectNginx, NothingToDisconnect, Disconnect, Begin, StopService, RemoveUnit,
             SetUpDomain, PutSite, ApplySite, RestoreConsole, Certbot, Untouched, takeoverVars
    <3>2. QED  BY <2>1, <3>1
  <2>5. QED
    BY <2>1, <2>2, <2>3, <2>4 DEF Next, Outside, NginxReloads, Crash, RemoveLock
<1>3. QED  BY <1>1, <1>2 DEF Loads

(* Only the rollback of a failed disconnect passes through a configuration *)
(* that nginx could not start with (nginx.mjs:94-95).                      *)
THEOREM SiteStaysLoadable ==
  ASSUME ~EditsDuringCommands PROVE Spec => SiteLoads
<1>1. StateInv /\ StateInv' /\ TakeoverInv /\ TakeoverInv' /\ ChangesInv /\ [Next]_vars
      => [Loads => Loads' \/ RedoSite]_<<takeoverVars, consoleVars>>
  BY LoadsKept DEF vars
<1>2. QED  BY <1>1, StateHolds, TakeoverInvHolds, ChangesHold, PTL DEF Spec, SiteLoads
=============================================================================
