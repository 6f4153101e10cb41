---------------------------- MODULE NginxTakeover ----------------------------
(***************************************************************************)
(* Taking over an nginx site and giving it back (lib/nginx.mjs).  Module   *)
(* Installation has the commands of bin/turnstate.mjs that call it.        *)
(*                                                                         *)
(* A command is a sequence of file operations, any of which can fail, and  *)
(* the process can die between any two.  Two files are rewritten, the site *)
(* and a snippet it refers to; the takeover journal keeps the original.    *)
(* Texts are told apart by the administrator's edits they contain and by   *)
(* whether the takeover's block is in them; hashes are those texts.        *)
(***************************************************************************)
EXTENDS Naturals

CONSTANTS
  None,
  MaxEdits,             \* bound on the administrator's edits
  EditsDuringCommands   \* may the administrator edit while a command runs?

ASSUME TakeoverAssumption == MaxEdits \in Nat /\ EditsDuringCommands \in BOOLEAN

VARIABLES
  file,     \* the site
  snippet,  \* conf.d/turnstate-upstream.conf: None, "ours", or "theirs" once edited
  journal,  \* nginx.json
  lock,     \* nginx.lock exists
  routed,   \* the configuration nginx has loaded sends requests to the extension
  console,  \* the site of the console: None, "pending" or "live"
  certified,\* a certificate for the console is installed
  cmd,      \* the running command, None if there is none
  wanted    \* history: the administrator's last edit of the site

consoleVars == <<console, certified>>

takeoverVars == <<file, snippet, journal, lock, routed, cmd, wanted>>

Text == [edit : 0 .. MaxEdits, managed : BOOLEAN]

ASSUME NoneAssumption ==
  /\ None \notin {"ours", "theirs", "unsaved", "saved", "chosen", "pending", "live"}
  /\ None \notin [phase : {"prepared", "connected"}, original : Text]

(* planNginx *)
Updated(text) == [text EXCEPT !.managed = TRUE]

TakeoverInit ==
  /\ file = [edit |-> 0, managed |-> FALSE]
  /\ snippet = None /\ journal = None /\ lock = FALSE /\ routed = FALSE
  /\ cmd = None /\ wanted = 0

(* nginx -t: the site's block needs the snippet, the console's site its    *)
(* certificate.                                                            *)
Loads == (file.managed => snippet # None) /\ (console = "live" => certified)

(* What the command does next: return to its user, or go on.               *)
Then(next) == IF next = "return" THEN None ELSE [op |-> next, pc |-> "start"]

(* withLock: the lock goes whether the command returns or throws. *)
Unlock == cmd' = None /\ lock' = FALSE

At(op, pc) == cmd # None /\ cmd.op = op /\ cmd.pc = pc

Goto(pc) == cmd' = [cmd EXCEPT !.pc = pc] /\ UNCHANGED lock

(* validate() and reload(): both succeed, or one of them throws, which     *)
(* does not say whether nginx has the new configuration.                   *)
Applied == Loads /\ routed' = file.managed
ApplyFails == UNCHANGED routed \/ Applied

-----------------------------------------------------------------------------
(* connect *)

(* The checks that refuse a second takeover, and the text it starts from. *)
Connect(next) ==
  /\ ~lock /\ journal = None /\ snippet = None /\ ~file.managed
  /\ lock' = TRUE
  /\ cmd' = [op |-> "connect", pc |-> "prepare", original |-> file, current |-> file,
             owned |-> FALSE, next |-> next]
  /\ UNCHANGED <<file, snippet, journal, routed, wanted>>

(* Mutant of Prepare: the journal is only written once nginx was reloaded. *)
PrepareUnwritten ==
  /\ At("connect", "prepare") /\ Goto("snippet")
  /\ UNCHANGED <<file, snippet, journal, routed, wanted>>

(* The journal precedes the first change.  nginx -t or the write may fail. *)
Prepare ==
  /\ At("connect", "prepare")
  /\ \/ journal' = [phase |-> "prepared", original |-> cmd.original] /\ Goto("snippet")
     \/ Unlock /\ UNCHANGED journal
  /\ UNCHANGED <<file, snippet, routed, wanted>>

WriteSnippet ==
  /\ At("connect", "snippet")
  /\ \/ snippet' = "ours" /\ Goto("site")
     \/ UNCHANGED snippet /\ Goto("undo site")
  /\ UNCHANGED <<file, journal, routed, wanted>>

WriteSite ==
  /\ At("connect", "site")
  /\ \/ file' = Updated(cmd.original) /\ Goto("apply")
     \/ UNCHANGED file /\ Goto("undo site")
  /\ UNCHANGED <<snippet, journal, routed, wanted>>

ApplyTakeover ==
  /\ At("connect", "apply")
  /\ \/ Applied /\ Goto("confirm")
     \/ ApplyFails /\ Goto("undo site")
  /\ UNCHANGED <<file, snippet, journal, wanted>>

Confirm ==
  /\ At("connect", "confirm")
  /\ \/ /\ journal' = [phase |-> "connected", original |-> cmd.original]
        /\ cmd' = Then(cmd.next) /\ lock' = FALSE
     \/ UNCHANGED journal /\ Goto("undo site")
  /\ UNCHANGED <<file, snippet, routed, wanted>>

(* The handler of every failure above: each step of it may fail as well,   *)
(* and then the command ends where it is.                                  *)
UndoSite ==
  /\ At("connect", "undo site")
  /\ \/ file' = cmd.original /\ Goto("undo snippet")
     \/ Unlock /\ UNCHANGED file
  /\ UNCHANGED <<snippet, journal, routed, wanted>>

UndoSnippet ==
  /\ At("connect", "undo snippet")
  /\ \/ snippet' = (IF snippet = "ours" THEN None ELSE snippet) /\ Goto("undo apply")
     \/ Unlock /\ UNCHANGED snippet
  /\ UNCHANGED <<file, journal, routed, wanted>>

ApplyUndo ==
  /\ At("connect", "undo apply")
  /\ \/ Applied /\ Goto("forget")
     \/ ApplyFails /\ Unlock
  /\ UNCHANGED <<file, snippet, journal, wanted>>

Forget ==
  /\ At("connect", "forget")
  /\ journal' \in {None, journal}
  /\ Unlock
  /\ UNCHANGED <<file, snippet, routed, wanted>>

-----------------------------------------------------------------------------
(* disconnect, and service-stop and uninstall, which begin with it *)

(* Nothing was taken over. *)
NothingToDisconnect(next) ==
  /\ cmd = None /\ ~lock /\ journal = None
  /\ cmd' = Then(next)
  /\ UNCHANGED <<file, snippet, journal, lock, routed, wanted>>

(* Mutant of Begin: the lock is not taken. *)
BeginUnlocked(next) ==
  /\ lock' = lock
  /\ cmd' = [op |-> "disconnect", pc |-> "restore", original |-> journal.original,
             current |-> file, owned |-> snippet # None, next |-> next]
  /\ UNCHANGED <<file, snippet, journal, routed, wanted>>

(* What disconnect takes down before it begins. *)
Begin(next) ==
  /\ lock' = TRUE
  /\ cmd' = [op |-> "disconnect", pc |-> "restore", original |-> journal.original,
             current |-> file, owned |-> snippet # None, next |-> next]
  /\ UNCHANGED <<file, snippet, journal, routed, wanted>>

(* Mutant of Disconnect: the site is restored whatever is in it by now. *)
DisconnectAnyway(next) == cmd = None /\ ~lock /\ journal # None /\ Begin(next)

(* Refused unless both files are as the takeover left or found them. *)
Disconnect(next) ==
  /\ cmd = None /\ ~lock /\ journal # None
  /\ file \in {journal.original, Updated(journal.original)}
  /\ snippet \in {None, "ours"}
  /\ Begin(next)

(* Mutant of RestoreSite: the snippet goes before the block that needs it. *)
RestoreSiteLater ==
  /\ At("disconnect", "restore") /\ Goto("drop")
  /\ UNCHANGED <<file, snippet, journal, routed, wanted>>

RestoreSite ==
  /\ At("disconnect", "restore")
  /\ \/ file' = cmd.original /\ Goto("drop")
     \/ Unlock /\ UNCHANGED file
  /\ UNCHANGED <<snippet, journal, routed, wanted>>

DropSnippet ==
  /\ At("disconnect", "drop")
  /\ \/ snippet' = (IF cmd.owned THEN None ELSE snippet) /\ Goto("apply")
     \/ Unlock /\ UNCHANGED snippet
  /\ UNCHANGED <<file, journal, routed, wanted>>

(* Mutant of ApplyRestored: nginx is not reloaded. *)
ApplyRestoredLater ==
  /\ At("disconnect", "apply") /\ Goto("detach")
  /\ UNCHANGED <<file, snippet, journal, routed, wanted>>

ApplyRestored ==
  /\ At("disconnect", "apply")
  /\ \/ Applied /\ Goto("detach")
     \/ ApplyFails /\ Goto("redo site")
  /\ UNCHANGED <<file, snippet, journal, wanted>>

(* The journal is renamed to a dated backup; only then may the unit stop. *)
Detach ==
  /\ At("disconnect", "detach") /\ lock' = FALSE
  /\ \/ /\ journal' = None
        /\ cmd' = Then(cmd.next)
     \/ cmd' = None /\ UNCHANGED journal
  /\ UNCHANGED <<file, snippet, routed, wanted>>

RedoSite ==
  /\ At("disconnect", "redo site")
  /\ \/ file' = cmd.current /\ Goto("redo snippet")
     \/ Unlock /\ UNCHANGED file
  /\ UNCHANGED <<snippet, journal, routed, wanted>>

RedoSnippet ==
  /\ At("disconnect", "redo snippet")
  /\ snippet' \in {snippet} \cup (IF cmd.owned THEN {"ours"} ELSE {})
  /\ Unlock
  /\ UNCHANGED <<file, journal, routed, wanted>>

-----------------------------------------------------------------------------
(* The administrator and the machine *)

(* A new edit, with or without the takeover's block, or an old text back   *)
(* (test/nginx.test.mjs:44); not a block nginx could not load.             *)
EditSite ==
  /\ cmd = None \/ EditsDuringCommands
  /\ \/ /\ wanted < MaxEdits /\ wanted' = wanted + 1
        /\ \E managed \in {FALSE, file.managed} :
             file' = [edit |-> wanted', managed |-> managed]
     \/ /\ journal # None
        /\ file' \in {journal.original} \cup (IF snippet = None THEN {} ELSE {Updated(journal.original)})
        /\ wanted' = journal.original.edit
  /\ UNCHANGED <<snippet, journal, lock, routed, cmd>>

EditSnippet ==
  /\ cmd = None \/ EditsDuringCommands
  /\ snippet # None
  /\ snippet' \in {"ours", "theirs"}
  /\ UNCHANGED <<file, journal, lock, routed, cmd, wanted>>

(* A reload or restart that no command asked for. *)
NginxReloads ==
  /\ Loads /\ routed' = file.managed
  /\ UNCHANGED <<file, snippet, journal, lock, cmd, wanted>>

(* The process is killed: the lock stays, and so do the files as they are. *)
(* (The code does no fsync: what a power failure leaves is not modelled.)  *)
Crash ==
  /\ cmd # None /\ cmd' = None
  /\ UNCHANGED <<file, snippet, journal, lock, routed, wanted>>

(* "Verify no operation is running before removing a stale lock." *)
RemoveLock ==
  /\ lock /\ cmd = None /\ lock' = FALSE
  /\ UNCHANGED <<file, snippet, journal, routed, cmd, wanted>>

TakeoverStep ==
  \/ Prepare \/ WriteSnippet \/ WriteSite \/ ApplyTakeover \/ Confirm
  \/ UndoSite \/ UndoSnippet \/ ApplyUndo \/ Forget
  \/ RestoreSite \/ DropSnippet \/ ApplyRestored \/ Detach \/ RedoSite \/ RedoSnippet

Outside == EditSite \/ EditSnippet \/ NginxReloads \/ Crash \/ RemoveLock

-----------------------------------------------------------------------------
TakeoverTypeOK ==
  /\ file \in Text /\ snippet \in {None, "ours", "theirs"}
  /\ journal \in {None} \cup [phase : {"prepared", "connected"}, original : Text]
  /\ {lock, routed} \subseteq BOOLEAN
  /\ wanted \in 0 .. MaxEdits
  /\ console \in {None, "pending", "live"} /\ certified \in BOOLEAN
  /\ cmd # None /\ cmd.op \in {"connect", "disconnect"} => lock

(* Whatever fails and wherever the process dies, a takeover that is on     *)
(* disk or in nginx can be undone: without a journal the site has no block,*)
(* there is no snippet of ours, and nginx sends nothing to the extension   *)
(* (the journal is written first and removed last).                        *)
NoTraceWithoutJournal ==
  journal = None => ~file.managed /\ snippet # "ours" /\ ~routed

(* "takeover/disconnect round trip; manual changes are never silently      *)
(* overwritten" (test/nginx.test.mjs:36): the site always contains the     *)
(* administrator's last edit.                                              *)
ManualChangesKept == file.edit = wanted

(* The site is never left, nor passed through, in a state in which nginx    *)
(* could not start: the block goes in after the snippet and comes out      *)
(* before it.  Only the rollback of a failed disconnect breaks that order  *)
(* (nginx.mjs:94-95).                                                      *)
SiteLoads == [][Loads => Loads' \/ RedoSite]_<<takeoverVars, consoleVars>>
=============================================================================
