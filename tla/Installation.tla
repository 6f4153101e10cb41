----------------------------- MODULE Installation -----------------------------
(***************************************************************************)
(* The commands of root (bin/turnstate.mjs, lib/domain.mjs): install, with *)
(* the configuration and the initial password it makes, connect and        *)
(* disconnect of module NginxTakeover, domain-enable, password, start,     *)
(* service-stop and uninstall.                                             *)
(*                                                                         *)
(* The administrator gives one command after the other; start may come at  *)
(* any time, as systemd starts the unit at boot.  A step that throws with  *)
(* nothing to clean up ends its command where it is, which is what Crash   *)
(* does, and init is the beginning of an install.  A process of the unit   *)
(* that dies is restarted by systemd, nginx asking the target meanwhile.   *)
(***************************************************************************)
EXTENDS NginxTakeover

VARIABLES
  unit,     \* the systemd unit file exists
  service,  \* its process: "up" or "down"
  config,   \* config.json: None, "unsaved" or "saved" (a password was generated,
            \* and then written to a file), or "chosen" by the administrator
  initial   \* where the file with the initial password is: in {"home", "root"}

unitVars == <<unit, service, config, initial>>

vars == <<takeoverVars, consoleVars, unitVars>>

Init ==
  /\ TakeoverInit
  /\ console = None /\ certified = FALSE
  /\ unit = FALSE /\ service = "down" /\ config = None /\ initial = {}

Done == cmd' = None /\ UNCHANGED lock

Untouched == UNCHANGED <<file, snippet, journal, routed, wanted>>

-----------------------------------------------------------------------------
(* install *)

Install ==
  /\ cmd = None /\ ~unit
  /\ \E conf \in BOOLEAN, next \in {"return", "domain"} :
       cmd' = [op |-> "install", pc |-> "config", conf |-> conf, next |-> next]
  /\ UNCHANGED lock /\ Untouched /\ UNCHANGED <<consoleVars, unitVars>>

(* makeConfig() is given a password, or generates one. *)
MadeConfig == {"chosen", "unsaved"}

(* initialize() returns the configuration there is, or makes one. *)
WriteConfig ==
  /\ At("install", "config")
  /\ \/ config # None /\ UNCHANGED config /\ Goto("copy")
     \/ /\ config = None /\ config' \in MadeConfig
        /\ Goto(IF config' = "unsaved" THEN "password" ELSE "copy")
  /\ Untouched /\ UNCHANGED <<consoleVars, unit, service, initial>>

WritePassword ==
  /\ At("install", "password") /\ Goto("copy")
  /\ config' = "saved" /\ initial' = initial \cup {"home"}
  /\ Untouched /\ UNCHANGED <<consoleVars, unit, service>>

(* Mutant of CopyPassword: a copy that exists is the end of the move. *)
CopyPasswordOnce ==
  /\ At("install", "copy")
  /\ IF "home" \notin initial \/ "root" \in initial THEN UNCHANGED initial /\ Goto("unit")
     ELSE initial' = initial \cup {"root"} /\ Goto("unlink")
  /\ Untouched /\ UNCHANGED <<consoleVars, unit, service, config>>

(* COPYFILE_EXCL throws when there is a copy already. *)
CopyPassword ==
  /\ At("install", "copy")
  /\ IF "home" \notin initial THEN UNCHANGED initial /\ Goto("unit")
     ELSE IF "root" \in initial THEN UNCHANGED initial /\ Done
     ELSE initial' = initial \cup {"root"} /\ Goto("unlink")
  /\ Untouched /\ UNCHANGED <<consoleVars, unit, service, config>>

UnlinkPassword ==
  /\ At("install", "unlink") /\ Goto("unit")
  /\ initial' = initial \ {"home"}
  /\ Untouched /\ UNCHANGED <<consoleVars, unit, service, config>>

WriteUnit ==
  /\ At("install", "unit") /\ Goto("enable")
  /\ unit' = TRUE
  /\ Untouched /\ UNCHANGED <<consoleVars, service, config, initial>>

(* ready(): both of its ports answer. *)
Healthy == service = "up"

(* enable --now and the wait for its health; an unhealthy unit stays. *)
EnableService ==
  /\ At("install", "enable")
  /\ service' = "up"
  /\ \/ cmd.conf /\ Goto("connect")
     \/ ~cmd.conf /\ cmd' = Then(cmd.next) /\ UNCHANGED lock
     \/ Done
  /\ Untouched /\ UNCHANGED <<consoleVars, unit, config, initial>>

ConnectNginx ==
  /\ \/ cmd = None /\ Healthy /\ Connect("return")
     \/ At("install", "connect") /\ Connect(cmd.next)
  /\ UNCHANGED <<consoleVars, unitVars>>

-----------------------------------------------------------------------------
(* password, start, service-stop and uninstall *)

ChangePassword ==
  /\ cmd = None /\ config # None
  /\ config' = "chosen"
  /\ UNCHANGED <<takeoverVars, consoleVars, unit, service, initial>>

StartService ==
  /\ unit /\ service' = "up"
  /\ UNCHANGED <<takeoverVars, consoleVars, unit, config, initial>>

DisconnectNginx ==
  /\ \E next \in {"return", "service-stop", "uninstall"} :
       /\ next = "return" \/ unit
       /\ NothingToDisconnect(next) \/ Disconnect(next)
  /\ UNCHANGED <<consoleVars, unitVars>>

(* systemctl stop, or disable --now *)
StopService ==
  /\ At("service-stop", "start") \/ At("uninstall", "start")
  /\ service' = "down"
  /\ IF cmd.op = "uninstall" THEN Goto("remove") ELSE Done
  /\ Untouched /\ UNCHANGED <<consoleVars, unit, config, initial>>

(* Configuration, passwords, releases and the console's site stay. *)
RemoveUnit ==
  /\ At("uninstall", "remove") /\ Done
  /\ unit' = FALSE
  /\ Untouched /\ UNCHANGED <<consoleVars, service, config, initial>>

-----------------------------------------------------------------------------
(* domainSetup, after an install or for domain-enable, which has a         *)
(* certificate issued.  It takes no lock.                                  *)

Putting(site, issue) ==
  cmd' = [op |-> "domain", pc |-> "put", site |-> site, issue |-> issue, old |-> console]

SetUpDomain ==
  /\ cmd = None \/ At("domain", "start")
  /\ config # None
  /\ Putting(IF certified THEN "live" ELSE "pending", cmd = None)
  /\ UNCHANGED lock /\ Untouched /\ UNCHANGED <<consoleVars, unitVars>>

PutSite ==
  /\ At("domain", "put") /\ Goto("apply")
  /\ console' = cmd.site
  /\ Untouched /\ UNCHANGED <<certified, unitVars>>

ApplySite ==
  /\ At("domain", "apply")
  /\ \/ Applied /\ IF cmd.site = "pending" /\ cmd.issue THEN Goto("certbot") ELSE Done
     \/ ApplyFails /\ Goto("restore")
  /\ UNCHANGED <<file, snippet, journal, wanted, consoleVars, unitVars>>

(* The site as it was before; nginx is not told. *)
RestoreConsole ==
  /\ At("domain", "restore") /\ Done
  /\ console' = cmd.old
  /\ Untouched /\ UNCHANGED <<certified, unitVars>>

Certbot ==
  /\ At("domain", "certbot")
  /\ certified' = TRUE /\ Putting("live", TRUE)
  /\ UNCHANGED lock /\ Untouched /\ UNCHANGED <<console, unitVars>>

-----------------------------------------------------------------------------
InstallStep ==
  \/ Install \/ WriteConfig \/ WritePassword \/ CopyPassword \/ UnlinkPassword
  \/ WriteUnit \/ EnableService \/ ConnectNginx

ServiceStep == ChangePassword \/ StartService \/ DisconnectNginx \/ StopService \/ RemoveUnit

DomainStep == SetUpDomain \/ PutSite \/ ApplySite \/ RestoreConsole \/ Certbot

Next ==
  \/ InstallStep \/ ServiceStep \/ DomainStep
  \/ (TakeoverStep \/ Outside) /\ UNCHANGED <<consoleVars, unitVars>>

Spec == Init /\ [][Next]_vars

-----------------------------------------------------------------------------
(* Type invariant; who changes nginx's files holds the lock. *)
TypeOK ==
  /\ TakeoverTypeOK
  /\ unit \in BOOLEAN /\ service \in {"up", "down"}
  /\ config \in {None, "unsaved", "saved", "chosen"} /\ initial \subseteq {"home", "root"}
  /\ unit => config # None

(* "service-stop: first restore the original route, then stop the process" *)
(* (README, commands), and so for uninstall: the unit is stopped only when *)
(* nginx itself no longer sends requests to it.                            *)
StopsUnrouted == [][service = "up" /\ service' = "down" => ~routed]_vars

(* "Initial password saved privately", then "root only" (the messages of   *)
(* init and install): wherever an install ends and however often it is     *)
(* given again, the password that was saved is still in a file, and not in *)
(* the home, which belongs to the service's user, once there is a service. *)
PasswordKept ==
  /\ config = "saved" => initial # {}
  /\ unit \/ service = "up" => "home" \notin initial
=============================================================================
