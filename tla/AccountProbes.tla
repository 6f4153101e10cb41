----------------------------- MODULE AccountProbes -----------------------------
(***************************************************************************)
(* Probes through a node with the credentials of the exported account: the *)
(* exchange of ProbeExchange beside the exporter of LocalAuth, under one   *)
(* clock.  The credentials are resolved when the pool starts the probe     *)
(* (proxy-pool.mjs:163) and leave with the request, a lookup, a connection *)
(* and two handshakes later.                                               *)
(***************************************************************************)
EXTENDS LocalAuth, ProbeExchange

CONSTANTS
  Deadline,  \* a probe's time limit, 15 s
  MaxTime    \* bound on the clock

(* A probe ends before the token it was given may expire: 15 s and 60 s. *)
ASSUME ProbesAssumption == {Deadline, MaxTime} \subseteq Nat /\ Deadline <= Margin

VARIABLES
  using,  \* the account's credentials the probe was given, or NoAccount
  began   \* when it was started

vars == <<authVars, exchangeVars, using, began>>

Init == AuthInit /\ ExchangeInit /\ using = NoAccount /\ began = 0

(* A probe through a node is given the exported account or, when the pool's*)
(* source is a manual one, stored credentials.                             *)
Probe(r) ==
  /\ Start(r)
  /\ \/ using' = NoAccount
     \/ r = "node" /\ Usable /\ using' = exported
  /\ began' = now
  /\ UNCHANGED authVars

(* The credentials end with the probe. *)
Kept ==
  /\ IF stage' = "over" THEN using' = NoAccount /\ began' = 0 ELSE UNCHANGED <<using, began>>
  /\ UNCHANGED authVars

ProbeStep == Exchange /\ Kept

Export == (Query \/ Publish \/ RunFails) /\ UNCHANGED <<exchangeVars, using, began>>

(* Timers come when they are due. *)
Tick ==
  /\ now < MaxTime /\ RunInTime
  /\ "timer" \in held => now < began + Deadline
  /\ now' = now + 1
  /\ UNCHANGED <<exported, run, exchangeVars, using, began>>

Next == (\E r \in {"local", "node", "check"} : Probe(r)) \/ ProbeStep \/ Export \/ Tick

(* The program's own continuations run and its timer fires; the system's   *)
(* resolver gives up in the end.  Nothing is assumed of proxies and sites. *)
Spec ==
  /\ Init /\ [][Next]_vars
  /\ WF_vars(Continuation /\ Kept) /\ WF_vars(TimerFires /\ Kept)
  /\ WF_vars(LookupAnswers /\ Kept)

-----------------------------------------------------------------------------
(* Type invariant of the exporter and of the probes. *)
TypesOK ==
  /\ TypeOK /\ AuthTypeOK
  /\ using # NoAccount => stage # "over" /\ route = "node"
  /\ began <= now

(* "No stale credential will be used" (sync-sub2api-auth.py:173), as far   *)
(* as the code can promise it: whatever the exporter does or fails to do   *)
(* meanwhile, a request leaves with a token that has not expired, and that *)
(* was the account's in Sub2API when the last successful run read it, no   *)
(* longer ago than a run, the age of an export and a probe may last.       *)
CredentialsFresh ==
  [][stage # "exchange" /\ stage' = "exchange" /\ using' # NoAccount
     => /\ using'.expires > now
        /\ now - using'.seen <= RunLimit + MaxAge + Deadline]_vars

(* Every probe returns, and the job that waits for it goes on: modules     *)
(* TurnState and ProxyPool rely on it.                                     *)
ProbesEnd == stage # "over" ~> stage = "over"
=============================================================================
