------------------------------- MODULE LocalAuth -------------------------------
(***************************************************************************)
(* The export of an approved Sub2API account.  A root-owned timer job      *)
(* (deploy/sync-sub2api-auth.py) reads the database and replaces           *)
(* accounts.json; the extension (lib/local-auth.mjs) reads that file anew  *)
(* for every probe and trusts it for a limited time.                       *)
(*                                                                         *)
(* Both run on one machine and share its clock.  The one account stands    *)
(* for its token, expiry and approved API key together: an export in which *)
(* one of them is missing is an export without a usable account.           *)
(***************************************************************************)
EXTENDS Naturals

CONSTANTS
  NoAccount,  \* in place of an account
  Expiries,   \* when the tokens expire that Sub2API may hold
  MaxAge,     \* MAX_AUTH_AGE_MS
  Margin,     \* a token must be good for another 60 s
  RunLimit    \* TimeoutStartSec of the exporter's unit

ASSUME AuthAssumption ==
  Expiries \subseteq Nat /\ {MaxAge, Margin, RunLimit} \subseteq Nat

VARIABLES
  now,
  exported,  \* the usable account in accounts.json, NoAccount if there is none
  run        \* the exporter's run, NoAccount between runs

authVars == <<now, exported, run>>

AuthInit == now = 0 /\ exported = NoAccount /\ run = NoAccount

(* The query sees one snapshot of the database: a usable account, or none. *)
Query ==
  /\ run = NoAccount
  /\ \E e \in Expiries \cup {NoAccount} : run' = [seen |-> now, expires |-> e]
  /\ UNCHANGED <<now, exported>>

(* What the query saw is stamped, freed of tokens about to expire, and     *)
(* moved into place.                                                       *)
Publish ==
  /\ run # NoAccount
  /\ exported' = IF run.expires # NoAccount /\ run.expires > now + Margin
                 THEN [at |-> now, seen |-> run.seen, expires |-> run.expires]
                 ELSE NoAccount
  /\ run' = NoAccount
  /\ UNCHANGED now

(* A run that fails leaves word of it in the file, if it still can write   *)
(* and knows its configuration; killed, it leaves the file as it is.       *)
RunFails ==
  /\ run # NoAccount /\ run' = NoAccount
  /\ exported' \in {NoAccount, exported}
  /\ UNCHANGED now

(* Mutant of Usable: the age of the export is not looked at. *)
UsableAtAnyAge == exported # NoAccount /\ exported.expires > now + Margin

(* LocalAuthSource.resolve() returns, rather than throws. *)
Usable ==
  /\ exported # NoAccount
  /\ now - exported.at <= MaxAge
  /\ exported.expires > now + Margin

(* A run that takes too long is killed. *)
RunInTime == run # NoAccount => now < run.seen + RunLimit

AuthTypeOK ==
  /\ now \in Nat
  /\ exported \in {NoAccount} \cup [at : 0 .. now, seen : 0 .. now, expires : Expiries]
  /\ run \in {NoAccount} \cup [seen : 0 .. now, expires : Expiries \cup {NoAccount}]
  /\ exported # NoAccount => exported.at - exported.seen \in 0 .. RunLimit
=============================================================================
