----------------------------- MODULE StoreCalls -----------------------------
(***************************************************************************)
(* The store under its most general client.  A call is a request or a      *)
(* probe in flight: it takes a context (and possibly the live pin) from    *)
(* the store, stays away for as long as the network takes, and then comes  *)
(* back to revoke or capture a value, whatever happened in between: other  *)
(* calls, an administrator's changes, the clock, or a restart of the       *)
(* process, which no call survives.                                        *)
(*                                                                         *)
(* What holds here holds for every order in which server.mjs and           *)
(* automatic.mjs call the store.                                           *)
(***************************************************************************)
EXTENDS StateStore

CONSTANTS
  Calls,      \* the calls ever made
  MaxTime,    \* bound on the clock
  MaxEpoch    \* bound on administrative changes per model

ASSUME CallsAssumption == MaxTime \in Nat /\ MaxEpoch \in Nat

VARIABLE calls

vars == <<storeVars, calls>>

Idle == [open |-> FALSE, done |-> FALSE]
Done == [open |-> FALSE, done |-> TRUE]

Init == StoreInit /\ calls = [c \in Calls |-> Idle]

(* context() and, for a request that is injected, liveForPreflight().      *)
Begin(c) ==
  /\ calls[c] = Idle
  /\ \E m \in Models, caller \in Callers :
       LET ctx == Context(m, caller)
       IN  \E used \in {0, LivePin(ctx)} :
             calls' = [calls EXCEPT ![c] =
               [open |-> TRUE, done |-> FALSE, ctx |-> ctx, used |-> used,
                usedState |-> IF used = 0 THEN None ELSE Pin(ctx.id).state]]
  /\ UNCHANGED storeVars

Return(c) == calls' = [calls EXCEPT ![c] = Done]

Invalidate(c) ==
  /\ calls[c].open
  /\ \E reason \in AuthReasons \cup {"explicit_turn_state_error"} :
       InvalidateUsedPin(calls[c].ctx, calls[c].used, calls[c].usedState, reason)
  /\ UNCHANGED <<now, rules, epochs, saved, calls>>

Capture(c) ==
  /\ calls[c].open
  /\ \E v \in Values : CaptureAutomatic(calls[c].ctx, v, calls[c].used)
  /\ Return(c)
  /\ UNCHANGED <<now, rules, epochs, saved>>

(* A probe came back with a value. *)
Adopt(c) ==
  /\ calls[c].open
  /\ \E v \in Values : AdoptProbe(calls[c].ctx, v)
  /\ Return(c)

Administer ==
  /\ \/ \E new \in [Models -> Rules \cup {None}] : new # rules /\ Configure(new)
     \/ \E m \in Models : RefreshModel(m)
     \/ \E id \in Ids : RefreshBinding(id)
     \/ \E id \in Ids, v \in Values : Manual(id, v)
  /\ \A m \in Models : epochs'[m] <= MaxEpoch
  /\ UNCHANGED calls

(* The process dies; what states.json did not hold yet is lost.            *)
Restart ==
  /\ Load
  /\ calls' = [c \in Calls |-> IF calls[c].open THEN Done ELSE calls[c]]

Persist == Flush /\ UNCHANGED calls

Tick == now < MaxTime /\ Advance /\ UNCHANGED calls

Next ==
  \/ \E c \in Calls : Begin(c) \/ Invalidate(c) \/ Capture(c) \/ Adopt(c)
  \/ Administer
  \/ Restart
  \/ Persist
  \/ Tick

Spec == Init /\ [][Next]_vars

-----------------------------------------------------------------------------
CallType ==
  {Idle, Done} \cup [open : {TRUE}, done : {FALSE}, ctx : Contexts, used : Nat,
                     usedState : Values \cup {None}]

(* Type invariant: what the store's maps and the calls in flight hold.     *)
TypeOK == StoreTypeOK /\ calls \in [Calls -> CallType]

KeepsDeadline(c) ==
  Capture(c) =>
    \A id \in Ids :
      Bound(id) /\ pins'[id] # 0 /\ Pin(id)'.state = Pin(id).state
        => Pin(id)'.expiresAt = Pin(id).expiresAt

(* An ordinary response never renews a value: if the binding holds the     *)
(* same value after the capture, it has the same deadline                  *)
(* (states.mjs, "an expired identical value is not evidence").             *)
SameValueKeepsDeadline == [][\A c \in Calls : KeepsDeadline(c)]_vars

KeepsNewer(c) ==
  calls[c].open /\ (Capture(c) \/ Invalidate(c)) =>
    LET id == calls[c].ctx.id
    IN  calls[c].used # 0 /\ pins[id] # calls[c].used
          => pins'[id] = pins[id] /\ objects'[id] = objects[id]

(* A response to a request sent with a pin that has been replaced since    *)
(* can neither revoke nor overwrite the replacement.                       *)
LateCallsKeepNewer == [][\A c \in Calls : KeepsNewer(c)]_vars

KeepsLive(c) ==
  LET own == calls[c].ctx.id
  IN  \A id \in Ids :
        /\ Qualified(id) /\ Pin(id).expiresAt > now + Margin
        /\ Capture(c) \/ (Adopt(c) /\ id # own)
        => \/ pins'[id] = pins[id] /\ Pin(id)'.state = Pin(id).state
           \/ Full /\ ~Bound(own)

(* A live pin is never lost to ordinary traffic: only a probe of its own   *)
(* binding, an administrator, a rejection or the clock ends it, or a full  *)
(* store, and then for a binding that had no pin yet: one that is captured *)
(* or probed again costs no other its place.                               *)
LivePinSurvivesCalls == [][\A c \in Calls : KeepsLive(c)]_vars

(* "Old binding invalidated" (refresh) is final for that value: a restart  *)
(* does not bring a revoked pin back.                                      *)
RevokedStaysRevoked ==
  [][Restart => \A id \in Ids :
       Bound(id) /\ Pin(id).pending /\ pins'[id] # 0 => Pin(id)'.pending]_vars
=============================================================================
