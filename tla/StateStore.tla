----------------------------- MODULE StateStore -----------------------------
(***************************************************************************)
(* The pin store of lib/states.mjs: one fixed turn-state value ("pin") per *)
(* binding, with the lifetime and the rule it was captured under.          *)
(*                                                                         *)
(* The module declares the store's state and one operator per method of    *)
(* class StateStore.  A method that changes the store is an action over    *)
(* the store's variables; modules that EXTEND this one decide who calls    *)
(* it and when.                                                            *)
(*                                                                         *)
(* JavaScript objects have identity, and the callers compare pins with     *)
(* ===.  So objects[id] is the sequence of all pin objects ever stored     *)
(* under id, pins[id] is the index of the one the Map holds now (0: none), *)
(* and a reference to a pin is its index.  Only the object in the Map is   *)
(* ever mutated; the others keep the content they were dropped with.       *)
(***************************************************************************)
EXTENDS Naturals, Sequences, FiniteSets

CONSTANTS
  Models,     \* request model names
  Callers,    \* what a request carries: [cred, session, turn], each may be None
  Values,     \* well-formed opaque turn-state values
  Rules,      \* the model rules an administrator may save
  None,       \* no value / null / undefined
  MaxPins,    \* MAX_PINS
  Margin      \* the 250 ms liveForPreflight keeps in hand, in clock ticks

Scopes == {"model", "turn", "session", "credential"}

(* What validateRules lets through.  pinned: the values whose length is in *)
(* pinLengths; dropped: those in discardLengths, and under unknownPolicy   *)
(* "drop" every other length too.  The two never overlap.                  *)
IsRule(r) ==
  /\ r \in [enabled : BOOLEAN, scope : Scopes, ttl : Nat \ {0},
            pinned : SUBSET Values, dropped : SUBSET Values]
  /\ r.pinned \cap r.dropped = {}

ASSUME StoreAssumption ==
  /\ \A r \in Rules : IsRule(r)
  /\ None \notin Rules \cup Values \cup Models
  /\ MaxPins \in Nat \ {0}
  /\ Margin \in Nat

VARIABLES
  now,        \* the clock
  rules,      \* model -> rule or None; rules.json always holds the same
  epochs,     \* model -> times its bindings were reset by an administrator
  objects,    \* binding id -> every pin object stored under it, oldest first
  pins,       \* binding id -> index of the stored object, or 0
  saved,      \* states.json: binding id -> pin or None
  unsaved     \* a flush of states.json is scheduled

storeVars == <<now, rules, epochs, objects, pins, saved, unsaved>>

-----------------------------------------------------------------------------
(* Bindings and contexts *)

(* The id is a hash of exactly these fields. *)
ModelBinding(m) ==
  [model |-> m, scope |-> "model", cred |-> None, session |-> None, turn |-> None]

BindingId(m, c, s) ==
  IF c.cred = None \/ (s \in {"session", "turn"} /\ c.session = None)
                   \/ (s = "turn" /\ c.turn = None)
    THEN None
  ELSE IF s = "model" THEN ModelBinding(m)
  ELSE [model |-> m, scope |-> s, cred |-> c.cred,
        session |-> IF s = "credential" THEN None ELSE c.session,
        turn |-> IF s = "turn" THEN c.turn ELSE None]

Ids == {BindingId(m, c, s) : m \in Models, c \in Callers, s \in Scopes} \ {None}

ScopeOf(rule) == IF rule = None THEN "model" ELSE rule.scope

Context(m, c) ==
  [id |-> BindingId(m, c, ScopeOf(rules[m])), model |-> m, client |-> c.cred,
   scope |-> ScopeOf(rules[m]), epoch |-> epochs[m], rule |-> rules[m]]

Enabled(rule) == rule # None /\ rule.enabled

(* The epoch and the rule signature a context was made with still hold. *)
Unchanged(ctx) == ctx.epoch = epochs[ctx.model] /\ ctx.rule = rules[ctx.model]

Bound(id) == id # None /\ pins[id] # 0

Pin(id) == objects[id][pins[id]]

BoundIds == {id \in Ids : pins[id] # 0}

Qualified(id) ==
  /\ Bound(id)
  /\ ~Pin(id).pending /\ Pin(id).accepted
  /\ Enabled(rules[id.model])
  /\ Pin(id).state \in rules[id.model].pinned

(* Mutant of Live: the deadline is not looked at. *)
LiveIgnoringExpiry(ctx) ==
  Qualified(ctx.id) /\ Pin(ctx.id).rule = ctx.rule /\ Unchanged(ctx)

Live(ctx) ==
  /\ Qualified(ctx.id)
  /\ Pin(ctx.id).expiresAt > now + Margin
  /\ Pin(ctx.id).rule = ctx.rule
  /\ Unchanged(ctx)

(* liveForPreflight returns the pin object, or null. *)
LivePin(ctx) == IF Live(ctx) THEN pins[ctx.id] ELSE 0

-----------------------------------------------------------------------------
(* Capturing a value *)

(* Mutant of CanAdopt: the rule may have changed under the request. *)
CanAdoptUnderAnyRule(ctx, v) ==
  ctx.id # None /\ Enabled(rules[ctx.model]) /\ v \in rules[ctx.model].pinned

CanAdopt(ctx, v) ==
  /\ ctx.id # None
  /\ Enabled(rules[ctx.model])
  /\ v \in rules[ctx.model].pinned
  /\ Unchanged(ctx)

(* Mutant of NewPin: the owner is forgotten. *)
NewPinWithoutOwner(ctx, v) ==
  [state |-> v, capturedAt |-> now, expiresAt |-> now + rules[ctx.model].ttl,
   pending |-> FALSE, accepted |-> TRUE, rule |-> ctx.rule]

NewPin(ctx, v) ==
  [state |-> v, client |-> ctx.client, capturedAt |-> now,
   expiresAt |-> now + rules[ctx.model].ttl, pending |-> FALSE,
   accepted |-> TRUE, rule |-> ctx.rule]

Full == Cardinality(BoundIds) >= MaxPins

(* Mutant of Evicted: a full Map drops an entry for any key. *)
EvictedForAnyKey(id) == IF Full THEN BoundIds \ {id} ELSE {None}

(* A full Map drops its oldest entry for a new key.  Which entry is oldest *)
(* is not kept: any one may go.                                            *)
Evicted(id) == IF pins[id] = 0 /\ Full THEN BoundIds ELSE {None}

Insert(ctx, v) ==
  /\ objects' = [objects EXCEPT ![ctx.id] = Append(@, NewPin(ctx, v))]
  /\ \E old \in Evicted(ctx.id) :
       pins' = [id \in Ids |-> IF id = ctx.id THEN Len(objects[id]) + 1
                               ELSE IF id = old THEN 0 ELSE pins[id]]

Untouched == UNCHANGED <<objects, pins, unsaved>>

OnDisk(objs, ps) == [id \in Ids |-> IF ps[id] = 0 THEN None ELSE objs[id][ps[id]]]

(* adoptProbe and the flush that follows it in AutomaticGate.run.  The     *)
(* write may fail; the store then goes on in memory and does not try again *)
(* before the next change.                                                 *)
AdoptProbe(ctx, v) ==
  /\ CanAdopt(ctx, v)
  /\ Insert(ctx, v)
  /\ saved' \in {saved, OnDisk(objects', pins')}
  /\ unsaved' = FALSE
  /\ UNCHANGED <<now, rules, epochs>>

(* Mutant of Reaccept: the same value again starts a new lifetime. *)
ReacceptAnew(id) ==
  /\ objects' = [objects EXCEPT ![id][pins[id]] =
       [@ EXCEPT !.accepted = TRUE, !.expiresAt = now + rules[id.model].ttl]]
  /\ unsaved' = TRUE
  /\ UNCHANGED pins

(* The same value again, still valid: it is marked as accepted by a real   *)
(* response; its expiry stays.                                             *)
Reaccept(id) ==
  /\ objects' = [objects EXCEPT ![id][pins[id]].accepted = TRUE]
  /\ unsaved' = TRUE
  /\ UNCHANGED pins

(* Mutant of CaptureAutomatic: a live pin is replaced too. *)
CaptureOverLive(ctx, v, used) ==
  LET may == CanAdopt(ctx, v) /\ (used = 0 \/ pins[ctx.id] = used)
             /\ ~(Bound(ctx.id) /\ Pin(ctx.id).state = v)
  IN  \/ may /\ Insert(ctx, v) /\ unsaved' = TRUE
      \/ ~may /\ Untouched

(* A response of an ordinary request.  used: the pin object the request    *)
(* was sent with, 0 if it was sent without one.                            *)
CaptureAutomatic(ctx, v, used) ==
  LET id == ctx.id
      mayReplace == CanAdopt(ctx, v) /\ (used = 0 \/ pins[id] = used)
      same == Bound(id) /\ Pin(id).state = v
      valid == ~Pin(id).pending /\ Pin(id).expiresAt > now
  IN  \/ mayReplace /\ ~same /\ ~Live(ctx) /\ Insert(ctx, v) /\ unsaved' = TRUE
      \/ mayReplace /\ same /\ valid /\ Reaccept(id)
      \/ ~(mayReplace /\ (~same => ~Live(ctx)) /\ (same => valid)) /\ Untouched

-----------------------------------------------------------------------------
(* Revoking a value *)

AuthReasons == {"http_401", "http_403"}

(* Mutant of MayInvalidate: any client's 401 counts for a shared pin. *)
MayInvalidateAnyOwner(ctx, used, usedState, reason) ==
  /\ Bound(ctx.id) /\ used = pins[ctx.id] /\ Pin(ctx.id).state = usedState
  /\ ~Pin(ctx.id).pending /\ Unchanged(ctx)

(* Mutant of MayInvalidate: whatever pin the binding has by now is revoked. *)
MayInvalidateNewer(ctx, used, usedState, reason) ==
  /\ Bound(ctx.id)
  /\ ~(ctx.id.scope = "model" /\ reason \in AuthReasons /\ Pin(ctx.id).client # ctx.client)
  /\ ~Pin(ctx.id).pending /\ Unchanged(ctx)

MayInvalidate(ctx, used, usedState, reason) ==
  /\ Bound(ctx.id)
  /\ ~(ctx.id.scope = "model" /\ reason \in AuthReasons /\ Pin(ctx.id).client # ctx.client)
  /\ used = pins[ctx.id]
  /\ Pin(ctx.id).state = usedState
  /\ ~Pin(ctx.id).pending
  /\ Unchanged(ctx)

Revoke(ids) ==
  objects' = [id \in Ids |->
    IF id \in ids
      THEN [objects[id] EXCEPT ![pins[id]] = [@ EXCEPT !.pending = TRUE, !.expiresAt = 0]]
      ELSE objects[id]]

InvalidateUsedPin(ctx, used, usedState, reason) ==
  \/ /\ MayInvalidate(ctx, used, usedState, reason)
     /\ Revoke({ctx.id})
     /\ unsaved' = TRUE /\ UNCHANGED pins
  \/ ~MayInvalidate(ctx, used, usedState, reason) /\ Untouched

-----------------------------------------------------------------------------
(* Administration *)

NextEpoch(changed) == [m \in Models |-> IF m \in changed THEN epochs[m] + 1 ELSE epochs[m]]

(* refresh: one binding, or all of a model; either way a new epoch for the *)
(* whole model.                                                            *)
Refresh(m, ids) ==
  /\ Revoke(ids)
  /\ epochs' = NextEpoch({m})
  /\ unsaved' = TRUE
  /\ UNCHANGED <<now, rules, pins, saved>>

RefreshModel(m) == Refresh(m, {id \in BoundIds : id.model = m})

RefreshBinding(id) == Bound(id) /\ Refresh(id.model, {id})

(* manual: typed in by the administrator, so no longer accepted evidence.  *)
Retyped(p, v, deadline) ==
  [state |-> v, client |-> p.client, capturedAt |-> now, expiresAt |-> deadline,
   pending |-> FALSE, accepted |-> FALSE, rule |-> p.rule]

Manual(id, v) ==
  /\ Bound(id) /\ rules[id.model] # None /\ v \in rules[id.model].pinned
  /\ objects' = [objects EXCEPT ![id][pins[id]] = Retyped(@, v, now + rules[id.model].ttl)]
  /\ epochs' = NextEpoch({id.model})
  /\ unsaved' = TRUE
  /\ UNCHANGED <<now, rules, pins, saved>>

Changed(new) == {m \in Models : new[m] # rules[m]}

(* Only the lifetime or the scope differ between two enabled rules. *)
Compatible(old, new) ==
  /\ Enabled(old) /\ Enabled(new)
  /\ new = [old EXCEPT !.ttl = new.ttl, !.scope = new.scope]

Keepable(m, new) ==
  {id \in BoundIds :
     /\ id.model = m
     /\ Compatible(rules[m], new[m])
     /\ new[m].scope \in {rules[m].scope, "model"}
     /\ Qualified(id)
     /\ Pin(id).rule = rules[m]
     /\ Pin(id).expiresAt > now}

NoOlder(p, q) ==
  \/ p.capturedAt > q.capturedAt
  \/ p.capturedAt = q.capturedAt /\ p.expiresAt >= q.expiresAt

(* Which of them configure keeps.  A model-wide rule keeps the newest one; *)
(* between equals the Map's order decides, so any of them.                 *)
KeepChoices(m, new) ==
  LET all == Keepable(m, new)
  IN  IF all # {} /\ new[m].scope = "model"
      THEN {{id} : id \in {i \in all : \A j \in all : NoOlder(Pin(i), Pin(j))}}
      ELSE {all}

MovedTo(id, new) == IF new[id.model].scope = "model" THEN ModelBinding(id.model) ELSE id

MovedExpiry(id, new) ==
  LET fromCapture == Pin(id).capturedAt + new[id.model].ttl
  IN  IF rules[id.model].scope = new[id.model].scope \/ fromCapture < Pin(id).expiresAt
      THEN fromCapture ELSE Pin(id).expiresAt

MovedPin(id, new) ==
  [Pin(id) EXCEPT !.expiresAt = MovedExpiry(id, new), !.rule = new[id.model]]

Configure(new) ==
  /\ \E kept \in SUBSET BoundIds :
       LET moved == {id \in kept : MovedExpiry(id, new) > now}
           source(id) == CHOOSE i \in moved : MovedTo(i, new) = id
           filled == {MovedTo(i, new) : i \in moved}
       IN  /\ \A id \in kept : id.model \in Changed(new)
           /\ \A m \in Changed(new) : {id \in kept : id.model = m} \in KeepChoices(m, new)
           /\ objects' = [id \in Ids |-> IF id \in filled
                            THEN Append(objects[id], MovedPin(source(id), new))
                            ELSE objects[id]]
           /\ pins' = [id \in Ids |-> IF id \in filled THEN Len(objects[id]) + 1
                            ELSE IF id.model \in Changed(new) THEN 0 ELSE pins[id]]
  /\ epochs' = NextEpoch(Changed(new))
  /\ rules' = new
  /\ unsaved' = TRUE
  /\ UNCHANGED <<now, saved>>

-----------------------------------------------------------------------------
(* Persistence and time *)

(* The scheduled write; it may fail as well. *)
Flush ==
  /\ unsaved
  /\ unsaved' = FALSE
  /\ saved' \in {saved, OnDisk(objects, pins)}
  /\ UNCHANGED <<now, rules, epochs, objects, pins>>

(* A new process reads rules.json and the pins states.json holds for them. *)
Load ==
  /\ epochs' = [m \in Models |-> 0]
  /\ objects' = [id \in Ids |-> IF saved[id] # None /\ saved[id].rule = rules[id.model]
                                THEN <<saved[id]>> ELSE <<>>]
  /\ pins' = [id \in Ids |-> Len(objects'[id])]
  /\ unsaved' = FALSE
  /\ UNCHANGED <<now, rules, saved>>

Advance ==
  /\ now' = now + 1
  /\ UNCHANGED <<rules, epochs, objects, pins, saved, unsaved>>

StoreInit ==
  /\ now = 0
  /\ rules \in [Models -> Rules \cup {None}]
  /\ epochs = [m \in Models |-> 0]
  /\ objects = [id \in Ids |-> <<>>]
  /\ pins = [id \in Ids |-> 0]
  /\ saved = [id \in Ids |-> None]
  /\ unsaved = FALSE

-----------------------------------------------------------------------------
(* What every user of the store keeps *)

Contexts ==
  [id : Ids \cup {None}, model : Models, client : {c.cred : c \in Callers},
   scope : Scopes, epoch : Nat, rule : Rules \cup {None}]

PinType ==
  [state : Values, client : {c.cred : c \in Callers}, capturedAt : Nat,
   expiresAt : Nat, pending : BOOLEAN, accepted : BOOLEAN, rule : Rules]

StoreTypeOK ==
  /\ now \in Nat
  /\ rules \in [Models -> Rules \cup {None}]
  /\ epochs \in [Models -> Nat]
  /\ objects \in [Ids -> Seq(PinType)]
  /\ pins \in [Ids -> Nat]
  /\ \A id \in Ids : pins[id] <= Len(objects[id])
  /\ saved \in [Ids -> PinType \cup {None}]
  /\ unsaved \in BOOLEAN

(* A pin that agrees with the rule it carries: its scope, its value, and a *)
(* deadline no later than its capture plus the rule's lifetime.            *)
Lawful(id, p) ==
  /\ p.rule \in Rules /\ p.rule.enabled
  /\ p.rule.scope = id.scope
  /\ p.state \in p.rule.pinned
  /\ p.capturedAt <= now
  /\ p.expiresAt <= p.capturedAt + p.rule.ttl

(* Whatever is stored always obeys the rule in force now: no late capture, *)
(* lifetime edit, scope merge or reload after a crash leaves a pin of an   *)
(* older rule, of another scope, or with more time than its capture gives. *)
PinsObeyRules ==
  \A id \in Ids : Bound(id) => Lawful(id, Pin(id)) /\ Pin(id).rule = rules[id.model]
=============================================================================
