-------------------------- MODULE StateStore_proofs --------------------------
(***************************************************************************)
(* Every method of the store preserves its types and the agreement of the  *)
(* stored pins with the rules in force, whatever context it is called with,*)
(* as long as that context came from context() at some earlier moment.     *)
(* The lemmas do not mention who calls the store; StoreCalls_proofs        *)
(* assembles them into theorems about a specification.                     *)
(***************************************************************************)
EXTENDS StateStore, SequenceTheorems, TLAPS

(* A context as context() made it: its binding id, if any, belongs to its  *)
(* model and to the scope of its rule.                                     *)
Attached(ctx) ==
  /\ ctx \in Contexts
  /\ ctx.id # None => ctx.id.model = ctx.model /\ ctx.id.scope = ScopeOf(ctx.rule)

(* What states.json holds agrees with the rule it names, though perhaps    *)
(* not with the rule in force.                                             *)
DiskLawful == \A id \in Ids : saved[id] # None => Lawful(id, saved[id])

(* The part of the invariant that lives in memory. *)
PinsOK ==
  /\ objects \in [Ids -> Seq(PinType)]
  /\ pins \in [Ids -> Nat]
  /\ \A id \in Ids : pins[id] <= Len(objects[id])
  /\ PinsObeyRules

StoreInv == StoreTypeOK /\ PinsObeyRules /\ DiskLawful

-----------------------------------------------------------------------------
(* Bindings and rules *)

(* A binding id names a model and a scope, and is not None. *)
LEMMA IdFields ==
  ASSUME NEW id \in Ids
  PROVE  id # None /\ id.model \in Models /\ id.scope \in Scopes
BY DEF Ids, BindingId, ModelBinding, Scopes

(* What validateRules guarantees of a saved rule. *)
LEMMA RuleFields ==
  ASSUME NEW r \in Rules
  PROVE  /\ r.enabled \in BOOLEAN /\ r.scope \in Scopes
         /\ r.ttl \in Nat \ {0} /\ r.pinned \subseteq Values
         /\ r # None
BY StoreAssumption DEF IsRule

(* A model without a rule has a scope too. *)
LEMMA ScopeOfRule ==
  ASSUME NEW r \in Rules \cup {None}
  PROVE  ScopeOf(r) \in Scopes
BY RuleFields DEF ScopeOf, Scopes

(* context() makes attached contexts. *)
LEMMA ContextAttached ==
  ASSUME StoreTypeOK, NEW m \in Models, NEW c \in Callers
  PROVE  Attached(Context(m, c))
<1>1. rules[m] \in Rules \cup {None} /\ epochs[m] \in Nat
  BY DEF StoreTypeOK
<1> DEFINE scope == ScopeOf(rules[m])
<1>2. scope \in Scopes
  BY <1>1, ScopeOfRule
<1>3. BindingId(m, c, scope) \in Ids \cup {None}
  BY <1>2 DEF Ids
<1>4. BindingId(m, c, scope) # None =>
        BindingId(m, c, scope).model = m /\ BindingId(m, c, scope).scope = scope
  BY DEF BindingId, ModelBinding
<1> QED
  BY <1>1, <1>2, <1>3, <1>4 DEF Attached, Contexts, Context

(* The pin a binding holds is a pin. *)
LEMMA StoredPin ==
  ASSUME PinsOK, NEW id \in Ids, pins[id] # 0
  PROVE  pins[id] \in 1 .. Len(objects[id]) /\ Pin(id) \in PinType
<1>1. objects[id] \in Seq(PinType) /\ pins[id] \in Nat /\ pins[id] <= Len(objects[id])
  BY DEF PinsOK
<1>2. pins[id] \in 1 .. Len(objects[id])
  BY <1>1, LenProperties
<1> QED
  BY <1>1, <1>2, ElementOfSeq DEF Pin

(* The memory part of the invariant, named apart for the lemmas below. *)
LEMMA StoreTypeIsPinsOK ==
  ASSUME StoreTypeOK, PinsObeyRules
  PROVE  PinsOK
BY DEF StoreTypeOK, PinsOK

-----------------------------------------------------------------------------
(* Capturing *)

(* canAdopt lets a value in only under the rule the context was made with, *)
(* so the pin made of it obeys the rule in force, however late it comes.   *)
LEMMA NewPinLawful ==
  ASSUME StoreTypeOK, NEW ctx, Attached(ctx), NEW v \in Values, CanAdopt(ctx, v)
  PROVE  /\ ctx.id \in Ids
         /\ NewPin(ctx, v) \in PinType
         /\ Lawful(ctx.id, NewPin(ctx, v))
         /\ NewPin(ctx, v).rule = rules[ctx.id.model]
<1>1. /\ ctx.model \in Models /\ ctx.id \in Ids /\ ctx.id.model = ctx.model
      /\ ctx.id.scope = ScopeOf(ctx.rule) /\ ctx.client \in {c.cred : c \in Callers}
  BY DEF Attached, Contexts, CanAdopt
<1>2. ctx.rule = rules[ctx.model] /\ ctx.rule \in Rules /\ ctx.rule.enabled
  BY <1>1 DEF StoreTypeOK, CanAdopt, Unchanged, Enabled
<1>3. ctx.rule.ttl \in Nat /\ now \in Nat /\ ctx.id.scope = ctx.rule.scope
  BY <1>1, <1>2, RuleFields DEF StoreTypeOK, ScopeOf
<1>4. NewPin(ctx, v) \in PinType
  BY <1>1, <1>2, <1>3 DEF NewPin, PinType
<1>5. Lawful(ctx.id, NewPin(ctx, v))
  BY <1>1, <1>2, <1>3 DEF NewPin, Lawful, CanAdopt
<1> QED
  BY <1>1, <1>2, <1>4, <1>5 DEF NewPin

(* Storing that pin, with or without dropping another one from a full Map. *)
LEMMA InsertKeeps ==
  ASSUME StoreTypeOK, PinsObeyRules, NEW ctx, Attached(ctx), NEW v \in Values,
         CanAdopt(ctx, v), Insert(ctx, v), UNCHANGED <<now, rules>>
  PROVE  PinsOK'
<1> DEFINE p == NewPin(ctx, v)
<1>1. /\ ctx.id \in Ids /\ p \in PinType /\ Lawful(ctx.id, p)
      /\ p.rule = rules[ctx.id.model]
  BY NewPinLawful
<1>2. PinsOK
  BY StoreTypeIsPinsOK
<1>3. /\ \A id \in Ids : objects[id] \in Seq(PinType) /\ Len(objects[id]) \in Nat
      /\ \A id \in Ids : pins[id] \in Nat /\ pins[id] <= Len(objects[id])
  BY <1>2, LenProperties DEF PinsOK
<1>4. /\ Append(objects[ctx.id], p) \in Seq(PinType)
      /\ Len(Append(objects[ctx.id], p)) = Len(objects[ctx.id]) + 1
      /\ Append(objects[ctx.id], p)[Len(objects[ctx.id]) + 1] = p
  BY <1>1, <1>3, AppendProperties
<1>5. objects' = [objects EXCEPT ![ctx.id] = Append(@, p)]
  BY DEF Insert
<1>6. PICK old : pins' = [id \in Ids |-> IF id = ctx.id THEN Len(objects[id]) + 1
                                         ELSE IF id = old THEN 0 ELSE pins[id]]
  BY DEF Insert
<1>7. objects' \in [Ids -> Seq(PinType)]
  BY <1>1, <1>2, <1>4, <1>5 DEF PinsOK
<1>8. pins' \in [Ids -> Nat] /\ \A id \in Ids : pins'[id] <= Len(objects'[id])
  BY <1>1, <1>2, <1>3, <1>4, <1>5, <1>6 DEF PinsOK
<1>9. ASSUME NEW id \in Ids, pins'[id] # 0
      PROVE  Lawful(id, Pin(id)') /\ Pin(id)'.rule = rules[id.model]
  <2>1. CASE id = ctx.id
    BY <2>1, <1>1, <1>2, <1>4, <1>5, <1>6 DEF Pin, PinsOK
  <2>2. CASE id # ctx.id
    <3>1. pins'[id] = pins[id] /\ objects'[id] = objects[id]
      BY <2>2, <1>2, <1>5, <1>6, <1>9 DEF PinsOK
    <3>2. Bound(id)
      BY <3>1, <1>9, IdFields DEF Bound
    <3> QED
      BY <3>1, <3>2 DEF PinsObeyRules, Pin
  <2> QED
    BY <2>1, <2>2
<1>10. PinsObeyRules'
  BY <1>9 DEF PinsObeyRules, Bound, Lawful
<1> QED
  BY <1>7, <1>8, <1>10 DEF PinsOK

-----------------------------------------------------------------------------
(* Changing pins in place *)

(* The pins of some bound bindings are overwritten by lawful ones. *)
LEMMA OverwriteKeeps ==
  ASSUME StoreTypeOK, PinsObeyRules, UNCHANGED <<now, rules, pins>>,
         NEW ids \in SUBSET BoundIds, NEW q,
         \A id \in ids : /\ q[id] \in PinType /\ Lawful(id, q[id])
                         /\ q[id].rule = rules[id.model],
         objects' = [id \in Ids |-> IF id \in ids THEN [objects[id] EXCEPT ![pins[id]] = q[id]]
                                    ELSE objects[id]]
  PROVE  PinsOK'
<1>1. PinsOK
  BY StoreTypeIsPinsOK
<1>2. \A id \in Ids : objects[id] \in Seq(PinType) /\ pins[id] \in Nat
                       /\ pins[id] <= Len(objects[id])
  BY <1>1 DEF PinsOK
<1>3. ASSUME NEW id \in ids
      PROVE  /\ id \in Ids /\ pins[id] # 0
             /\ [objects[id] EXCEPT ![pins[id]] = q[id]] \in Seq(PinType)
             /\ Len([objects[id] EXCEPT ![pins[id]] = q[id]]) = Len(objects[id])
             /\ [objects[id] EXCEPT ![pins[id]] = q[id]][pins[id]] = q[id]
  <2>1. id \in Ids /\ pins[id] # 0
    BY DEF BoundIds
  <2>2. pins[id] \in 1 .. Len(objects[id])
    BY <2>1, <1>1, StoredPin
  <2> QED
    BY <2>1, <2>2, <1>2, ExceptSeq
<1>4. objects' \in [Ids -> Seq(PinType)]
  BY <1>2, <1>3
<1>5. \A id \in Ids : pins'[id] = pins[id] /\ Len(objects'[id]) = Len(objects[id])
  BY <1>3
<1>6. ASSUME NEW id \in Ids, pins[id] # 0
      PROVE  Lawful(id, objects'[id][pins[id]]) /\ objects'[id][pins[id]].rule = rules[id.model]
  <2>1. CASE id \in ids
    BY <2>1, <1>3
  <2>2. CASE id \notin ids
    BY <2>2, <1>6, IdFields DEF PinsObeyRules, Bound, Pin
  <2> QED
    BY <2>1, <2>2
<1>7. PinsObeyRules'
  BY <1>6 DEF PinsObeyRules, Bound, Pin, Lawful
<1> QED
  BY <1>1, <1>2, <1>4, <1>5, <1>7 DEF PinsOK

(* The same value observed again. *)
LEMMA ReacceptKeeps ==
  ASSUME StoreTypeOK, PinsObeyRules, NEW id \in Ids, Bound(id), Reaccept(id),
         UNCHANGED <<now, rules>>
  PROVE  PinsOK'
<1> DEFINE q == [i \in {id} |-> [Pin(id) EXCEPT !.accepted = TRUE]]
<1>1. PinsOK /\ {id} \in SUBSET BoundIds
  BY StoreTypeIsPinsOK DEF Bound, BoundIds
<1>2. /\ Pin(id) \in PinType /\ pins[id] \in 1 .. Len(objects[id])
      /\ Lawful(id, Pin(id)) /\ Pin(id).rule = rules[id.model]
  BY <1>1, StoredPin DEF Bound, PinsObeyRules
<1>3. q[id] \in PinType /\ Lawful(id, q[id]) /\ q[id].rule = rules[id.model]
  BY <1>2 DEF PinType, Lawful
<1>4. objects \in [Ids -> Seq(PinType)]
  BY <1>1 DEF PinsOK
<1>5. objects' = [i \in Ids |-> IF i \in {id} THEN [objects[i] EXCEPT ![pins[i]] = q[i]]
                                ELSE objects[i]]
  BY <1>2, <1>4 DEF Reaccept, Pin
<1>6. UNCHANGED pins
  BY DEF Reaccept
<1> QED
  BY <1>1, <1>3, <1>5, <1>6, OverwriteKeeps

(* A pin that is revoked stays where it is, with no time left. *)
LEMMA RevokeKeeps ==
  ASSUME StoreTypeOK, PinsObeyRules, NEW ids \in SUBSET BoundIds, Revoke(ids),
         UNCHANGED <<now, rules, pins>>
  PROVE  PinsOK'
<1> DEFINE q == [i \in ids |-> [Pin(i) EXCEPT !.pending = TRUE, !.expiresAt = 0]]
<1>1. PinsOK
  BY StoreTypeIsPinsOK
<1>2. ASSUME NEW id \in ids
      PROVE  q[id] \in PinType /\ Lawful(id, q[id]) /\ q[id].rule = rules[id.model]
  <2>1. id \in Ids /\ pins[id] # 0 /\ Bound(id)
    BY IdFields DEF BoundIds, Bound
  <2>2. Pin(id) \in PinType /\ Lawful(id, Pin(id)) /\ Pin(id).rule = rules[id.model]
    BY <1>1, <2>1, StoredPin DEF PinsObeyRules
  <2>3. Pin(id).capturedAt \in Nat /\ Pin(id).rule.ttl \in Nat
    BY <2>2, RuleFields DEF PinType
  <2>4. /\ q[id] \in PinType /\ q[id].rule = Pin(id).rule /\ q[id].state = Pin(id).state
        /\ q[id].capturedAt = Pin(id).capturedAt /\ q[id].expiresAt = 0
    BY <2>2 DEF PinType
  <2>5. 0 <= Pin(id).capturedAt + Pin(id).rule.ttl
    BY <2>3
  <2> HIDE DEF q
  <2> QED
    BY <2>2, <2>4, <2>5 DEF Lawful
<1>3. objects' = [i \in Ids |-> IF i \in ids THEN [objects[i] EXCEPT ![pins[i]] = q[i]]
                                ELSE objects[i]]
  BY DEF Revoke, Pin
<1> HIDE DEF q
<1> QED
  BY <1>2, <1>3, OverwriteKeeps

(* A pin whose content is typed in anew is a pin. *)
LEMMA RetypedPin ==
  ASSUME NEW p \in PinType, NEW v \in Values, NEW e \in Nat, now \in Nat
  PROVE  /\ Retyped(p, v, e) \in PinType /\ Retyped(p, v, e).rule = p.rule
         /\ Retyped(p, v, e).state = v /\ Retyped(p, v, e).capturedAt = now
         /\ Retyped(p, v, e).expiresAt = e
BY DEF PinType, Retyped

(* An administrator's value gets the lifetime of the rule in force. *)
LEMMA ManualKeeps ==
  ASSUME StoreTypeOK, PinsObeyRules, NEW id \in Ids, NEW v \in Values, Manual(id, v)
  PROVE  PinsOK'
<1> DEFINE e == now + rules[id.model].ttl
           f == Retyped(Pin(id), v, e)
           q == [i \in {id} |-> f]
<1>1. PinsOK /\ Bound(id) /\ {id} \in SUBSET BoundIds
  BY StoreTypeIsPinsOK DEF Manual, Bound, BoundIds
<1>2. /\ Pin(id) \in PinType /\ pins[id] \in 1 .. Len(objects[id])
      /\ Lawful(id, Pin(id)) /\ Pin(id).rule = rules[id.model]
  BY <1>1, StoredPin DEF Bound, PinsObeyRules
<1>3. /\ now \in Nat /\ rules[id.model] \in Rules /\ rules[id.model].ttl \in Nat
      /\ v \in rules[id.model].pinned /\ e \in Nat
  <2>1. rules[id.model] \in Rules
    BY <1>2 DEF Lawful
  <2> QED
    BY <2>1, RuleFields DEF StoreTypeOK, Manual
<1>4. q[id] \in PinType /\ Lawful(id, q[id]) /\ q[id].rule = rules[id.model]
  <2>1. /\ f \in PinType /\ f.rule = Pin(id).rule /\ f.state = v
        /\ f.capturedAt = now /\ f.expiresAt = e
    <3> HIDE DEF e
    <3> QED
      BY <1>2, <1>3, RetypedPin
  <2>2. now <= now /\ e <= now + rules[id.model].ttl
    BY <1>3
  <2> HIDE DEF f
  <2>3. q[id] = f
    OBVIOUS
  <2> HIDE DEF q, e
  <2> QED
    BY <1>2, <1>3, <2>1, <2>2, <2>3 DEF Lawful
<1>5. objects \in [Ids -> Seq(PinType)]
  BY <1>1 DEF PinsOK
<1>6. objects' = [i \in Ids |-> IF i \in {id} THEN [objects[i] EXCEPT ![pins[i]] = q[i]]
                                ELSE objects[i]]
  BY <1>5 DEF Manual, Pin
<1>7. UNCHANGED <<now, rules, pins>>
  BY DEF Manual
<1> QED
  BY <1>1, <1>4, <1>6, <1>7, OverwriteKeeps

-----------------------------------------------------------------------------
(* Changing rules *)

(* A pin configure keeps, moved to where the new rule wants it.            *)
LEMMA MovedPinLawful ==
  ASSUME StoreTypeOK, PinsObeyRules, NEW new \in [Models -> Rules \cup {None}],
         NEW i \in Ids, i \in Keepable(i.model, new)
  PROVE  /\ MovedPin(i, new) \in PinType
         /\ MovedTo(i, new).model = i.model
         /\ Lawful(MovedTo(i, new), MovedPin(i, new))
         /\ MovedPin(i, new).rule = new[i.model]
<1> DEFINE old == rules[i.model]
           next == new[i.model]
           e == MovedExpiry(i, new)
<1>1. i.model \in Models /\ Bound(i) /\ pins[i] # 0
  BY IdFields DEF Keepable, BoundIds, Bound
<1>2. Compatible(old, next) /\ next.scope \in {old.scope, "model"}
  BY DEF Keepable
<1>3. Pin(i) \in PinType /\ Lawful(i, Pin(i)) /\ Pin(i).rule = old
  BY <1>1, StoreTypeIsPinsOK, StoredPin DEF PinsObeyRules
<1>4. old \in Rules /\ next \in Rules
  BY <1>1, <1>2 DEF StoreTypeOK, Compatible, Enabled
<1>5. next.enabled /\ next.pinned = old.pinned
  <2>1. old \in [enabled : BOOLEAN, scope : Scopes, ttl : Nat \ {0},
                 pinned : SUBSET Values, dropped : SUBSET Values]
    BY <1>4, StoreAssumption DEF IsRule
  <2> QED
    BY <2>1, <1>2 DEF Compatible, Enabled
<1>6. /\ Pin(i).capturedAt \in Nat /\ Pin(i).expiresAt \in Nat
      /\ next.ttl \in Nat /\ now \in Nat
  BY <1>3, <1>4, RuleFields DEF PinType, StoreTypeOK
<1>7. e \in Nat /\ e <= Pin(i).capturedAt + next.ttl
  BY <1>6 DEF MovedExpiry
<1>8. /\ MovedPin(i, new) \in PinType /\ MovedPin(i, new).rule = next
      /\ MovedPin(i, new).state = Pin(i).state
      /\ MovedPin(i, new).capturedAt = Pin(i).capturedAt /\ MovedPin(i, new).expiresAt = e
  <2> HIDE DEF e
  <2>1. MovedPin(i, new) = [Pin(i) EXCEPT !.expiresAt = e, !.rule = next]
    BY DEF MovedPin, e
  <2> QED
    BY <2>1, <1>3, <1>4, <1>7 DEF PinType
<1>9. MovedTo(i, new).model = i.model /\ MovedTo(i, new).scope = next.scope
  <2>1. CASE next.scope = "model"
    BY <2>1 DEF MovedTo, ModelBinding
  <2>2. CASE next.scope # "model"
    BY <2>2, <1>2, <1>3 DEF MovedTo, Lawful
  <2> QED
    BY <2>1, <2>2
<1>10. Pin(i).state \in next.pinned /\ Pin(i).capturedAt <= now
  BY <1>3, <1>5 DEF Lawful
<1> HIDE DEF e
<1> QED
  BY <1>4, <1>5, <1>7, <1>8, <1>9, <1>10 DEF Lawful

(* A binding under new rules: as it was, emptied, or with a pin that       *)
(* configure kept, under the new rule.                                     *)
LEMMA ConfigureMoves ==
  ASSUME NEW new \in [Models -> Rules \cup {None}], Configure(new), NEW id \in Ids
  PROVE  \/ /\ objects'[id] = objects[id]
            /\ pins'[id] = IF id.model \in Changed(new) THEN 0 ELSE pins[id]
         \/ \E i \in Ids :
              /\ i \in Keepable(i.model, new) /\ MovedTo(i, new) = id /\ MovedExpiry(i, new) > now
              /\ objects'[id] = Append(objects[id], MovedPin(i, new))
              /\ pins'[id] = Len(objects[id]) + 1
<1> DEFINE moved(kept) == {i \in kept : MovedExpiry(i, new) > now}
           source(kept, t) == CHOOSE i \in moved(kept) : MovedTo(i, new) = t
           filled(kept) == {MovedTo(i, new) : i \in moved(kept)}
<1>1. PICK kept \in SUBSET BoundIds :
        /\ \A i \in kept : i.model \in Changed(new)
        /\ \A m \in Changed(new) : {i \in kept : i.model = m} \in KeepChoices(m, new)
        /\ objects' = [t \in Ids |-> IF t \in filled(kept)
                         THEN Append(objects[t], MovedPin(source(kept, t), new))
                         ELSE objects[t]]
        /\ pins' = [t \in Ids |-> IF t \in filled(kept) THEN Len(objects[t]) + 1
                         ELSE IF t.model \in Changed(new) THEN 0 ELSE pins[t]]
  BY DEF Configure
<1>2. ASSUME NEW i \in kept
      PROVE  i \in Ids /\ i \in Keepable(i.model, new)
  <2>1. i \in Ids /\ i.model \in Changed(new)
    BY <1>1 DEF BoundIds
  <2>2. {t \in kept : t.model = i.model} \in KeepChoices(i.model, new)
    BY <1>1, <2>1
  <2>3. {t \in kept : t.model = i.model} \subseteq Keepable(i.model, new)
    BY <2>2 DEF KeepChoices
  <2> QED
    BY <2>1, <2>3
<1>3. CASE id \in filled(kept)
  <2>1. PICK i : i = source(kept, id)
    OBVIOUS
  <2>2. i \in kept /\ MovedExpiry(i, new) > now /\ MovedTo(i, new) = id
    BY <1>3, <2>1
  <2> HIDE DEF filled, source
  <2> QED
    BY <1>1, <1>2, <1>3, <2>1, <2>2
<1>4. CASE id \notin filled(kept)
  <2> HIDE DEF filled, source
  <2> QED
    BY <1>1, <1>4
<1> QED
  BY <1>3, <1>4

(* Rules change, and with them which pins are kept, where and how long. *)
LEMMA ConfigureKeeps ==
  ASSUME StoreTypeOK, PinsObeyRules, NEW new \in [Models -> Rules \cup {None}], Configure(new)
  PROVE  PinsOK'
<1>1. PinsOK /\ rules' = new /\ now' = now /\ rules \in [Models -> Rules \cup {None}]
  BY StoreTypeIsPinsOK DEF Configure, StoreTypeOK
<1>2. \A id \in Ids : /\ objects[id] \in Seq(PinType) /\ Len(objects[id]) \in Nat
                       /\ pins[id] \in Nat /\ pins[id] <= Len(objects[id])
  BY <1>1, LenProperties DEF PinsOK
<1>3. ASSUME NEW id \in Ids
      PROVE  /\ objects'[id] \in Seq(PinType) /\ pins'[id] \in Nat /\ pins'[id] <= Len(objects'[id])
             /\ pins'[id] # 0 => /\ Lawful(id, objects'[id][pins'[id]])
                                 /\ objects'[id][pins'[id]].rule = new[id.model]
  <2>1. ASSUME NEW i \in Ids, i \in Keepable(i.model, new), MovedTo(i, new) = id,
               objects'[id] = Append(objects[id], MovedPin(i, new)), pins'[id] = Len(objects[id]) + 1
        PROVE  /\ objects'[id] \in Seq(PinType) /\ pins'[id] \in Nat /\ pins'[id] <= Len(objects'[id])
               /\ Lawful(id, objects'[id][pins'[id]]) /\ objects'[id][pins'[id]].rule = new[id.model]
    <3>1. /\ MovedPin(i, new) \in PinType /\ Lawful(id, MovedPin(i, new))
          /\ MovedPin(i, new).rule = new[id.model]
      BY <2>1, MovedPinLawful
    <3> QED
      BY <1>2, <2>1, <3>1, AppendProperties
  <2>2. CASE /\ objects'[id] = objects[id]
             /\ pins'[id] = IF id.model \in Changed(new) THEN 0 ELSE pins[id]
    <3>1. CASE pins'[id] = 0
      BY <1>2, <2>2, <3>1
    <3>2. CASE pins'[id] # 0
      <4>1. pins'[id] = pins[id] /\ rules[id.model] = new[id.model] /\ Bound(id)
        BY <2>2, <3>2, IdFields DEF Changed, Bound
      <4> QED
        BY <1>2, <2>2, <4>1 DEF PinsObeyRules, Pin
    <3> QED
      BY <3>1, <3>2
  <2> QED
    BY <2>1, <2>2, ConfigureMoves
<1>4. objects' \in [Ids -> Seq(PinType)] /\ pins' \in [Ids -> Nat]
  BY <1>3 DEF Configure
<1>5. PinsObeyRules'
  BY <1>1, <1>3 DEF PinsObeyRules, Bound, Pin, Lawful
<1> QED
  BY <1>3, <1>4, <1>5 DEF PinsOK

-----------------------------------------------------------------------------
(* Persistence *)

(* Time and the other half of the store never make states.json unlawful.   *)
LEMMA DiskStays ==
  ASSUME StoreInv, now' \in Nat, now <= now', UNCHANGED saved
  PROVE  saved' \in [Ids -> PinType \cup {None}] /\ DiskLawful'
<1>1. ASSUME NEW id \in Ids, saved[id] # None
      PROVE  Lawful(id, saved[id])'
  <2>1. saved[id] \in PinType /\ Lawful(id, saved[id])
    BY <1>1 DEF StoreInv, StoreTypeOK, DiskLawful
  <2>2. saved[id].capturedAt \in Nat /\ now \in Nat
    BY <2>1 DEF PinType, StoreInv, StoreTypeOK
  <2> QED
    BY <2>1, <2>2 DEF Lawful
<1> QED
  BY <1>1 DEF StoreInv, StoreTypeOK, DiskLawful

(* A write puts the pins of that moment on disk. *)
LEMMA DiskWritten ==
  ASSUME PinsOK', UNCHANGED now, saved' = OnDisk(objects', pins')
  PROVE  saved' \in [Ids -> PinType \cup {None}] /\ DiskLawful'
<1>1. ASSUME NEW id \in Ids
      PROVE  \/ pins'[id] = 0 /\ saved'[id] = None
             \/ /\ pins'[id] # 0 /\ saved'[id] = objects'[id][pins'[id]]
                /\ saved'[id] \in PinType /\ Lawful(id, saved'[id])
  <2>1. objects'[id] \in Seq(PinType) /\ pins'[id] \in Nat /\ pins'[id] <= Len(objects'[id])
    BY DEF PinsOK
  <2>2. CASE pins'[id] = 0
    BY <2>2 DEF OnDisk
  <2>3. CASE pins'[id] # 0
    <3>1. pins'[id] \in 1 .. Len(objects'[id])
      BY <2>1, <2>3, LenProperties
    <3>2. saved'[id] = objects'[id][pins'[id]] /\ saved'[id] \in PinType
      BY <2>1, <2>3, <3>1, ElementOfSeq DEF OnDisk
    <3>3. Lawful(id, objects'[id][pins'[id]])
      BY <2>3, IdFields DEF PinsOK, PinsObeyRules, Bound, Pin, Lawful
    <3> QED
      BY <2>3, <3>2, <3>3
  <2> QED
    BY <2>2, <2>3
<1>2. saved' \in [Ids -> PinType \cup {None}]
  BY <1>1 DEF OnDisk
<1>3. \A id \in Ids : saved'[id] # None => Lawful(id, saved'[id])
  BY <1>1
<1>4. DiskLawful'
  BY <1>3 DEF DiskLawful, Lawful
<1> QED
  BY <1>2, <1>4

-----------------------------------------------------------------------------
(* Every method preserves the invariant *)

(* A response to an ordinary request. *)
LEMMA CaptureInv ==
  ASSUME StoreInv, NEW ctx, Attached(ctx), NEW v \in Values, NEW used,
         CaptureAutomatic(ctx, v, used), UNCHANGED <<now, rules, epochs, saved>>
  PROVE  StoreInv'
<1>1. StoreTypeOK /\ PinsObeyRules /\ now \in Nat
  BY DEF StoreInv, StoreTypeOK
<1>2. PinsOK' /\ unsaved' \in BOOLEAN
  <2>1. CASE CanAdopt(ctx, v) /\ Insert(ctx, v) /\ unsaved' = TRUE
    BY <2>1, <1>1, InsertKeeps
  <2>2. CASE Bound(ctx.id) /\ CanAdopt(ctx, v) /\ Reaccept(ctx.id)
    <3>1. ctx.id \in Ids
      BY <2>2 DEF Attached, Contexts, CanAdopt
    <3> QED
      BY <2>2, <3>1, <1>1, ReacceptKeeps DEF Reaccept
  <2>3. CASE Untouched
    <3>1. PinsOK
      BY <1>1, StoreTypeIsPinsOK
    <3> QED
      BY <2>3, <3>1, <1>1 DEF PinsOK, PinsObeyRules, Bound, Pin, Lawful, Untouched, StoreTypeOK
  <2> QED
    BY <2>1, <2>2, <2>3 DEF CaptureAutomatic
<1>3. saved' \in [Ids -> PinType \cup {None}] /\ DiskLawful'
  BY <1>1, DiskStays
<1> QED
  BY <1>1, <1>2, <1>3 DEF StoreInv, StoreTypeOK, PinsOK

(* A rejected pin. *)
LEMMA InvalidateInv ==
  ASSUME StoreInv, NEW ctx, Attached(ctx), NEW used, NEW usedState, NEW reason,
         InvalidateUsedPin(ctx, used, usedState, reason), UNCHANGED <<now, rules, epochs, saved>>
  PROVE  StoreInv'
<1>1. StoreTypeOK /\ PinsObeyRules /\ now \in Nat
  BY DEF StoreInv, StoreTypeOK
<1>2. PinsOK' /\ unsaved' \in BOOLEAN
  <2>1. CASE Bound(ctx.id) /\ Revoke({ctx.id}) /\ unsaved' = TRUE /\ UNCHANGED pins
    <3>1. {ctx.id} \in SUBSET BoundIds
      BY <2>1 DEF Attached, Contexts, Bound, BoundIds
    <3> QED
      BY <2>1, <3>1, <1>1, RevokeKeeps
  <2>2. CASE Untouched
    <3>1. PinsOK
      BY <1>1, StoreTypeIsPinsOK
    <3> QED
      BY <2>2, <3>1, <1>1 DEF PinsOK, PinsObeyRules, Bound, Pin, Lawful, Untouched, StoreTypeOK
  <2> QED
    BY <2>1, <2>2 DEF InvalidateUsedPin, MayInvalidate
<1>3. saved' \in [Ids -> PinType \cup {None}] /\ DiskLawful'
  BY <1>1, DiskStays
<1> QED
  BY <1>1, <1>2, <1>3 DEF StoreInv, StoreTypeOK, PinsOK

(* A probe's value, written at once if the write succeeds. *)
LEMMA AdoptInv ==
  ASSUME StoreInv, NEW ctx, Attached(ctx), NEW v \in Values, AdoptProbe(ctx, v)
  PROVE  StoreInv'
<1>1. StoreTypeOK /\ PinsObeyRules /\ now \in Nat /\ UNCHANGED <<now, rules, epochs>>
  BY DEF StoreInv, StoreTypeOK, AdoptProbe
<1>2. PinsOK' /\ unsaved' = FALSE
  BY <1>1, InsertKeeps DEF AdoptProbe
<1>3. saved' \in [Ids -> PinType \cup {None}] /\ DiskLawful'
  <2>1. CASE saved' = saved
    BY <2>1, <1>1, DiskStays
  <2>2. CASE saved' = OnDisk(objects', pins')
    BY <2>2, <1>1, <1>2, DiskWritten
  <2> QED
    BY <2>1, <2>2 DEF AdoptProbe
<1> QED
  BY <1>1, <1>2, <1>3 DEF StoreInv, StoreTypeOK, PinsOK

(* Every reset counts the model's epoch up. *)
LEMMA NextEpochType ==
  ASSUME StoreTypeOK, NEW changed
  PROVE  NextEpoch(changed) \in [Models -> Nat]
BY DEF StoreTypeOK, NextEpoch

(* refresh, of one binding or of a model. *)
LEMMA RefreshInv ==
  ASSUME StoreInv, NEW m, NEW ids \in SUBSET BoundIds, Refresh(m, ids)
  PROVE  StoreInv'
<1>1. /\ StoreTypeOK /\ PinsObeyRules /\ now \in Nat /\ UNCHANGED <<now, rules, pins, saved>>
      /\ Revoke(ids) /\ epochs' = NextEpoch({m}) /\ unsaved' = TRUE
  BY DEF StoreInv, StoreTypeOK, Refresh
<1>2. PinsOK'
  BY <1>1, RevokeKeeps
<1>3. saved' \in [Ids -> PinType \cup {None}] /\ DiskLawful'
  BY <1>1, DiskStays
<1>4. epochs' \in [Models -> Nat]
  BY <1>1, NextEpochType
<1> QED
  BY <1>1, <1>2, <1>3, <1>4 DEF StoreInv, StoreTypeOK, PinsOK

(* manual. *)
LEMMA ManualInv ==
  ASSUME StoreInv, NEW id \in Ids, NEW v \in Values, Manual(id, v)
  PROVE  StoreInv'
<1>1. /\ StoreTypeOK /\ PinsObeyRules /\ now \in Nat /\ UNCHANGED <<now, rules, saved>>
      /\ epochs' = NextEpoch({id.model}) /\ unsaved' = TRUE
  BY DEF StoreInv, StoreTypeOK, Manual
<1>2. PinsOK'
  BY <1>1, ManualKeeps
<1>3. saved' \in [Ids -> PinType \cup {None}] /\ DiskLawful'
  BY <1>1, DiskStays
<1>4. epochs' \in [Models -> Nat]
  BY <1>1, NextEpochType
<1> QED
  BY <1>1, <1>2, <1>3, <1>4 DEF StoreInv, StoreTypeOK, PinsOK

(* configure. *)
LEMMA ConfigureInv ==
  ASSUME StoreInv, NEW new \in [Models -> Rules \cup {None}], Configure(new)
  PROVE  StoreInv'
<1>1. /\ StoreTypeOK /\ PinsObeyRules /\ now \in Nat /\ UNCHANGED <<now, saved>>
      /\ epochs' = NextEpoch(Changed(new)) /\ unsaved' = TRUE /\ rules' = new
  BY DEF StoreInv, StoreTypeOK, Configure
<1>2. PinsOK'
  BY <1>1, ConfigureKeeps
<1>3. saved' \in [Ids -> PinType \cup {None}] /\ DiskLawful'
  BY <1>1, DiskStays
<1>4. epochs' \in [Models -> Nat]
  BY <1>1, NextEpochType
<1> QED
  BY <1>1, <1>2, <1>3, <1>4 DEF StoreInv, StoreTypeOK, PinsOK

(* The scheduled write, the clock, and steps that leave the store alone. *)
LEMMA QuietInv ==
  ASSUME StoreInv, Flush \/ Advance \/ UNCHANGED storeVars
  PROVE  StoreInv'
<1>1. /\ UNCHANGED <<rules, epochs, objects, pins>> /\ now' \in Nat /\ now <= now'
      /\ unsaved' \in BOOLEAN
  <2>1. now \in Nat /\ unsaved \in BOOLEAN
    BY DEF StoreInv, StoreTypeOK
  <2>2. CASE Flush
    <3>1. unsaved' \in BOOLEAN
      BY <2>2, Zenon DEF Flush
    <3>2. UNCHANGED <<now, rules, epochs, objects, pins>>
      BY <2>2, Zenon DEF Flush
    <3> QED
      BY <2>1, <3>1, <3>2
  <2>3. CASE Advance
    BY <2>1, <2>3 DEF Advance
  <2>4. CASE UNCHANGED storeVars
    BY <2>1, <2>4 DEF storeVars
  <2> QED
    BY <2>2, <2>3, <2>4
<1>2. PinsOK
  BY StoreTypeIsPinsOK DEF StoreInv
<1>3. PinsOK'
  <2>1. ASSUME NEW id \in Ids, pins[id] # 0
        PROVE  /\ Pin(id).capturedAt <= now' /\ Lawful(id, Pin(id))
               /\ Pin(id).rule = rules[id.model]
    <3>1. Pin(id) \in PinType /\ Lawful(id, Pin(id)) /\ Pin(id).rule = rules[id.model]
      BY <2>1, <1>2, StoredPin, IdFields DEF PinsOK, PinsObeyRules, Bound
    <3> QED
      BY <3>1, <1>1 DEF PinType, Lawful, StoreInv, StoreTypeOK
  <2>2. PinsObeyRules'
    BY <1>1, <2>1 DEF PinsObeyRules, Bound, Pin, Lawful
  <2> QED
    BY <1>1, <1>2, <2>2 DEF PinsOK
<1>4. saved' \in [Ids -> PinType \cup {None}] /\ DiskLawful'
  <2>1. CASE saved' = saved
    BY <2>1, <1>1, DiskStays
  <2>2. CASE saved' = OnDisk(objects, pins) /\ now' = now
    BY <2>2, <1>1, <1>3, DiskWritten DEF OnDisk
  <2> QED
    BY <2>1, <2>2 DEF Flush, Advance, storeVars
<1> QED
  BY <1>1, <1>3, <1>4 DEF StoreInv, StoreTypeOK, PinsOK

(* The sequences a new process starts with. *)
LEMMA ShortSeq ==
  ASSUME NEW S
  PROVE  /\ <<>> \in Seq(S) /\ Len(<<>>) = 0
         /\ \A x \in S : <<x>> \in Seq(S) /\ Len(<<x>>) = 1 /\ <<x>>[1] = x
<1>1. <<>> \in Seq(S) /\ Len(<<>>) = 0
  BY EmptySeq
<1>2. ASSUME NEW x \in S
      PROVE  <<x>> \in Seq(S) /\ Len(<<x>>) = 1 /\ <<x>>[1] = x
  OBVIOUS
<1> QED
  BY <1>1, <1>2

(* A new process finds the pins whose rule still holds. *)
LEMMA LoadInv ==
  ASSUME StoreInv, Load
  PROVE  StoreInv'
<1>1. /\ StoreTypeOK /\ DiskLawful /\ UNCHANGED <<now, rules, saved>> /\ now \in Nat
      /\ epochs' = [m \in Models |-> 0] /\ unsaved' = FALSE
  BY DEF StoreInv, StoreTypeOK, Load
<1> DEFINE kept(id) == saved[id] # None /\ saved[id].rule = rules[id.model]
<1>2. ASSUME NEW id \in Ids
      PROVE  \/ /\ kept(id) /\ objects'[id] = <<saved[id]>> /\ pins'[id] = 1
                /\ saved[id] \in PinType /\ Lawful(id, saved[id])
             \/ ~kept(id) /\ objects'[id] = <<>> /\ pins'[id] = 0
  <2>1. CASE kept(id)
    <3>1. saved[id] \in PinType /\ Lawful(id, saved[id])
      BY <2>1, <1>1 DEF StoreTypeOK, DiskLawful
    <3>2. objects'[id] = <<saved[id]>> /\ pins'[id] = Len(objects'[id])
      BY <2>1 DEF Load
    <3> QED
      BY <2>1, <3>1, <3>2
  <2>2. CASE ~kept(id)
    BY <2>2 DEF Load
  <2> QED
    BY <2>1, <2>2
<1>3. /\ \A id \in Ids : /\ objects'[id] \in Seq(PinType) /\ pins'[id] \in Nat
                          /\ pins'[id] <= Len(objects'[id])
      /\ \A id \in Ids : pins'[id] # 0 =>
            /\ Lawful(id, objects'[id][pins'[id]])
            /\ objects'[id][pins'[id]].rule = rules[id.model]
  <2>1. ASSUME NEW id \in Ids
        PROVE  /\ objects'[id] \in Seq(PinType) /\ pins'[id] \in Nat
               /\ pins'[id] <= Len(objects'[id])
    <3>1. \/ /\ objects'[id] = <<saved[id]>> /\ pins'[id] = 1 /\ saved[id] \in PinType
          \/ objects'[id] = <<>> /\ pins'[id] = 0
      BY <1>2
    <3>2. /\ <<>> \in Seq(PinType) /\ Len(<<>>) = 0
          /\ saved[id] \in PinType => <<saved[id]>> \in Seq(PinType) /\ Len(<<saved[id]>>) = 1
      BY ShortSeq
    <3>3. \/ objects'[id] \in Seq(PinType) /\ Len(objects'[id]) = 1 /\ pins'[id] = 1
          \/ objects'[id] \in Seq(PinType) /\ Len(objects'[id]) = 0 /\ pins'[id] = 0
      BY <3>1, <3>2, Zenon
    <3> QED
      BY <3>3
  <2>2. ASSUME NEW id \in Ids, pins'[id] # 0
        PROVE  /\ Lawful(id, objects'[id][pins'[id]])
               /\ objects'[id][pins'[id]].rule = rules[id.model]
    BY <2>2, <1>2
  <2> QED
    BY <2>1, <2>2
<1>4. objects' \in [Ids -> Seq(PinType)] /\ pins' \in [Ids -> Nat]
  BY <1>3 DEF Load
<1>5. PinsObeyRules'
  BY <1>1, <1>3 DEF PinsObeyRules, Bound, Pin, Lawful
<1>6. saved' \in [Ids -> PinType \cup {None}] /\ DiskLawful'
  BY <1>1, DiskStays
<1> QED
  BY <1>1, <1>3, <1>4, <1>5, <1>6 DEF StoreInv, StoreTypeOK

(* An empty store. *)
LEMMA InitInv == StoreInit => StoreInv
<1> SUFFICES ASSUME StoreInit PROVE StoreInv
  OBVIOUS
<1>1. \A id \in Ids : objects[id] = <<>> /\ pins[id] = 0 /\ saved[id] = None
  BY DEF StoreInit
<1>2. StoreTypeOK
  <2>1. /\ now \in Nat /\ rules \in [Models -> Rules \cup {None}] /\ unsaved \in BOOLEAN
        /\ epochs \in [Models -> Nat] /\ pins \in [Ids -> Nat]
        /\ saved \in [Ids -> PinType \cup {None}]
    BY DEF StoreInit
  <2>2. \A id \in Ids : objects[id] \in Seq(PinType) /\ Len(objects[id]) = 0
    BY <1>1, ShortSeq, Zenon
  <2>3. objects \in [Ids -> Seq(PinType)]
    BY <2>2 DEF StoreInit
  <2>4. \A id \in Ids : pins[id] <= Len(objects[id])
    BY <1>1, <2>2
  <2> QED
    BY <2>1, <2>3, <2>4 DEF StoreTypeOK
<1> QED
  BY <1>1, <1>2 DEF StoreInit, StoreInv, PinsObeyRules, Bound, DiskLawful

-----------------------------------------------------------------------------
(* What a method leaves of each binding *)

(* Insert: a new object for one binding; of the others at most one goes.   *)
LEMMA InsertMoves ==
  ASSUME StoreInv, NEW ctx, ctx.id \in Ids, NEW v, Insert(ctx, v), NEW id \in Ids
  PROVE  /\ id = ctx.id => /\ pins'[id] = Len(objects[id]) + 1 /\ pins'[id] # pins[id]
                           /\ objects'[id] = Append(objects[id], NewPin(ctx, v))
         /\ id # ctx.id => objects'[id] = objects[id] /\ pins'[id] \in {0, pins[id]}
<1>1. /\ objects \in [Ids -> Seq(PinType)] /\ pins[id] \in Nat /\ pins[id] <= Len(objects[id])
      /\ Len(objects[id]) \in Nat
  BY LenProperties DEF StoreInv, StoreTypeOK
<1>2. PICK old : pins' = [i \in Ids |-> IF i = ctx.id THEN Len(objects[i]) + 1
                                        ELSE IF i = old THEN 0 ELSE pins[i]]
  BY DEF Insert
<1>3. objects' = [objects EXCEPT ![ctx.id] = Append(@, NewPin(ctx, v))]
  BY DEF Insert
<1> QED
  BY <1>1, <1>2, <1>3

(* Reaccept moves nothing but the accepted flag. *)
LEMMA ReacceptEffect ==
  ASSUME StoreInv, NEW i \in Ids, Bound(i), Reaccept(i), NEW id \in Ids, Bound(id)
  PROVE  /\ pins'[id] = pins[id] /\ Pin(id)'.state = Pin(id).state
         /\ Pin(id)'.expiresAt = Pin(id).expiresAt /\ Pin(id)'.pending = Pin(id).pending
         /\ Pin(id)'.capturedAt = Pin(id).capturedAt
<1>1. PinsOK
  BY StoreTypeIsPinsOK DEF StoreInv
<1>2. pins[id] \in 1 .. Len(objects[id]) /\ Pin(id) \in PinType
  BY <1>1, StoredPin DEF Bound
<1>3. pins' = pins
  BY DEF Reaccept
<1>4. objects \in [Ids -> Seq(PinType)] /\ objects[id] \in Seq(PinType)
  BY <1>1 DEF PinsOK
<1>5. CASE id # i
  <2>1. objects'[id] = objects[id]
    BY <1>4, <1>5 DEF Reaccept
  <2> QED
    BY <1>3, <2>1 DEF Pin
<1>6. CASE id = i
  <2>1. objects'[id] = [objects[id] EXCEPT ![pins[id]] = [Pin(id) EXCEPT !.accepted = TRUE]]
    BY <1>2, <1>4, <1>6 DEF Reaccept, Pin
  <2>2. [Pin(id) EXCEPT !.accepted = TRUE] \in PinType
    BY <1>2 DEF PinType
  <2>3. Pin(id)' = [Pin(id) EXCEPT !.accepted = TRUE]
    <3>1. [objects[id] EXCEPT ![pins[id]] = [Pin(id) EXCEPT !.accepted = TRUE]][pins[id]]
            = [Pin(id) EXCEPT !.accepted = TRUE]
      BY <1>2, <1>4, <2>2, ExceptSeq
    <3>2. Pin(id)' = objects'[id][pins[id]]
      BY <1>3 DEF Pin
    <3> QED
      BY <2>1, <3>1, <3>2
  <2> QED
    BY <1>2, <1>3, <2>3 DEF PinType
<1> QED
  BY <1>5, <1>6

(* Revoke: the pins of some bindings, in place. *)
LEMMA RevokeMoves ==
  ASSUME StoreInv, NEW ids \in SUBSET BoundIds, Revoke(ids), UNCHANGED pins, NEW id \in Ids
  PROVE  /\ id \notin ids => objects'[id] = objects[id]
         /\ id \in ids => Pin(id)' = [Pin(id) EXCEPT !.pending = TRUE, !.expiresAt = 0]
<1>1. objects' = [j \in Ids |-> IF j \in ids
        THEN [objects[j] EXCEPT ![pins[j]] = [@ EXCEPT !.pending = TRUE, !.expiresAt = 0]]
        ELSE objects[j]]
  BY DEF Revoke
<1>2. CASE id \in ids
  <2>1. PinsOK
    BY StoreTypeIsPinsOK DEF StoreInv
  <2>2. pins[id] \in 1 .. Len(objects[id]) /\ Pin(id) \in PinType /\ objects[id] \in Seq(PinType)
    BY <1>2, <2>1, StoredPin DEF BoundIds, PinsOK
  <2>3. [Pin(id) EXCEPT !.pending = TRUE, !.expiresAt = 0] \in PinType
    BY <2>2 DEF PinType
  <2>4. objects'[id] = [objects[id] EXCEPT ![pins[id]] = [Pin(id) EXCEPT !.pending = TRUE, !.expiresAt = 0]]
    BY <1>1, <1>2 DEF Pin
  <2>5. objects'[id][pins[id]] = [Pin(id) EXCEPT !.pending = TRUE, !.expiresAt = 0]
    BY <2>2, <2>3, <2>4, ExceptSeq
  <2>6. Pin(id)' = objects'[id][pins[id]]
    BY DEF Pin
  <2> QED
    BY <1>2, <2>5, <2>6
<1> QED
  BY <1>1, <1>2

(* Manual: one pin, in place. *)
LEMMA ManualMoves ==
  ASSUME StoreInv, NEW i \in Ids, NEW v, v \in Values, Manual(i, v), NEW id \in Ids
  PROVE  /\ id # i => objects'[id] = objects[id]
         /\ id = i => Pin(id)' = Retyped(Pin(id), v, now + rules[id.model].ttl)
<1>1. PinsOK /\ Bound(i) /\ UNCHANGED pins
  BY StoreTypeIsPinsOK DEF StoreInv, Manual
<1>2. /\ objects \in [Ids -> Seq(PinType)]
      /\ objects' = [objects EXCEPT ![i][pins[i]] = Retyped(@, v, now + rules[i.model].ttl)]
  BY <1>1 DEF PinsOK, Manual
<1>3. CASE id = i
  <2>1. PICK e : e = now + rules[i.model].ttl
    OBVIOUS
  <2>2. /\ pins[i] \in 1 .. Len(objects[i]) /\ Pin(i) \in PinType /\ objects[i] \in Seq(PinType)
        /\ Pin(i).rule = rules[i.model] /\ Pin(i).rule \in Rules
    BY <1>1, StoredPin DEF Bound, PinsOK, PinsObeyRules, Lawful
  <2>3. Retyped(Pin(i), v, e) \in PinType
    <3>1. now \in Nat /\ e \in Nat
      BY <2>1, <2>2, RuleFields DEF StoreInv, StoreTypeOK
    <3> QED
      BY <2>2, <3>1, RetypedPin
  <2>4. objects'[i] = [objects[i] EXCEPT ![pins[i]] = Retyped(Pin(i), v, e)]
    BY <1>2, <2>1 DEF Pin
  <2>5. objects'[i][pins[i]] = Retyped(Pin(i), v, e)
    BY <2>2, <2>3, <2>4, ExceptSeq
  <2>6. Pin(i)' = objects'[i][pins[i]]
    BY <1>1 DEF Pin
  <2> QED
    BY <1>3, <2>1, <2>5, <2>6
<1> QED
  BY <1>2, <1>3
=============================================================================
