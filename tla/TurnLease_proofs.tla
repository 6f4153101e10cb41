-------------------------- MODULE TurnLease_proofs --------------------------
(***************************************************************************)
(* TurnState implements BindingLease: no interleaving of requests, probes, *)
(* renewals, rule edits, failing writes and restarts leases a value again  *)
(* that its binding already holds, or for longer than its capture and the  *)
(* rule allow.                                                             *)
(*                                                                         *)
(* Each method of lib/states.mjs is mapped to a step of BindingLease or to *)
(* none; LeaseSteps then goes through the actions of TurnState.            *)
(***************************************************************************)
EXTENDS TurnState_proofs

LeaseNow == [id \in Ids |-> LeaseOf(OnDisk(objects, pins)[id])]
DiskNow == [id \in Ids |-> LeaseOf(saved[id])]

(* The lease a stored pin stands for. *)
Given(p) == [value |-> p.state, since |-> p.capturedAt, until |-> p.expiresAt]

LeaseStep == [Lease!Next]_<<now, LeaseNow, DiskNow>>

-----------------------------------------------------------------------------
(* Leases of pins *)

(* A binding without a pin has no lease, one with a pin has that pin's. *)
LEMMA LeaseValue ==
  ASSUME NEW objs \in [Ids -> Seq(PinType)], NEW ps \in [Ids -> Nat], NEW id \in Ids,
         ps[id] <= Len(objs[id])
  PROVE  /\ ps[id] = 0 => LeaseOf(OnDisk(objs, ps)[id]) = None
         /\ ps[id] # 0 => /\ LeaseOf(OnDisk(objs, ps)[id]) = Given(objs[id][ps[id]])
                          /\ Given(objs[id][ps[id]]) # None
<1>1. OnDisk(objs, ps)[id] = IF ps[id] = 0 THEN None ELSE objs[id][ps[id]]
  BY DEF OnDisk
<1>2. ASSUME ps[id] # 0
      PROVE  /\ objs[id][ps[id]] # None
             /\ Given(objs[id][ps[id]]) # None
  <2>1. objs[id] \in Seq(PinType) /\ ps[id] \in 1 .. Len(objs[id])
    BY <1>2, LenProperties
  <2>2. PICK p : p = objs[id][ps[id]]
    OBVIOUS
  <2>3. p \in PinType
    BY <2>1, <2>2, ElementOfSeq
  <2>4. Given(p) \in [value : Values, since : Nat, until : Nat]
    BY <2>3 DEF Given, PinType
  <2> QED
    BY <2>2, <2>3, <2>4, TurnStateAssumption
<1> QED
  BY <1>1, <1>2 DEF LeaseOf, Given

(* The same of the store, before a step and after it. *)
LEMMA LeaseHeld ==
  ASSUME StoreInv, NEW id \in Ids
  PROVE  /\ pins[id] = 0 => LeaseNow[id] = None
         /\ pins[id] # 0 => LeaseNow[id] = Given(Pin(id)) /\ LeaseNow[id] # None
<1>1. LeaseNow[id] = LeaseOf(OnDisk(objects, pins)[id])
  BY DEF LeaseNow
<1> QED
  BY <1>1, LeaseValue DEF StoreInv, StoreTypeOK, Pin

(* The same after a step. *)
LEMMA LeaseHeldNext ==
  ASSUME StoreInv', NEW id \in Ids
  PROVE  /\ pins'[id] = 0 => LeaseNow'[id] = None
         /\ pins'[id] # 0 => LeaseNow'[id] = Given(Pin(id)') /\ LeaseNow'[id] # None
<1>1. LeaseNow'[id] = LeaseOf(OnDisk(objects', pins')[id])
  BY DEF LeaseNow
<1> QED
  BY <1>1, LeaseValue DEF StoreInv, StoreTypeOK, Pin

(* A binding that a step leaves alone. *)
LEMMA LeaseKept ==
  ASSUME NEW id \in Ids, objects'[id] = objects[id], pins'[id] = pins[id]
  PROVE  LeaseNow'[id] = LeaseNow[id]
BY DEF LeaseNow, OnDisk

(* What a write puts on disk. *)
LEMMA DiskAfter ==
  /\ saved' = saved => DiskNow' = DiskNow
  /\ saved' = OnDisk(objects', pins') => DiskNow' = LeaseNow'
  /\ saved' = OnDisk(objects, pins) => DiskNow' = LeaseNow
BY DEF DiskNow, LeaseNow

-----------------------------------------------------------------------------
(* The methods of the store *)

(* A value the binding does not hold yet is a grant, and the pin a full    *)
(* Map drops for it makes room.                                            *)
LEMMA InsertGrants ==
  ASSUME StoreInv, StoreInv', NEW ctx, Attached(ctx), NEW v \in Values, CanAdopt(ctx, v),
         Insert(ctx, v), Bound(ctx.id) => Pin(ctx.id).state # v,
         UNCHANGED now, saved' \in {saved, OnDisk(objects', pins')}
  PROVE  LeaseStep
<1>1. PICK b, ttl : b = ctx.id /\ ttl = rules[ctx.model].ttl
  OBVIOUS
<1>2. b \in Ids /\ ttl \in {rule.ttl : rule \in Rules}
  BY <1>1 DEF CanAdopt, Enabled, Attached, Contexts, StoreInv, StoreTypeOK
<1>3. LeaseNow'[b] = [value |-> v, since |-> now, until |-> now + ttl]
  <2>1. pins'[b] = Len(objects[b]) + 1 /\ objects'[b] = Append(objects[b], NewPin(ctx, v))
    BY <1>1, <1>2, InsertMoves
  <2>2. NewPin(ctx, v) \in PinType /\ objects[b] \in Seq(PinType)
    BY <1>2, NewPinLawful DEF StoreInv, StoreTypeOK
  <2>3. pins'[b] # 0 /\ Pin(b)' = NewPin(ctx, v)
    <3>1. Pin(b)' = objects'[b][pins'[b]]
      BY DEF Pin
    <3> QED
      BY <2>1, <2>2, <3>1, AppendProperties, LenProperties
  <2> QED
    BY <1>1, <1>2, <2>3, LeaseHeldNext DEF Given, NewPin
<1>4. PICK dropped \in SUBSET (Ids \ {b}) :
        \A x \in Ids \ {b} : LeaseNow'[x] = IF x \in dropped THEN None ELSE LeaseNow[x]
  <2>1. ASSUME NEW x \in Ids \ {b}
        PROVE  LeaseNow'[x] = IF pins'[x] = 0 THEN None ELSE LeaseNow[x]
    <3>1. objects'[x] = objects[x] /\ pins'[x] \in {0, pins[x]}
      BY <1>1, <1>2, InsertMoves
    <3> QED
      BY <3>1, LeaseKept, LeaseHeldNext
  <2> DEFINE dropped == {x \in Ids \ {b} : pins'[x] = 0}
  <2>2. dropped \in SUBSET (Ids \ {b})
    OBVIOUS
  <2>3. \A x \in Ids \ {b} : LeaseNow'[x] = IF x \in dropped THEN None ELSE LeaseNow[x]
    BY <2>1
  <2> HIDE DEF dropped
  <2> QED
    BY <2>2, <2>3
<1>5. LeaseNow' = [x \in Ids |-> IF x = b THEN [value |-> v, since |-> now, until |-> now + ttl]
                                 ELSE IF x \in dropped THEN None ELSE LeaseNow[x]]
  BY <1>2, <1>3, <1>4 DEF LeaseNow
<1>6. LeaseNow[b] # None => LeaseNow[b].value # v
  <2>1. pins[b] = 0 => LeaseNow[b] = None
    BY <1>2, LeaseHeld
  <2>2. pins[b] # 0 => LeaseNow[b] = Given(Pin(b)) /\ Pin(b).state # v
    BY <1>1, <1>2, LeaseHeld, IdFields DEF Bound
  <2> QED
    BY <2>1, <2>2 DEF Given
<1>7. DiskNow' \in {DiskNow, LeaseNow'}
  BY DiskAfter
<1>8. Lease!Grant(b, v, ttl)
  BY <1>4, <1>5, <1>6, <1>7 DEF Lease!Grant, Lease!Leased, LeaseNow, DiskNow
<1> QED
  BY <1>2, <1>8 DEF LeaseStep, Lease!Next

(* The same value again, and calls that change nothing, are no step. *)
LEMMA QuietStep ==
  ASSUME UNCHANGED <<now, objects, pins, saved>>
  PROVE  LeaseStep
BY DEF LeaseStep, LeaseNow, DiskNow

(* The same value again, marked as accepted. *)
LEMMA ReacceptStep ==
  ASSUME StoreInv, StoreInv', NEW i \in Ids, Bound(i), Reaccept(i), UNCHANGED <<now, saved>>
  PROVE  LeaseStep
<1>1. ASSUME NEW id \in Ids PROVE LeaseNow'[id] = LeaseNow[id]
  <2>1. pins' = pins
    BY DEF Reaccept
  <2>2. CASE pins[id] # 0
    <3>1. Bound(id)
      BY <2>2, IdFields DEF Bound
    <3>2. Given(Pin(id)') = Given(Pin(id))
      BY <3>1, ReacceptEffect DEF Given
    <3> QED
      BY <2>1, <2>2, <3>2, LeaseHeld, LeaseHeldNext
  <2> QED
    BY <2>1, <2>2, LeaseHeld, LeaseHeldNext
<1>2. LeaseNow' = LeaseNow
  BY <1>1 DEF LeaseNow
<1> QED
  BY <1>2, DiskAfter DEF LeaseStep

(* A response of an ordinary request. *)
LEMMA CaptureStep ==
  ASSUME StoreInv, StoreInv', NEW ctx, Attached(ctx), NEW v \in Values, NEW used,
         CaptureAutomatic(ctx, v, used), UNCHANGED <<now, saved>>
  PROVE  LeaseStep
<1>1. CASE CanAdopt(ctx, v) /\ Insert(ctx, v) /\ ~(Bound(ctx.id) /\ Pin(ctx.id).state = v)
  BY <1>1, InsertGrants
<1>2. CASE Bound(ctx.id) /\ Reaccept(ctx.id)
  <2>1. ctx.id \in Ids
    BY <1>2 DEF Bound, Attached, Contexts
  <2> QED
    BY <1>2, <2>1, ReacceptStep
<1>3. CASE Untouched
  BY <1>3, QuietStep DEF Untouched
<1> QED
  BY <1>1, <1>2, <1>3 DEF CaptureAutomatic

(* Rejecting a value, or resetting values. *)
LEMMA RevokeStep ==
  ASSUME StoreInv, StoreInv', NEW ids \in SUBSET BoundIds, Revoke(ids), UNCHANGED <<now, pins, saved>>
  PROVE  LeaseStep
<1>1. ids \in SUBSET Ids
  BY DEF BoundIds
<1>2. ASSUME NEW id \in Ids
      PROVE  LeaseNow'[id] = IF id \in ids /\ LeaseNow[id] # None
                             THEN [LeaseNow[id] EXCEPT !.until = 0] ELSE LeaseNow[id]
  <2>1. CASE id \in ids
    <3>1. PICK p, q : p = Pin(id) /\ q = Pin(id)'
      OBVIOUS
    <3>2. pins[id] # 0 /\ pins'[id] = pins[id]
      BY <2>1 DEF BoundIds
    <3>3. p \in PinType
      BY <3>1, <3>2, StoreTypeIsPinsOK, StoredPin DEF StoreInv
    <3>4. q = [p EXCEPT !.pending = TRUE, !.expiresAt = 0]
      BY <2>1, <3>1, RevokeMoves
    <3>5. Given(q) = [Given(p) EXCEPT !.until = 0]
      BY <3>3, <3>4 DEF Given, PinType
    <3> QED
      BY <2>1, <3>1, <3>2, <3>5, LeaseHeld, LeaseHeldNext
  <2>2. CASE id \notin ids
    BY <2>2, RevokeMoves, LeaseKept
  <2> QED
    BY <2>1, <2>2
<1>3. LeaseNow' = [b \in Ids |-> IF b \in ids /\ LeaseNow[b] # None
                                 THEN [LeaseNow[b] EXCEPT !.until = 0] ELSE LeaseNow[b]]
  BY <1>2 DEF LeaseNow
<1>4. Lease!Revoke(ids)
  BY <1>3, DiskAfter DEF Lease!Revoke, Lease!Leased, LeaseNow, DiskNow
<1> QED
  BY <1>1, <1>4 DEF LeaseStep, Lease!Next

(* A response that rejected the value it was sent with. *)
LEMMA InvalidateStep ==
  ASSUME StoreInv, StoreInv', NEW ctx, Attached(ctx), NEW used, NEW usedState, NEW reason,
         InvalidateUsedPin(ctx, used, usedState, reason), UNCHANGED <<now, saved>>
  PROVE  LeaseStep
<1>1. CASE Bound(ctx.id) /\ Revoke({ctx.id}) /\ UNCHANGED pins
  <2>1. {ctx.id} \in SUBSET BoundIds
    BY <1>1 DEF Attached, Contexts, Bound, BoundIds
  <2> QED
    BY <1>1, <2>1, RevokeStep
<1>2. CASE Untouched
  BY <1>2, QuietStep DEF Untouched
<1> QED
  BY <1>1, <1>2 DEF InvalidateUsedPin, MayInvalidate

(* A value typed in by the administrator. *)
LEMMA ManualStep ==
  ASSUME StoreInv, StoreInv', NEW i \in Ids, NEW v \in Values, Manual(i, v)
  PROVE  LeaseStep
<1>1. PICK ttl : ttl = rules[i.model].ttl
  OBVIOUS
<1>2. ttl \in {rule.ttl : rule \in Rules}
  BY <1>1, IdFields DEF Manual, StoreInv, StoreTypeOK
<1>3. pins[i] # 0 /\ UNCHANGED <<now, pins, saved>>
  BY DEF Manual, Bound
<1>4. LeaseNow'[i] = [value |-> v, since |-> now, until |-> now + ttl]
  <2>1. Pin(i)' = Retyped(Pin(i), v, now + ttl)
    BY <1>1, ManualMoves
  <2> QED
    BY <1>3, <2>1, LeaseHeldNext DEF Given, Retyped
<1>5. \A id \in Ids \ {i} : LeaseNow'[id] = LeaseNow[id]
  BY <1>3, ManualMoves, LeaseKept
<1>6. LeaseNow' = [LeaseNow EXCEPT ![i] = [value |-> v, since |-> now, until |-> now + ttl]]
  BY <1>4, <1>5 DEF LeaseNow
<1>7. Lease!Override(i, v, ttl)
  BY <1>3, <1>6, LeaseHeld, DiskAfter DEF Lease!Override, Lease!Leased, LeaseNow, DiskNow
<1> QED
  BY <1>2, <1>7 DEF LeaseStep, Lease!Next

(* New rules keep a lease, drop it, or recount it from its start.          *)
LEMMA ConfigureStep ==
  ASSUME StoreInv, StoreInv', NEW new \in [Models -> Rules \cup {None}], Configure(new)
  PROVE  LeaseStep
<1>1. UNCHANGED <<now, saved>>
  BY DEF Configure
<1>2. ASSUME NEW id \in Ids, NEW i \in Ids,
             i \in Keepable(i.model, new), MovedTo(i, new) = id, MovedExpiry(i, new) > now,
             objects'[id] = Append(objects[id], MovedPin(i, new)),
             pins'[id] = Len(objects[id]) + 1
      PROVE  /\ id.model = i.model /\ i.model \in Models
             /\ Lease!Recounted(i, LeaseNow'[id])
  <2>1. /\ MovedPin(i, new) \in PinType /\ MovedTo(i, new).model = i.model
        /\ i.model \in Models /\ pins[i] # 0 /\ Pin(i).expiresAt > now
        /\ LeaseNow[i] = Given(Pin(i)) /\ LeaseNow[i] # None /\ Pin(i) \in PinType
    BY <1>2, MovedPinLawful, IdFields, LeaseHeld, StoreTypeIsPinsOK, StoredPin
      DEF StoreInv, Keepable, BoundIds
  <2>2. LeaseNow'[id] = Given(MovedPin(i, new))
    <3>1. objects[id] \in Seq(PinType)
      BY DEF StoreInv, StoreTypeOK
    <3>2. pins'[id] # 0 /\ Pin(id)' = MovedPin(i, new)
      <4>1. Pin(id)' = objects'[id][pins'[id]]
        BY DEF Pin
      <4> QED
        BY <1>2, <2>1, <3>1, <4>1, AppendProperties, LenProperties
    <3> QED
      BY <3>2, LeaseHeldNext
  <2>3. PICK e, ttl : e = MovedExpiry(i, new) /\ ttl = new[i.model].ttl
    OBVIOUS
  <2>4. /\ Given(MovedPin(i, new)).value = Pin(i).state
        /\ Given(MovedPin(i, new)).since = Pin(i).capturedAt
        /\ Given(MovedPin(i, new)).until = e
    <3>1. MovedPin(i, new) = [Pin(i) EXCEPT !.expiresAt = e, !.rule = new[i.model]]
      BY <2>3 DEF MovedPin
    <3> QED
      BY <2>1, <3>1 DEF Given, PinType
  <2>5. new[i.model] \in Rules /\ ttl \in Nat
    BY <1>2, <2>1, <2>3, RuleFields DEF Keepable, Compatible, Enabled
  <2>6. e <= Pin(i).capturedAt + ttl
    BY <2>1, <2>3, <2>5 DEF MovedExpiry, PinType
  <2>7. \E t \in {rule.ttl : rule \in Rules} : e <= Pin(i).capturedAt + t
    BY <2>3, <2>5, <2>6
  <2>8. PICK l : l = LeaseNow'[id]
    OBVIOUS
  <2>9. /\ LeaseNow[i] # None /\ LeaseNow[i].until > now
        /\ l.value = LeaseNow[i].value /\ l.since = LeaseNow[i].since /\ l.until > now
        /\ \E t \in {rule.ttl : rule \in Rules} : l.until <= l.since + t
    BY <1>2, <2>1, <2>2, <2>3, <2>4, <2>7, <2>8 DEF Given
  <2>10. Lease!Recounted(i, l)
    BY <2>9 DEF Lease!Recounted, Lease!Running, Lease!Leased, LeaseNow
  <2> QED
    BY <1>2, <2>1, <2>8, <2>10
<1>3. ASSUME NEW id \in Ids
      PROVE  \/ LeaseNow'[id] \in {LeaseNow[id], None}
             \/ \E group \in {{x \in Ids : x.model = m} : m \in Models} :
                  id \in group /\ \E c \in group : Lease!Recounted(c, LeaseNow'[id])
  <2>1. CASE /\ objects'[id] = objects[id]
             /\ pins'[id] = IF id.model \in Changed(new) THEN 0 ELSE pins[id]
    BY <2>1, LeaseKept, LeaseHeldNext
  <2>2. CASE \E i \in Ids :
               /\ i \in Keepable(i.model, new) /\ MovedTo(i, new) = id /\ MovedExpiry(i, new) > now
               /\ objects'[id] = Append(objects[id], MovedPin(i, new))
               /\ pins'[id] = Len(objects[id]) + 1
    <3>1. PICK i \in Ids : /\ id.model = i.model /\ i.model \in Models
                           /\ Lease!Recounted(i, LeaseNow'[id])
      BY <2>2, <1>2
    <3>2. PICK group : group = {x \in Ids : x.model = i.model}
      OBVIOUS
    <3> QED
      BY <3>1, <3>2
  <2> QED
    BY <2>1, <2>2, ConfigureMoves
<1>4. Lease!Edit
  BY <1>1, <1>3, DiskAfter DEF Lease!Edit, LeaseNow, DiskNow
<1> QED
  BY <1>4 DEF LeaseStep, Lease!Next

(* The scheduled write, if it succeeds. *)
LEMMA FlushStep ==
  ASSUME Flush
  PROVE  LeaseStep
<1>1. UNCHANGED <<now, objects, pins>> /\ saved' \in {saved, OnDisk(objects, pins)}
  BY DEF Flush
<1>2. LeaseNow' = LeaseNow
  BY <1>1 DEF LeaseNow
<1>3. CASE saved' = saved
  BY <1>1, <1>3, QuietStep
<1>4. CASE saved' = OnDisk(objects, pins)
  <2>1. Lease!Write
    BY <1>1, <1>2, <1>4, DiskAfter DEF Lease!Write, LeaseNow, DiskNow
  <2> QED
    BY <2>1 DEF LeaseStep, Lease!Next
<1> QED
  BY <1>1, <1>3, <1>4

(* A new process takes over what the rules in force allow of it. *)
LEMMA LoadStep ==
  ASSUME StoreInv, Load
  PROVE  LeaseStep
<1>1. UNCHANGED <<now, saved>> /\ StoreInv'
  BY LoadInv DEF Load
<1>2. ASSUME NEW id \in Ids PROVE LeaseNow'[id] \in {DiskNow[id], None}
  <2>1. CASE pins'[id] = 0
    BY <1>1, <2>1, LeaseHeldNext
  <2>2. CASE saved[id] # None /\ objects'[id] = <<saved[id]>>
    <3>1. saved[id] \in PinType
      BY <2>2 DEF StoreInv, StoreTypeOK
    <3>2. pins'[id] = 1 /\ objects'[id][1] = saved[id]
      BY <2>2 DEF Load
    <3>3. Pin(id)' = saved[id]
      BY <3>2 DEF Pin
    <3>4. DiskNow[id] = Given(saved[id])
      BY <2>2 DEF DiskNow, LeaseOf, Given
    <3> QED
      BY <1>1, <3>2, <3>3, <3>4, LeaseHeldNext
  <2> QED
    BY <2>1, <2>2 DEF Load
<1>3. Lease!Reload
  BY <1>1, <1>2, DiskAfter DEF Lease!Reload, LeaseNow, DiskNow
<1> QED
  BY <1>3 DEF LeaseStep, Lease!Next

(* The clock. *)
LEMMA AdvanceStep ==
  ASSUME Advance
  PROVE  LeaseStep
<1>1. now' = now + 1 /\ LeaseNow' = LeaseNow /\ DiskNow' = DiskNow
  BY DEF Advance, LeaseNow, DiskNow
<1>2. Lease!Pass
  BY <1>1 DEF Lease!Pass, LeaseNow, DiskNow
<1> QED
  BY <1>2 DEF LeaseStep, Lease!Next

-----------------------------------------------------------------------------
(* The actions of the whole system *)

(* A job's value is new to its binding: run() has compared the stored pin  *)
(* with the one the job started from, and the value with that pin's.       *)
LEMMA JobLeases ==
  ASSUME TurnInv, TurnInv', NEW k \in DOMAIN jobs, JobStep(k)
  PROVE  LeaseStep
<1>1. CASE StoreUntouched
  BY <1>1, QuietStep DEF StoreUntouched, storeVars
<1>2. CASE Find(k)
  <2>1. PICK v \in jobs[k].ctx.rule.pinned :
          /\ Verdict(k) = None
          /\ jobs[k].base # 0 => v # objects[jobs[k].ctx.id][jobs[k].base].state
          /\ AdoptProbe(jobs[k].ctx, v)
    BY <1>2 DEF Find
  <2>2. PICK ctx : ctx = jobs[k].ctx
    OBVIOUS
  <2>3. JobOK(k, jobs[k]) /\ StoreInv /\ StoreInv'
    BY DEF TurnInv, JobsOK
  <2>4. Attached(ctx)
    BY <2>2, <2>3, MadeAttached DEF JobOK
  <2>5. /\ CanAdopt(ctx, v) /\ Insert(ctx, v) /\ UNCHANGED now
        /\ saved' \in {saved, OnDisk(objects', pins')}
    BY <2>1, <2>2 DEF AdoptProbe
  <2>6. v \in Values
    <3>1. rules[ctx.model] \in Rules
      BY <2>3, <2>4, <2>5 DEF CanAdopt, Enabled, StoreInv, StoreTypeOK, Attached, Contexts
    <3> QED
      BY <2>5, <3>1, RuleFields DEF CanAdopt
  <2>7. Bound(ctx.id) => Pin(ctx.id).state # v
    <3>1. Replacement(jobs[k]) = "same"
      BY <2>1, <2>3, VerdictNone
    <3>2. Bound(ctx.id) => jobs[k].base = pins[ctx.id]
      BY <2>2, <3>1 DEF Replacement
    <3> QED
      BY <2>1, <2>2, <3>2 DEF Bound, Pin
  <2> QED
    BY <2>3, <2>4, <2>5, <2>6, <2>7, InsertGrants
<1> QED
  BY <1>1, <1>2 DEF JobStep, ProbeReturns, Wake, GiveUp, Miss, Fail, ProbeAgain

(* A rejection.  One that the server does not look at changes nothing.     *)
LEMMA RejectLeases ==
  ASSUME TurnInv, TurnInv', NEW r \in Requests, NEW reason, Reject(r, reason) \/ Untouched,
         requests[r].phase \in {"open", "answering"}, UNCHANGED <<now, saved>>
  PROVE  LeaseStep
<1>1. CASE Untouched
  BY <1>1, QuietStep DEF Untouched
<1>2. CASE Processing(r) /\ InvalidateUsedPin(requests[r].ctx, requests[r].used, requests[r].usedState, reason)
  <2>1. PICK ctx, used, usedState :
          ctx = requests[r].ctx /\ used = requests[r].used /\ usedState = requests[r].usedState
    OBVIOUS
  <2>2. Attached(ctx) /\ InvalidateUsedPin(ctx, used, usedState, reason)
    BY <1>2, <2>1, UsedRequest
  <2>3. StoreInv /\ StoreInv'
    BY DEF TurnInv
  <2> QED
    BY <2>2, <2>3, InvalidateStep
<1> QED
  BY <1>1, <1>2 DEF Reject

(* The end of a response. *)
LEMMA EndLeases ==
  ASSUME TurnInv, TurnInv', NEW r \in Requests, End(r)
  PROVE  LeaseStep
<1>1. UNCHANGED <<now, saved>> /\ requests[r].phase = "answering"
  BY DEF End
<1>2. CASE Untouched
  BY <1>1, <1>2, QuietStep DEF Untouched
<1>3. CASE /\ Processing(r) /\ requests[r].raw # None
           /\ CaptureAutomatic(requests[r].ctx, requests[r].raw, requests[r].used)
  <2>1. PICK ctx, v, used : ctx = requests[r].ctx /\ v = requests[r].raw /\ used = requests[r].used
    OBVIOUS
  <2>2. Attached(ctx) /\ CaptureAutomatic(ctx, v, used)
    BY <1>1, <1>3, <2>1, UsedRequest
  <2>3. v \in Values
    BY <1>1, <1>3, <2>1 DEF TurnInv, RequestsOK, RequestOK, RequestType, New, Done
  <2>4. StoreInv /\ StoreInv'
    BY DEF TurnInv
  <2> QED
    BY <1>1, <2>2, <2>3, <2>4, CaptureStep
<1> QED
  BY <1>2, <1>3 DEF End

(* What the administrator does. *)
LEMMA AdministerLeases ==
  ASSUME TurnInv, TurnInv', Administer
  PROVE  LeaseStep
<1>1. StoreInv /\ StoreInv'
  BY DEF TurnInv
<1>2. ASSUME NEW v, Switch(v) PROVE LeaseStep
  BY <1>2, QuietStep DEF Switch, StoreUntouched, storeVars
<1>3. ASSUME NEW new \in [Models -> Rules \cup {None}], SaveRules(new) PROVE LeaseStep
  BY <1>1, <1>3, ConfigureStep DEF SaveRules
<1>4. ASSUME NEW m, NEW ids \in SUBSET BoundIds, Refresh(m, ids) PROVE LeaseStep
  BY <1>1, <1>4, RevokeStep DEF Refresh
<1>5. ASSUME NEW m \in Models, RefreshModel(m) PROVE LeaseStep
  <2>1. {id \in BoundIds : id.model = m} \in SUBSET BoundIds
    OBVIOUS
  <2> QED
    BY <1>4, <1>5, <2>1 DEF RefreshModel
<1>6. ASSUME NEW id \in Ids, RefreshBinding(id) PROVE LeaseStep
  <2>1. {id} \in SUBSET BoundIds
    BY <1>6 DEF RefreshBinding, Bound, BoundIds
  <2> QED
    BY <1>4, <1>6, <2>1 DEF RefreshBinding
<1>7. ASSUME NEW id \in Ids, NEW v \in Values, Manual(id, v) PROVE LeaseStep
  BY <1>1, <1>7, ManualStep
<1> QED
  BY <1>2, <1>3, <1>5, <1>6, <1>7 DEF Administer, ResetPins

(* Every step of the system is a step of BindingLease, or none. *)
LEMMA LeaseSteps == TurnInv /\ TurnInv' /\ [Next]_vars => LeaseStep
<1> SUFFICES ASSUME TurnInv, TurnInv', [Next]_vars PROVE LeaseStep
  OBVIOUS
<1>1. ASSUME NEW r \in Requests, Headers(r) PROVE LeaseStep
  BY <1>1, RejectLeases DEF Headers, RequestStep
<1>2. ASSUME NEW r \in Requests, Chunk(r) PROVE LeaseStep
  BY <1>2, RejectLeases DEF Chunk, RequestStep
<1>3. ASSUME NEW r \in Requests, Arrive(r) \/ HangUp(r) \/ Abort(r) PROVE LeaseStep
  BY <1>3, QuietStep DEF Arrive, HangUp, Abort, StoreUntouched, storeVars
<1>4. CASE Close \/ Scheduler \/ UNCHANGED vars
  BY <1>4, QuietStep DEF Close, Scheduler, StoreUntouched, vars, storeVars
<1>5. CASE Restart
  BY <1>5, LoadStep DEF Restart, TurnInv
<1>6. CASE Persist \/ Tick
  BY <1>6, FlushStep, AdvanceStep DEF Persist, Tick
<1> QED
  BY <1>1, <1>2, <1>3, <1>4, <1>5, <1>6, JobLeases, EndLeases, AdministerLeases
    DEF Next, RequestSteps

(* No binding starts with a lease. *)
LEMMA LeaseStart == Init => Lease!Init
<1> SUFFICES ASSUME Init PROVE Lease!Init
  OBVIOUS
<1>1. /\ now = 0 /\ objects = [id \in Ids |-> <<>>] /\ pins = [id \in Ids |-> 0]
      /\ saved = [id \in Ids |-> None]
  BY DEF Init, StoreInit
<1>2. \A id \in Ids : LeaseNow[id] = None /\ DiskNow[id] = None
  BY <1>1 DEF LeaseNow, DiskNow, OnDisk, LeaseOf
<1>3. LeaseNow = [id \in Ids |-> None] /\ DiskNow = LeaseNow
  BY <1>2 DEF LeaseNow, DiskNow
<1> QED
  BY <1>1, <1>3 DEF Lease!Init, LeaseNow, DiskNow

(* Whatever the requests, the gate and the administrator do, and wherever  *)
(* a crash or a failing write falls, the store of lib/states.mjs keeps the *)
(* promise of BindingLease: a value is not leased again while its binding  *)
(* holds it, and never past its capture plus a lifetime of the rules.      *)
THEOREM LeasesKept == Spec => KeepsLeases
<1>1. LeaseStep => [Lease!Next]_<<now, [id \in Ids |-> LeaseOf(OnDisk(objects, pins)[id])],
                                 [id \in Ids |-> LeaseOf(saved[id])]>>
  BY DEF LeaseStep, LeaseNow, DiskNow
<1> QED
  BY <1>1, LeaseStart, LeaseSteps, TurnInvariant, PTL DEF Spec, KeepsLeases, Lease!Spec
=============================================================================
