-------------------------- MODULE TurnState_proofs --------------------------
(***************************************************************************)
(* What TLC checks of TurnState on small instances, proved for every       *)
(* number of requests, clients, models and jobs: the types, that no job or *)
(* remembered credential outlives what it was started for, that the        *)
(* counters of waiting requests are exact, and what the switch and the     *)
(* pins of a binding can rely on.                                          *)
(***************************************************************************)
EXTENDS TurnState, StateStore_proofs, FiniteSetTheorems

(* ctx is what context() made of caller's request at some earlier moment.  *)
Made(ctx, caller) ==
  /\ ctx \in Contexts /\ caller \in Callers
  /\ ctx.scope = ScopeOf(ctx.rule) /\ ctx.client = caller.cred
  /\ ctx.id = BindingId(ctx.model, caller, ctx.scope)

SlotType == [ctx : Contexts, caller : Callers, retryAt : Nat]
CooldownType == [reason : Results, until : Nat]

JobOK(k, job) ==
  /\ k \in KeyType /\ k.id \in Ids
  /\ job \in JobType /\ Made(job.ctx, job.caller)
  /\ job.ctx.id = k.id /\ job.ctx.epoch = k.epoch /\ job.ctx.rule = k.rule

SlotOK(id, slot) ==
  /\ id \in Ids
  /\ slot \in SlotType /\ Made(slot.ctx, slot.caller)
  /\ slot.ctx.id = id

(* The rule of a context cannot change without its epoch.                  *)
NotAhead(ctx) ==
  /\ ctx.epoch <= epochs[ctx.model]
  /\ ctx.epoch = epochs[ctx.model] => ctx.rule = rules[ctx.model]

(* A request that still counts, and still uses the binding's pin, knows    *)
(* that pin's value; if it has rejected the pin, the pin is revoked.       *)
UsedOK(req) ==
  /\ req.revision <= modeRevision
  /\ req.auto /\ req.revision = modeRevision => mode = "auto"
  /\ req.used # 0 => req.ctx.id \in Ids /\ req.used <= Len(objects[req.ctx.id])
  /\ req.used # 0 /\ req.ctx.epoch = epochs[req.ctx.model] /\ pins[req.ctx.id] = req.used =>
       /\ Pin(req.ctx.id).state = req.usedState
       /\ req.failed /\ req.auto /\ req.revision = modeRevision => Pin(req.ctx.id).pending

RequestOK(req) ==
  /\ req \in RequestType
  /\ req.phase \in {"held", "open", "answering"} => Made(req.ctx, req.caller) /\ NotAhead(req.ctx)
  /\ req.phase = "held" => req.key.id = req.ctx.id /\ req.bytes \in Nat
  /\ req.phase \in {"open", "answering"} => UsedOK(req)

ServerTypes ==
  /\ mode \in {"auto", "off"} /\ closed \in BOOLEAN
  /\ {generation, waiters, heldBytes, modeRevision, boots} \subseteq Nat

JobsOK == IsFiniteSet(DOMAIN jobs) /\ \A k \in DOMAIN jobs : JobOK(k, jobs[k])
JobsCurrent == \A k \in DOMAIN jobs : ~jobs[k].aborted => JobCurrent(k)

SlotsOK == IsFiniteSet(DOMAIN renewals) /\ \A id \in DOMAIN renewals : SlotOK(id, renewals[id])
SlotsCurrent == \A id \in DOMAIN renewals : Current(renewals[id].ctx)

CooldownsOK == \A c \in DOMAIN cooldowns : cooldowns[c] \in CooldownType

RequestsOK ==
  /\ requests = [r \in Requests |-> requests[r]]
  /\ \A r \in Requests : RequestOK(requests[r])

(* The inductive invariant. *)
TurnInv ==
  /\ StoreInv /\ ServerTypes
  /\ JobsOK /\ JobsCurrent /\ SlotsOK /\ SlotsCurrent /\ CooldownsOK
  /\ RequestsOK /\ HeldAccounting /\ RenewalKeyEarned

-----------------------------------------------------------------------------
(* Contexts and the records made of them *)

(* What context() makes is made of the caller. *)
LEMMA ContextMade ==
  ASSUME StoreTypeOK, NEW m \in Models, NEW c \in Callers
  PROVE  /\ Made(Context(m, c), c) /\ NotAhead(Context(m, c))
         /\ Unchanged(Context(m, c)) /\ Context(m, c).model = m
<1>1. Attached(Context(m, c))
  BY ContextAttached
<1>2. epochs[m] \in Nat
  BY DEF StoreTypeOK
<1> QED
  BY <1>1, <1>2 DEF Attached, Made, Context, NotAhead, Unchanged

(* Such a context belongs to its binding. *)
LEMMA MadeAttached ==
  ASSUME NEW ctx, NEW c, Made(ctx, c)
  PROVE  Attached(ctx)
<1>1. ctx.scope \in Scopes
  BY DEF Made, Contexts
<1>2. ctx.id # None => ctx.id.model = ctx.model /\ ctx.id.scope = ctx.scope
  BY <1>1 DEF Made, BindingId, ModelBinding
<1> QED
  BY <1>2 DEF Made, Attached

(* A binding with a live pin exists. *)
LEMMA LiveBound ==
  ASSUME NEW ctx, NEW c, Made(ctx, c), Live(ctx)
  PROVE  ctx.id \in Ids
BY DEF Live, Qualified, Bound, Made, Contexts

(* The same, once the pin of this step is in. *)
LEMMA LiveBoundNext ==
  ASSUME NEW ctx, NEW c, Made(ctx, c), Live(ctx)'
  PROVE  ctx.id \in Ids
BY DEF Live, Qualified, Bound, Made, Contexts

(* Where the caller's requests go now. *)
LEMMA MadeNow ==
  ASSUME NEW ctx, NEW c, Made(ctx, c), Unchanged(ctx)
  PROVE  ctx.id = Context(ctx.model, c).id
BY DEF Made, Unchanged, Context

(* The key of a job. *)
LEMMA KeyTyped ==
  ASSUME NEW ctx, NEW c, Made(ctx, c), generation \in Nat
  PROVE  /\ Key(ctx) \in KeyType /\ Key(ctx).id = ctx.id /\ Key(ctx).gen = generation
         /\ Key(ctx).epoch = ctx.epoch /\ Key(ctx).rule = ctx.rule
BY DEF Key, KeyType, Made, Contexts

(* A job as launch() starts it. *)
LEMMA NewJobOK ==
  ASSUME StoreInv, generation \in Nat, NEW ctx, NEW c, Made(ctx, c), ctx.id \in Ids,
         NEW background \in BOOLEAN
  PROVE  /\ JobOK(Key(ctx), NewJob(ctx, c, background))
         /\ NewJob(ctx, c, background).aborted = FALSE
         /\ NewJob(ctx, c, background).waiters = 0
         /\ NewJob(ctx, c, background).ctx = ctx
<1> DEFINE job == NewJob(ctx, c, background)
           base == IF Bound(ctx.id) THEN pins[ctx.id] ELSE 0
<1>1. PinsOK /\ ctx.id # None
  BY StoreTypeIsPinsOK, IdFields DEF StoreInv
<1>2. base \in Nat
  BY <1>1 DEF PinsOK
<1>3. base # 0 => Pin(ctx.id).expiresAt \in Nat /\ Pin(ctx.id).pending \in BOOLEAN
  BY <1>1, StoredPin DEF Bound, PinType
<1>4. ctx \in Contexts /\ c \in Callers
  BY DEF Made
<1>5. /\ job.ctx = ctx /\ job.caller = c /\ job.aborted = FALSE /\ job.waiters = 0
      /\ job \in JobType
  <2>1. job = [ctx |-> ctx, caller |-> c, background |-> background, base |-> base,
               baseExpiresAt |-> IF base = 0 THEN None ELSE Pin(ctx.id).expiresAt,
               basePending |-> IF base = 0 THEN None ELSE Pin(ctx.id).pending,
               phase |-> "probing", aborted |-> FALSE, reason |-> None, waiters |-> 0]
    BY DEF NewJob
  <2> HIDE DEF job, base
  <2>2. (IF base = 0 THEN None ELSE Pin(ctx.id).expiresAt) \in Nat \cup {None}
    BY <1>3
  <2>3. (IF base = 0 THEN None ELSE Pin(ctx.id).pending) \in BOOLEAN \cup {None}
    BY <1>3
  <2> QED
    BY <2>1, <2>2, <2>3, <1>2, <1>4 DEF JobType
<1> HIDE DEF job
<1> QED
  BY <1>5, KeyTyped DEF JobOK, job

(* An abort changes nothing else about a job. *)
LEMMA AbortedOK ==
  ASSUME NEW k, NEW job, JobOK(k, job), NEW reason \in CancelReasons
  PROVE  /\ JobOK(k, Aborted(job, reason))
         /\ Aborted(job, reason).aborted = TRUE
         /\ Aborted(job, reason).waiters = job.waiters
         /\ Aborted(job, reason).ctx = job.ctx
<1>1. job \in JobType
  BY DEF JobOK
<1>2. /\ Aborted(job, reason) \in JobType
      /\ Aborted(job, reason).aborted = TRUE
      /\ Aborted(job, reason).waiters = job.waiters
      /\ Aborted(job, reason).ctx = job.ctx
      /\ Aborted(job, reason).caller = job.caller
  BY <1>1 DEF Aborted, JobType
<1> QED
  BY <1>2 DEF JobOK

-----------------------------------------------------------------------------
(* Remembered routing identities *)

(* One that is entered: every other one stays or is forgotten.             *)
LEMMA RememberedOK ==
  ASSUME NEW slots, IsFiniteSet(DOMAIN slots), \A id \in DOMAIN slots : SlotOK(id, slots[id]),
         NEW ctx, NEW c, Made(ctx, c), ctx.id \in Ids, NEW t \in Nat,
         NEW S \in Remembered(slots, ctx, c, t)
  PROVE  /\ IsFiniteSet(DOMAIN S)
         /\ \A id \in DOMAIN S : /\ SlotOK(id, S[id])
                                 /\ \/ id \in DOMAIN slots /\ S[id] = slots[id]
                                    \/ id = ctx.id /\ S[id].ctx = ctx
<1> DEFINE new == [ctx |-> ctx, caller |-> c, retryAt |-> t]
           all == Put(slots, ctx.id, new)
<1>1. /\ DOMAIN all = DOMAIN slots \cup {ctx.id}
      /\ \A id \in DOMAIN all : all[id] = IF id = ctx.id THEN new ELSE slots[id]
  BY DEF Put
<1>2. SlotOK(ctx.id, new) /\ new.ctx = ctx
  BY DEF SlotOK, SlotType, Made
<1>3. IsFiniteSet(DOMAIN all)
  BY <1>1, FS_AddElement
<1>4. S = all \/ \E old : S = Drop(all, {old})
  BY DEF Remembered
<1> HIDE DEF new, all
<1>5. /\ DOMAIN S \subseteq DOMAIN all /\ IsFiniteSet(DOMAIN S)
      /\ \A id \in DOMAIN S : S[id] = all[id]
  <2>1. CASE S = all
    BY <2>1, <1>3
  <2>2. ASSUME NEW old, S = Drop(all, {old})
        PROVE  /\ DOMAIN S = DOMAIN all \ {old} /\ IsFiniteSet(DOMAIN S)
               /\ \A id \in DOMAIN S : S[id] = all[id]
    <3>1. DOMAIN S = DOMAIN all \ {old} /\ \A id \in DOMAIN S : S[id] = all[id]
      BY <2>2 DEF Drop
    <3> QED
      BY <3>1, <1>3, FS_RemoveElement
  <2> QED
    BY <1>4, <2>1, <2>2
<1> QED
  BY <1>1, <1>2, <1>5

(* A pause that is set or ended. *)
LEMMA SlotRetry ==
  ASSUME NEW id, NEW slot, SlotOK(id, slot), NEW t \in Nat
  PROVE  SlotOK(id, [slot EXCEPT !.retryAt = t]) /\ [slot EXCEPT !.retryAt = t].ctx = slot.ctx
BY DEF SlotOK, SlotType

(* remember(), perhaps after a capture in the same handler: slots stay     *)
(* sound, and one that is new belongs to the caller; on a model-wide       *)
(* binding it needs a confirmation and the owner of the old one.           *)
LEMMA RememberKeeps ==
  ASSUME SlotsOK, SlotsCurrent, NEW ctx, NEW c, Made(ctx, c), NEW confirmed \in BOOLEAN,
         Remember(ctx, c, confirmed), UNCHANGED <<rules, epochs, mode, closed>>
  PROVE  /\ SlotsOK' /\ SlotsCurrent'
         /\ \A id \in DOMAIN renewals' :
              \/ id \in DOMAIN renewals /\ renewals'[id] = renewals[id]
              \/ /\ id = ctx.id /\ renewals'[id].ctx = ctx
                 /\ ctx.scope = "model" =>
                      confirmed /\ (id \in DOMAIN renewals => renewals[id].ctx.client = ctx.client)
<1>1. CASE UNCHANGED renewals
  BY <1>1 DEF SlotsOK, SlotsCurrent, SlotOK, Current, GateEnabled, Unchanged
<1>2. CASE \E slots \in {renewals} :
             /\ MayRemember(ctx, c, slots, confirmed)'
             /\ renewals' \in Remembered(slots, ctx, c, RetryAt(slots, ctx.id))
  <2>1. PICK slots : /\ slots = renewals
                     /\ MayRemember(ctx, c, slots, confirmed)'
                     /\ renewals' \in Remembered(slots, ctx, c, RetryAt(slots, ctx.id))
    BY <1>2
  <2>2. /\ Current(ctx)' /\ Live(ctx)'
        /\ ctx.scope = "model" =>
             confirmed /\ (ctx.id \in DOMAIN slots => slots[ctx.id].ctx.client = ctx.client)
    BY <2>1 DEF MayRemember
  <2>3. ctx.id \in Ids
    BY <2>2, LiveBoundNext
  <2>4. IsFiniteSet(DOMAIN slots) /\ \A id \in DOMAIN slots : SlotOK(id, slots[id])
    BY <2>1 DEF SlotsOK
  <2>5. RetryAt(slots, ctx.id) \in Nat
    BY <2>4 DEF RetryAt, SlotOK, SlotType
  <2>6. /\ IsFiniteSet(DOMAIN renewals')
        /\ \A id \in DOMAIN renewals' :
             /\ SlotOK(id, renewals'[id])
             /\ \/ id \in DOMAIN slots /\ renewals'[id] = slots[id]
                \/ id = ctx.id /\ renewals'[id].ctx = ctx
    BY <2>1, <2>3, <2>4, <2>5, RememberedOK
  <2>7. SlotsOK'
    BY <2>6 DEF SlotsOK, SlotOK
  <2>8. SlotsCurrent'
    BY <2>1, <2>2, <2>6 DEF SlotsCurrent, Current, GateEnabled, Unchanged
  <2> QED
    BY <2>1, <2>2, <2>6, <2>7, <2>8
<1> QED
  BY <1>1, <1>2 DEF Remember

-----------------------------------------------------------------------------
(* Counting bytes *)

Cells(q, R) == UNION {{r} \X (1 .. q[r].bytes) : r \in R}

(* What one request holds. *)
LEMMA CellsOfOne ==
  ASSUME NEW q, NEW r, q[r].bytes \in Nat
  PROVE  IsFiniteSet({r} \X (1 .. q[r].bytes)) /\ Cardinality({r} \X (1 .. q[r].bytes)) = q[r].bytes
<1>1. IsFiniteSet({r}) /\ Cardinality({r}) = 1
  BY FS_Singleton
<1>2. IsFiniteSet(1 .. q[r].bytes) /\ Cardinality(1 .. q[r].bytes) = q[r].bytes
  <2> DEFINE n == q[r].bytes
  <2>1. /\ IsFiniteSet(1 .. n)
        /\ Cardinality(1 .. n) = IF 1 > n THEN 0 ELSE n - 1 + 1
    <3>1. 1 \in Int /\ n \in Int
      OBVIOUS
    <3> HIDE DEF n
    <3> QED
      BY <3>1, FS_Interval
  <2>2. n \in Nat
    OBVIOUS
  <2> HIDE DEF n
  <2>3. IsFiniteSet(1 .. n) /\ Cardinality(1 .. n) = n
    BY <2>1, <2>2
  <2> QED
    BY <2>3 DEF n
<1>3. /\ IsFiniteSet({r} \X (1 .. q[r].bytes))
      /\ Cardinality({r} \X (1 .. q[r].bytes)) = Cardinality({r}) * Cardinality(1 .. q[r].bytes)
  BY <1>1, <1>2, FS_Product
<1> QED
  BY <1>1, <1>2, <1>3

(* Finitely many requests hold finitely many bytes. *)
LEMMA CellsFinite ==
  ASSUME NEW q, NEW R, IsFiniteSet(R), \A r \in R : q[r].bytes \in Nat
  PROVE  IsFiniteSet(Cells(q, R)) /\ Cardinality(Cells(q, R)) \in Nat
<1> DEFINE T == {{r} \X (1 .. q[r].bytes) : r \in R}
           f == [r \in R |-> {r} \X (1 .. q[r].bytes)]
<1>1. f \in Surjection(R, T)
  BY DEF Surjection
<1>2. IsFiniteSet(T)
  BY <1>1, FS_Surjection
<1>3. \A t \in T : IsFiniteSet(t)
  BY CellsOfOne
<1>4. IsFiniteSet(UNION T)
  BY <1>2, <1>3, FS_UNION
<1> QED
  BY <1>4, FS_CardinalityType DEF Cells

(* The bytes of two groups of requests add up. *)
LEMMA CellsAdd ==
  ASSUME NEW q, NEW A, NEW B, A \cap B = {}, IsFiniteSet(A), IsFiniteSet(B),
         \A r \in A \cup B : q[r].bytes \in Nat
  PROVE  Cardinality(Cells(q, A \cup B)) = Cardinality(Cells(q, A)) + Cardinality(Cells(q, B))
<1>1. Cells(q, A \cup B) = Cells(q, A) \cup Cells(q, B)
  BY DEF Cells
<1>2. Cells(q, A) \cap Cells(q, B) = {}
  BY DEF Cells
<1>3. IsFiniteSet(Cells(q, A)) /\ IsFiniteSet(Cells(q, B))
  BY CellsFinite
<1>4. Cardinality(Cells(q, A)) \in Nat /\ Cardinality(Cells(q, B)) \in Nat
  BY CellsFinite
<1>5. Cardinality(Cells(q, A) \cup Cells(q, B)) =
        Cardinality(Cells(q, A)) + Cardinality(Cells(q, B)) - Cardinality(Cells(q, A) \cap Cells(q, B))
  BY <1>3, FS_Union
<1>6. Cardinality(Cells(q, A) \cap Cells(q, B)) = 0
  BY <1>2, FS_EmptySet, Zenon
<1>7. Cardinality(Cells(q, A) \cup Cells(q, B)) = Cardinality(Cells(q, A)) + Cardinality(Cells(q, B))
  BY <1>4, <1>5, <1>6
<1> QED
  BY <1>1, <1>7

(* No request, no bytes. *)
LEMMA CellsNone == \A q : Cardinality(Cells(q, {})) = 0
<1>1. \A q : Cells(q, {}) = {}
  BY DEF Cells
<1> QED
  BY <1>1, FS_EmptySet, Zenon

(* Only the sizes of the requests counted matter. *)
LEMMA CellsSame ==
  ASSUME NEW q, NEW p, NEW R, \A r \in R : q[r].bytes = p[r].bytes
  PROVE  Cells(q, R) = Cells(p, R)
BY DEF Cells

(* The requests that wait, for one job or at all, and their bytes. *)
LEMMA WaitingFinite ==
  /\ IsFiniteSet(HeldRequests) /\ Cardinality(HeldRequests) \in Nat
  /\ \A k : IsFiniteSet(Waiting(k)) /\ Cardinality(Waiting(k)) \in Nat /\ Waiting(k) \subseteq HeldRequests
<1>1. HeldRequests \in SUBSET Requests /\ \A k : Waiting(k) \in SUBSET HeldRequests
  BY DEF HeldRequests, Waiting
<1>2. IsFiniteSet(Requests)
  BY TurnStateAssumption
<1>3. IsFiniteSet(HeldRequests)
  BY <1>1, <1>2, FS_Subset
<1>4. \A k : IsFiniteSet(Waiting(k))
  BY <1>1, <1>3, FS_Subset
<1> QED
  BY <1>1, <1>3, <1>4, FS_CardinalityType

-----------------------------------------------------------------------------
(* What a step of the store leaves of what a request knows *)

(* Epochs only grow, and a rule changes with its epoch; while it stays, a  *)
(* pin object that was there before is either the same pin, perhaps        *)
(* revoked, or no longer the binding's.                                    *)
StoreMoves ==
  /\ \A m \in Models : /\ epochs[m] <= epochs'[m]
                       /\ epochs'[m] = epochs[m] => rules'[m] = rules[m]
  /\ \A id \in Ids : Len(objects[id]) <= Len(objects'[id])
  /\ \A id \in Ids :
       epochs'[id.model] = epochs[id.model] /\ pins'[id] # 0 /\ pins'[id] <= Len(objects[id]) =>
         /\ pins'[id] = pins[id]
         /\ Pin(id)'.state = Pin(id).state
         /\ Pin(id).pending => Pin(id)'.pending

(* No change of pins. *)
LEMMA MovesQuiet ==
  ASSUME StoreInv, UNCHANGED <<rules, epochs, objects, pins>>
  PROVE  StoreMoves
<1>1. /\ \A m \in Models : epochs[m] \in Nat
      /\ \A id \in Ids : Len(objects[id]) \in Nat
  BY LenProperties DEF StoreInv, StoreTypeOK
<1> QED
  BY <1>1 DEF StoreMoves, Pin

(* A new pin. *)
LEMMA MovesInsert ==
  ASSUME StoreInv, StoreInv', NEW ctx, ctx.id \in Ids, NEW v, Insert(ctx, v),
         UNCHANGED <<rules, epochs>>
  PROVE  StoreMoves
<1>1. /\ \A m \in Models : epochs[m] \in Nat
      /\ \A id \in Ids : objects[id] \in Seq(PinType) /\ Len(objects[id]) \in Nat /\ pins[id] \in Nat
      /\ DOMAIN objects = Ids
  BY LenProperties DEF StoreInv, StoreTypeOK
<1>2. pins'[ctx.id] <= Len(objects'[ctx.id]) /\ Len(objects'[ctx.id]) \in Nat
  BY LenProperties DEF StoreInv, StoreTypeOK
<1>3. PICK old : pins' = [id \in Ids |-> IF id = ctx.id THEN Len(objects[id]) + 1
                                         ELSE IF id = old THEN 0 ELSE pins[id]]
  BY DEF Insert
<1>4. \A id \in Ids : objects'[id] = IF id = ctx.id THEN Append(objects[id], NewPin(ctx, v))
                                     ELSE objects[id]
  BY <1>1 DEF Insert
<1>5. \A id \in Ids : Len(objects[id]) <= Len(objects'[id])
  BY <1>1, <1>2, <1>3, <1>4
<1>6. ASSUME NEW id \in Ids, pins'[id] # 0, pins'[id] <= Len(objects[id])
      PROVE  pins'[id] = pins[id] /\ objects'[id] = objects[id]
  BY <1>1, <1>3, <1>4, <1>6
<1> QED
  BY <1>1, <1>5, <1>6 DEF StoreMoves, Pin

(* Pins overwritten in place. *)
LEMMA MovesInPlace ==
  ASSUME StoreInv, UNCHANGED <<pins, rules>>,
         \A m \in Models : epochs[m] <= epochs'[m],
         NEW ids \in SUBSET BoundIds, NEW q,
         objects' = [id \in Ids |-> IF id \in ids THEN [objects[id] EXCEPT ![pins[id]] = q[id]]
                                    ELSE objects[id]],
         \A id \in ids : epochs'[id.model] = epochs[id.model] =>
            q[id].state = Pin(id).state /\ q[id].pending
  PROVE  StoreMoves
<1>1. /\ PinsOK
      /\ \A id \in Ids : objects[id] \in Seq(PinType) /\ Len(objects[id]) \in Nat
  BY LenProperties, StoreTypeIsPinsOK DEF StoreInv, StoreTypeOK
<1>2. ASSUME NEW id \in ids
      PROVE  /\ id \in Ids /\ Len(objects'[id]) = Len(objects[id])
             /\ objects'[id][pins[id]] = q[id]
  <2>1. id \in Ids /\ pins[id] # 0
    BY DEF BoundIds
  <2>2. pins[id] \in 1 .. Len(objects[id])
    BY <2>1, <1>1, StoredPin
  <2> QED
    BY <2>1, <2>2, <1>1
<1>3. \A id \in Ids \ ids : objects'[id] = objects[id]
  OBVIOUS
<1> QED
  BY <1>1, <1>2, <1>3 DEF StoreMoves, Pin

(* A response, a rejection, a probe's value. *)
LEMMA MovesCapture ==
  ASSUME StoreInv, StoreInv', NEW ctx, Attached(ctx), NEW v, NEW used,
         CaptureAutomatic(ctx, v, used), UNCHANGED <<rules, epochs>>
  PROVE  StoreMoves
<1>1. CASE CanAdopt(ctx, v) /\ Insert(ctx, v)
  BY <1>1, MovesInsert DEF Attached, Contexts, CanAdopt
<1>2. CASE Bound(ctx.id) /\ CanAdopt(ctx, v) /\ Reaccept(ctx.id)
  <2> DEFINE id == ctx.id
             q == [i \in {id} |-> [Pin(id) EXCEPT !.accepted = TRUE]]
  <2>1. id \in Ids /\ {id} \in SUBSET BoundIds
    BY <1>2 DEF Attached, Contexts, Bound, BoundIds
  <2>2. PinsOK /\ Pin(id) \in PinType /\ pins[id] \in 1 .. Len(objects[id])
    BY <1>2, <2>1, StoreTypeIsPinsOK, StoredPin DEF StoreInv, Bound
  <2>3. \A i \in Ids : objects'[i] = IF i = id THEN [objects[i] EXCEPT ![pins[i]] = q[i]]
                                     ELSE objects[i]
    BY <1>2, <2>2 DEF Reaccept, Pin, PinsOK
  <2>4. q[id].state = Pin(id).state /\ q[id].pending = Pin(id).pending /\ q[id] \in PinType
    BY <2>2 DEF PinType
  <2>5. objects[id] \in Seq(PinType) /\ Len(objects[id]) \in Nat
    BY <2>1, <2>2, LenProperties DEF PinsOK
  <2> HIDE DEF q
  <2>6. Len(objects'[id]) = Len(objects[id]) /\ objects'[id][pins[id]] = q[id]
    <3>1. objects'[id] = [objects[id] EXCEPT ![pins[id]] = q[id]]
      BY <2>1, <2>3
    <3> HIDE DEF id
    <3> QED
      BY <3>1, <2>2, <2>4, <2>5, ExceptSeq
  <2>7. UNCHANGED pins
    BY <1>2 DEF Reaccept
  <2>8. /\ \A m \in Models : epochs[m] \in Nat
        /\ \A i \in Ids : Len(objects[i]) \in Nat
    BY LenProperties DEF StoreInv, StoreTypeOK
  <2>9. \A i \in Ids : i # id => objects'[i] = objects[i]
    BY <2>3
  <2> QED
    BY <2>1, <2>4, <2>6, <2>7, <2>8, <2>9 DEF StoreMoves, Pin
<1>3. CASE Untouched
  BY <1>3, MovesQuiet DEF Untouched
<1> QED
  BY <1>1, <1>2, <1>3 DEF CaptureAutomatic

(* The same for pins that are revoked in place. *)
LEMMA MovesRevoke ==
  ASSUME StoreInv, NEW ids \in SUBSET BoundIds, Revoke(ids), UNCHANGED <<pins, rules>>,
         \A m \in Models : epochs[m] <= epochs'[m]
  PROVE  StoreMoves
<1> DEFINE q == [i \in ids |-> [Pin(i) EXCEPT !.pending = TRUE, !.expiresAt = 0]]
<1>1. PinsOK
  BY StoreTypeIsPinsOK DEF StoreInv
<1>2. ASSUME NEW id \in ids
      PROVE  q[id].state = Pin(id).state /\ q[id].pending
  <2>1. Pin(id) \in PinType
    BY <1>1, StoredPin DEF BoundIds
  <2> QED
    BY <2>1 DEF PinType
<1>3. objects' = [i \in Ids |-> IF i \in ids THEN [objects[i] EXCEPT ![pins[i]] = q[i]]
                                ELSE objects[i]]
  BY DEF Revoke, Pin
<1> HIDE DEF q
<1> QED
  BY <1>2, <1>3, MovesInPlace

(* A rejection. *)
LEMMA MovesInvalidate ==
  ASSUME StoreInv, NEW ctx, Attached(ctx), NEW used, NEW usedState, NEW reason,
         InvalidateUsedPin(ctx, used, usedState, reason), UNCHANGED <<rules, epochs>>
  PROVE  StoreMoves
<1>1. CASE Bound(ctx.id) /\ Revoke({ctx.id}) /\ UNCHANGED pins
  <2>1. {ctx.id} \in SUBSET BoundIds
    BY <1>1 DEF Attached, Contexts, Bound, BoundIds
  <2>2. \A m \in Models : epochs[m] <= epochs'[m]
    BY DEF StoreInv, StoreTypeOK
  <2> QED
    BY <1>1, <2>1, <2>2, MovesRevoke
<1>2. CASE Untouched
  BY <1>2, MovesQuiet DEF Untouched
<1> QED
  BY <1>1, <1>2 DEF InvalidateUsedPin, MayInvalidate

(* A probe's value. *)
LEMMA MovesAdopt ==
  ASSUME StoreInv, StoreInv', NEW ctx, Attached(ctx), NEW v, AdoptProbe(ctx, v)
  PROVE  StoreMoves
BY MovesInsert DEF Attached, Contexts, CanAdopt, AdoptProbe

(* The administrator. *)
LEMMA MovesRefresh ==
  ASSUME StoreInv, NEW m, NEW ids \in SUBSET BoundIds, Refresh(m, ids)
  PROVE  StoreMoves
<1>1. \A i \in Models : epochs[i] <= epochs'[i]
  BY DEF Refresh, NextEpoch, StoreInv, StoreTypeOK
<1> QED
  BY <1>1, MovesRevoke DEF Refresh

(* The administrator's value. *)
LEMMA MovesManual ==
  ASSUME StoreInv, NEW id \in Ids, NEW v, Manual(id, v)
  PROVE  StoreMoves
<1> DEFINE f == Retyped(Pin(id), v, now + rules[id.model].ttl)
           q == [i \in {id} |-> f]
<1>1. PinsOK /\ {id} \in SUBSET BoundIds /\ id.model \in Models
  BY StoreTypeIsPinsOK, IdFields DEF StoreInv, Manual, Bound, BoundIds
<1>2. objects' = [i \in Ids |-> IF i \in {id} THEN [objects[i] EXCEPT ![pins[i]] = q[i]]
                                ELSE objects[i]]
  BY <1>1 DEF Manual, Pin, PinsOK
<1>3. /\ \A m \in Models : epochs[m] <= epochs'[m]
      /\ epochs'[id.model] # epochs[id.model]
  BY <1>1 DEF Manual, NextEpoch, StoreInv, StoreTypeOK
<1>4. UNCHANGED <<pins, rules>>
  BY DEF Manual
<1>5. \A i \in {id} : epochs'[i.model] = epochs[i.model] => q[i].state = Pin(i).state /\ q[i].pending
  BY <1>3
<1> DEFINE ids == {id}
<1>6. /\ ids \in SUBSET BoundIds
      /\ objects' = [i \in Ids |-> IF i \in ids THEN [objects[i] EXCEPT ![pins[i]] = q[i]]
                                  ELSE objects[i]]
      /\ \A i \in ids : epochs'[i.model] = epochs[i.model] =>
            q[i].state = Pin(i).state /\ q[i].pending
  BY <1>1, <1>2, <1>5
<1> HIDE DEF q, ids
<1> QED
  BY <1>3, <1>4, <1>6, MovesInPlace

(* New rules. *)
LEMMA MovesConfigure ==
  ASSUME StoreInv, StoreInv', NEW new \in [Models -> Rules \cup {None}], Configure(new)
  PROVE  StoreMoves
<1>1. \A m \in Models : /\ epochs[m] \in Nat
                        /\ epochs'[m] = IF m \in Changed(new) THEN epochs[m] + 1 ELSE epochs[m]
                        /\ m \notin Changed(new) => rules'[m] = rules[m]
  BY DEF Configure, NextEpoch, StoreInv, StoreTypeOK, Changed
<1>2. \A id \in Ids : /\ Len(objects[id]) \in Nat /\ pins[id] \in Nat /\ id.model \in Models
                      /\ Len(objects'[id]) \in Nat /\ pins'[id] <= Len(objects'[id])
  BY LenProperties, IdFields DEF StoreInv, StoreTypeOK
<1>3. ASSUME NEW id \in Ids
      PROVE  \/ pins'[id] = Len(objects[id]) + 1
             \/ objects'[id] = objects[id] /\ pins'[id] = IF id.model \in Changed(new) THEN 0 ELSE pins[id]
  BY ConfigureMoves
<1> QED
  BY <1>1, <1>2, <1>3 DEF StoreMoves, Pin

(* A request that a step leaves alone stays sound: its revision and epoch  *)
(* may fall behind, but what it knows of a pin stays true until then.      *)
ServerMoves ==
  /\ modeRevision' \in Nat /\ modeRevision <= modeRevision'
  /\ modeRevision' = modeRevision => mode' = mode

(* A request that the step leaves alone stays sound. *)
LEMMA RequestStays ==
  ASSUME StoreInv, StoreInv', StoreMoves, ServerTypes, ServerMoves, NEW req, RequestOK(req)
  PROVE  RequestOK(req)'
<1>1. req \in RequestType
  BY DEF RequestOK
<1>2. CASE req.phase \notin {"held", "open", "answering"}
  BY <1>1, <1>2 DEF RequestOK
<1>3. ASSUME req.phase \in {"held", "open", "answering"}
      PROVE  Made(req.ctx, req.caller)' /\ NotAhead(req.ctx)'
  <2>1. /\ Made(req.ctx, req.caller) /\ NotAhead(req.ctx)
        /\ req.ctx.model \in Models /\ req.ctx.epoch \in Nat
    BY <1>3 DEF RequestOK, Made, Contexts
  <2>2. epochs[req.ctx.model] \in Nat /\ epochs'[req.ctx.model] \in Nat
    BY <2>1 DEF StoreInv, StoreTypeOK
  <2> QED
    BY <2>1, <2>2 DEF StoreMoves, NotAhead, Made
<1>4. CASE req.phase = "held"
  BY <1>1, <1>3, <1>4 DEF RequestOK
<1>5. CASE req.phase \in {"open", "answering"}
  <2>1. /\ UsedOK(req) /\ Made(req.ctx, req.caller) /\ NotAhead(req.ctx)
        /\ req.revision \in Nat /\ req.used \in Nat /\ req.auto \in BOOLEAN
    BY <1>1, <1>5 DEF RequestOK, RequestType, New, Done
  <2>2. /\ req.revision <= modeRevision'
        /\ req.auto /\ req.revision = modeRevision' => mode' = "auto" /\ modeRevision' = modeRevision
    BY <2>1 DEF UsedOK, ServerMoves, ServerTypes
  <2>3. ASSUME req.used # 0
        PROVE  /\ req.ctx.id \in Ids /\ req.used <= Len(objects'[req.ctx.id])
               /\ req.ctx.epoch = epochs'[req.ctx.model] /\ pins'[req.ctx.id] = req.used =>
                    /\ Pin(req.ctx.id)'.state = req.usedState
                    /\ req.failed /\ req.auto /\ req.revision = modeRevision' => Pin(req.ctx.id)'.pending
    <3>1. req.ctx.id \in Ids /\ req.used <= Len(objects[req.ctx.id])
      BY <2>1, <2>3 DEF UsedOK
    <3>2. /\ Len(objects[req.ctx.id]) \in Nat /\ Len(objects'[req.ctx.id]) \in Nat
          /\ Len(objects[req.ctx.id]) <= Len(objects'[req.ctx.id])
      BY <3>1, LenProperties DEF StoreInv, StoreTypeOK, StoreMoves
    <3>3. ASSUME req.ctx.epoch = epochs'[req.ctx.model], pins'[req.ctx.id] = req.used
          PROVE  /\ Pin(req.ctx.id)'.state = req.usedState
                 /\ req.failed /\ req.auto /\ req.revision = modeRevision' => Pin(req.ctx.id)'.pending
      <4>1. Attached(req.ctx) /\ req.ctx.id.model = req.ctx.model /\ req.ctx.model \in Models
        BY <2>1, <3>1, MadeAttached, IdFields DEF Attached, Contexts
      <4>2. epochs'[req.ctx.model] = epochs[req.ctx.model]
        <5>1. epochs[req.ctx.model] \in Nat /\ epochs'[req.ctx.model] \in Nat
          BY <4>1 DEF StoreInv, StoreTypeOK
        <5> QED
          BY <5>1, <4>1, <3>3, <2>1 DEF NotAhead, StoreMoves
      <4>3. /\ pins[req.ctx.id] = req.used
            /\ Pin(req.ctx.id)'.state = Pin(req.ctx.id).state
            /\ Pin(req.ctx.id).pending => Pin(req.ctx.id)'.pending
        BY <2>3, <3>1, <3>3, <4>1, <4>2 DEF StoreMoves
      <4> QED
        BY <2>1, <2>2, <2>3, <3>3, <4>2, <4>3 DEF UsedOK
    <3> QED
      BY <2>1, <3>1, <3>2, <3>3
  <2>4. UsedOK(req)'
    BY <2>1, <2>2, <2>3 DEF UsedOK, Pin
  <2> QED
    BY <1>1, <1>3, <1>5, <2>4 DEF RequestOK
<1> QED
  BY <1>2, <1>4, <1>5

-----------------------------------------------------------------------------
(* The counters of waiting requests *)

(* A step that moves no waiting request, and may start renewals. *)
LEMMA HeldKept ==
  ASSUME HeldAccounting, UNCHANGED <<waiters, heldBytes>>,
         \A r \in Requests :
           /\ requests'[r].phase = "held" <=> requests[r].phase = "held"
           /\ requests[r].phase = "held" => /\ requests'[r].key = requests[r].key
                                            /\ requests'[r].bytes = requests[r].bytes,
         DOMAIN jobs \subseteq DOMAIN jobs', Cardinality(DOMAIN jobs') <= MaxJobs,
         \A k \in DOMAIN jobs' : jobs'[k].waiters = IF k \in DOMAIN jobs THEN jobs[k].waiters ELSE 0
  PROVE  HeldAccounting'
<1>1. HeldRequests' = HeldRequests /\ \A k : Waiting(k)' = Waiting(k)
  BY DEF HeldRequests, Waiting
<1>2. BytesOf(HeldRequests)' = BytesOf(HeldRequests)
  <2>1. Cells(requests', HeldRequests) = Cells(requests, HeldRequests)
    BY CellsSame DEF HeldRequests
  <2> QED
    BY <1>1, <2>1 DEF BytesOf, Cells
<1>3. \A r \in HeldRequests' : requests'[r].key \in DOMAIN jobs'
  BY <1>1 DEF HeldAccounting, HeldRequests
<1>4. ASSUME NEW k \in DOMAIN jobs', k \notin DOMAIN jobs
      PROVE  Cardinality(Waiting(k)) = 0
  <2>1. Waiting(k) = {}
    BY <1>4 DEF Waiting, HeldAccounting, HeldRequests
  <2> QED
    BY <2>1, FS_EmptySet, Zenon
<1>5. \A k \in DOMAIN jobs' : jobs'[k].waiters = Cardinality(Waiting(k)')
  BY <1>1, <1>4 DEF HeldAccounting
<1> QED
  BY <1>1, <1>2, <1>3, <1>5 DEF HeldAccounting

(* One request more. *)
LEMMA HeldEnter ==
  ASSUME HeldAccounting, JobsOK, RequestsOK,
         NEW r \in Requests, requests[r].phase # "held",
         NEW k, NEW b \in Nat, NEW held, held.phase = "held", held.key = k, held.bytes = b,
         requests' = [requests EXCEPT ![r] = held],
         NEW job, jobs' = Put(jobs, k, job),
         job.waiters = (IF k \in DOMAIN jobs THEN jobs[k].waiters ELSE 0) + 1,
         waiters < MaxWaiters, heldBytes + b <= MaxHeldBytes,
         k \in DOMAIN jobs \/ Cardinality(DOMAIN jobs) < MaxJobs,
         waiters' = waiters + 1, heldBytes' = heldBytes + b
  PROVE  HeldAccounting'
<1>1. /\ \A i \in Requests : requests'[i] = IF i = r THEN held ELSE requests[i]
      /\ DOMAIN jobs' = DOMAIN jobs \cup {k}
      /\ \A i \in DOMAIN jobs' : jobs'[i] = IF i = k THEN job ELSE jobs[i]
  BY DEF RequestsOK, Put
<1>2. /\ HeldRequests' = HeldRequests \cup {r} /\ r \notin HeldRequests
      /\ Waiting(k)' = Waiting(k) \cup {r} /\ r \notin Waiting(k)
      /\ \A i : i # k => Waiting(i)' = Waiting(i)
  BY <1>1 DEF HeldRequests, Waiting
<1>3. /\ Cardinality(HeldRequests \cup {r}) = Cardinality(HeldRequests) + 1
      /\ Cardinality(Waiting(k) \cup {r}) = Cardinality(Waiting(k)) + 1
      /\ Cardinality(HeldRequests) \in Nat /\ Cardinality(Waiting(k)) \in Nat
  BY <1>2, WaitingFinite, FS_AddElement
<1>4. k \notin DOMAIN jobs => Cardinality(Waiting(k)) = 0
  <2>1. k \notin DOMAIN jobs => Waiting(k) = {}
    BY DEF Waiting, HeldAccounting, HeldRequests
  <2> QED
    BY <2>1, FS_EmptySet, Zenon
<1>5. BytesOf(HeldRequests)' = BytesOf(HeldRequests) + b
  <2>1. IsFiniteSet({r}) /\ HeldRequests \cap {r} = {}
    BY <1>2, FS_Singleton
  <2>2. \A i \in HeldRequests \cup {r} : requests'[i].bytes \in Nat
    BY <1>1 DEF RequestsOK, RequestOK, HeldRequests
  <2>3. Cardinality(Cells(requests', HeldRequests \cup {r})) =
          Cardinality(Cells(requests', HeldRequests)) + Cardinality(Cells(requests', {r}))
    BY <2>1, <2>2, WaitingFinite, CellsAdd
  <2>4. Cells(requests', HeldRequests) = Cells(requests, HeldRequests)
    <3>1. \A i \in HeldRequests : requests'[i].bytes = requests[i].bytes
      BY <1>1, <1>2 DEF HeldRequests
    <3> QED
      BY <3>1, Zenon DEF Cells
  <2>5. Cardinality(Cells(requests', {r})) = b
    <3>1. Cells(requests', {r}) = {r} \X (1 .. requests'[r].bytes)
      BY DEF Cells
    <3>2. requests'[r].bytes = b
      BY <1>1
    <3> QED
      BY <3>1, <3>2, CellsOfOne
  <2> QED
    BY <1>2, <2>3, <2>4, <2>5 DEF BytesOf, Cells
<1>6. \A i \in HeldRequests' : requests'[i].key \in DOMAIN jobs'
  BY <1>1, <1>2 DEF HeldAccounting, HeldRequests
<1>7. \A i \in DOMAIN jobs' : jobs'[i].waiters = Cardinality(Waiting(i)')
  BY <1>1, <1>2, <1>3, <1>4 DEF HeldAccounting
<1>8. Cardinality(DOMAIN jobs') <= MaxJobs
  <2>1. CASE k \in DOMAIN jobs
    <3>1. DOMAIN jobs' = DOMAIN jobs
      BY <1>1, <2>1
    <3> QED
      BY <3>1 DEF HeldAccounting
  <2>2. CASE k \notin DOMAIN jobs
    <3>1. /\ Cardinality(DOMAIN jobs \cup {k}) = Cardinality(DOMAIN jobs) + 1
          /\ Cardinality(DOMAIN jobs) \in Nat
      BY <2>2, FS_AddElement, FS_CardinalityType DEF JobsOK
    <3> QED
      BY <1>1, <2>2, <3>1, GateAssumption
  <2> QED
    BY <2>1, <2>2
<1>9. waiters \in Nat /\ MaxWaiters \in Nat
  BY <1>3, GateAssumption DEF HeldAccounting
<1>10. waiters' = Cardinality(HeldRequests') /\ waiters' <= MaxWaiters
  BY <1>2, <1>3, <1>9 DEF HeldAccounting
<1>11. heldBytes' = BytesOf(HeldRequests)' /\ heldBytes' <= MaxHeldBytes
  BY <1>5 DEF HeldAccounting
<1> QED
  BY <1>6, <1>7, <1>8, <1>10, <1>11 DEF HeldAccounting

(* Some requests less: one that hangs up, or all that wait for a job. *)
LEMMA HeldFewer ==
  ASSUME HeldAccounting, RequestsOK, NEW gone, gone \subseteq HeldRequests,
         \A r \in Requests : IF r \in gone THEN requests'[r].phase # "held"
                             ELSE requests'[r] = requests[r]
  PROVE  /\ HeldRequests' = HeldRequests \ gone /\ IsFiniteSet(gone)
         /\ \A k : Waiting(k)' = Waiting(k) \ gone
         /\ Cardinality(HeldRequests') = Cardinality(HeldRequests) - Cardinality(gone)
         /\ BytesOf(HeldRequests)' = BytesOf(HeldRequests) - BytesOf(gone)
         /\ Cardinality(HeldRequests') \in Nat /\ BytesOf(HeldRequests)' \in Nat
         /\ Cardinality(gone) \in Nat /\ BytesOf(gone) \in Nat
         /\ Cardinality(HeldRequests) \in Nat /\ BytesOf(HeldRequests) \in Nat
<1> DEFINE rest == HeldRequests \ gone
<1>1. HeldRequests' = rest /\ \A k : Waiting(k)' = Waiting(k) \ gone
  BY DEF HeldRequests, Waiting
<1>2. IsFiniteSet(gone) /\ IsFiniteSet(rest) /\ rest \cap gone = {} /\ rest \cup gone = HeldRequests
  BY WaitingFinite, FS_Subset
<1>3. \A r \in HeldRequests : requests[r].bytes \in Nat
  BY DEF RequestsOK, RequestOK, HeldRequests
<1>4. \A r \in rest : requests'[r].bytes = requests[r].bytes
  BY DEF HeldRequests
<1> HIDE DEF rest
<1>5. /\ Cardinality(rest) \in Nat /\ Cardinality(gone) \in Nat
      /\ Cardinality(HeldRequests) = Cardinality(rest) + Cardinality(gone)
  <2>1. Cardinality(rest) \in Nat /\ Cardinality(gone) \in Nat
    BY <1>2, FS_CardinalityType
  <2>2. Cardinality(rest \cup gone) =
          Cardinality(rest) + Cardinality(gone) - Cardinality(rest \cap gone)
    BY <1>2, FS_Union
  <2>3. Cardinality(rest \cap gone) = 0
    BY <1>2, FS_EmptySet, Zenon
  <2> QED
    BY <1>2, <2>1, <2>2, <2>3
<1>6. Cardinality(Cells(requests, HeldRequests)) =
        Cardinality(Cells(requests, rest)) + Cardinality(Cells(requests, gone))
  BY <1>2, <1>3, CellsAdd
<1>7. Cardinality(Cells(requests, rest)) \in Nat /\ Cardinality(Cells(requests, gone)) \in Nat
  BY <1>2, <1>3, CellsFinite
<1>8. Cells(requests', rest) = Cells(requests, rest)
  BY <1>4, CellsSame
<1>9. /\ BytesOf(HeldRequests)' = Cardinality(Cells(requests, rest))
      /\ BytesOf(HeldRequests) = Cardinality(Cells(requests, HeldRequests))
      /\ BytesOf(gone) = Cardinality(Cells(requests, gone))
  BY <1>1, <1>8 DEF BytesOf, Cells
<1> QED
  BY <1>1, <1>2, <1>5, <1>6, <1>7, <1>9

(* The client of a request hangs up. *)
LEMMA HeldLeave ==
  ASSUME HeldAccounting, JobsOK, RequestsOK,
         NEW r \in Requests, requests[r].phase = "held",
         requests' = [requests EXCEPT ![r] = Done],
         NEW k, k = requests[r].key, NEW job, jobs' = [jobs EXCEPT ![k] = job],
         job.waiters = jobs[k].waiters - 1,
         waiters' = waiters - 1, heldBytes' = heldBytes - requests[r].bytes
  PROVE  HeldAccounting' /\ waiters' \in Nat /\ heldBytes' \in Nat /\ job.waiters \in Nat
<1>1. \A i \in Requests : IF i \in {r} THEN requests'[i].phase # "held"
                          ELSE requests'[i] = requests[i]
  BY DEF RequestsOK, Done
<1>2. {r} \subseteq HeldRequests /\ r \in Waiting(k) /\ \A i : i # k => r \notin Waiting(i)
  BY DEF HeldRequests, Waiting
<1>3. /\ HeldRequests' = HeldRequests \ {r} /\ \A i : Waiting(i)' = Waiting(i) \ {r}
      /\ Cardinality(HeldRequests') = Cardinality(HeldRequests) - Cardinality({r})
      /\ BytesOf(HeldRequests)' = BytesOf(HeldRequests) - BytesOf({r})
      /\ Cardinality(HeldRequests') \in Nat /\ BytesOf(HeldRequests)' \in Nat
      /\ BytesOf({r}) \in Nat /\ Cardinality(HeldRequests) \in Nat /\ BytesOf(HeldRequests) \in Nat
  <2> DEFINE gone == {r}
  <2>1. gone \subseteq HeldRequests /\ \A i \in Requests : IF i \in gone THEN requests'[i].phase # "held"
                          ELSE requests'[i] = requests[i]
    BY <1>1, <1>2
  <2> HIDE DEF gone
  <2>2. /\ HeldRequests' = HeldRequests \ gone /\ \A i : Waiting(i)' = Waiting(i) \ gone
        /\ Cardinality(HeldRequests') = Cardinality(HeldRequests) - Cardinality(gone)
        /\ BytesOf(HeldRequests)' = BytesOf(HeldRequests) - BytesOf(gone)
        /\ Cardinality(HeldRequests') \in Nat /\ BytesOf(HeldRequests)' \in Nat
        /\ BytesOf(gone) \in Nat /\ Cardinality(HeldRequests) \in Nat /\ BytesOf(HeldRequests) \in Nat
    BY <2>1, HeldFewer
  <2> QED
    BY <2>2 DEF gone
<1>4. Cardinality({r}) = 1
  BY FS_Singleton
<1>5. BytesOf({r}) = requests[r].bytes
  <2>1. UNION {{i} \X (1 .. requests[i].bytes) : i \in {r}} = {r} \X (1 .. requests[r].bytes)
    OBVIOUS
  <2>2. requests[r].bytes \in Nat
    BY DEF RequestsOK, RequestOK
  <2> QED
    BY <2>1, <2>2, CellsOfOne DEF BytesOf
<1>6. k \in DOMAIN jobs /\ DOMAIN jobs' = DOMAIN jobs
      /\ \A i \in DOMAIN jobs : jobs'[i] = IF i = k THEN job ELSE jobs[i]
  BY <1>2 DEF HeldAccounting, HeldRequests
<1>7. Cardinality(Waiting(k) \ {r}) = Cardinality(Waiting(k)) - 1 /\ Cardinality(Waiting(k) \ {r}) \in Nat
  BY <1>2, WaitingFinite, FS_RemoveElement, FS_CardinalityType
<1>8. \A i \in DOMAIN jobs' : jobs'[i].waiters = Cardinality(Waiting(i)')
  <2>1. \A i : i # k => Waiting(i)' = Waiting(i)
    BY <1>2, <1>3
  <2> QED
    BY <1>3, <1>6, <1>7, <2>1 DEF HeldAccounting
<1>9. \A i \in HeldRequests' : requests'[i].key \in DOMAIN jobs'
  BY <1>1, <1>3, <1>6 DEF HeldAccounting
<1>10. waiters' = Cardinality(HeldRequests') /\ waiters' <= MaxWaiters /\ waiters' \in Nat
  BY <1>3, <1>4, GateAssumption DEF HeldAccounting
<1>11. heldBytes' = BytesOf(HeldRequests)' /\ heldBytes' <= MaxHeldBytes /\ heldBytes' \in Nat
  BY <1>3, <1>5, GateAssumption DEF HeldAccounting
<1>12. job.waiters \in Nat
  BY <1>6, <1>7 DEF HeldAccounting
<1>13. Cardinality(DOMAIN jobs') <= MaxJobs
  BY <1>6 DEF HeldAccounting
<1> QED
  BY <1>8, <1>9, <1>10, <1>11, <1>12, <1>13 DEF HeldAccounting

(* A job settles. *)
LEMMA HeldSettled ==
  ASSUME HeldAccounting, JobsOK, RequestsOK, NEW k \in DOMAIN jobs,
         \A r \in Requests : IF r \in Waiting(k) THEN requests'[r].phase # "held"
                             ELSE requests'[r] = requests[r],
         jobs' = Drop(jobs, {k}),
         waiters' = waiters - Cardinality(Waiting(k)),
         heldBytes' = heldBytes - BytesOf(Waiting(k))
  PROVE  HeldAccounting' /\ waiters' \in Nat /\ heldBytes' \in Nat
<1> DEFINE gone == Waiting(k)
<1>1. gone \subseteq HeldRequests
  BY DEF HeldRequests, Waiting
<1>2. \A i : i # k => Waiting(i) \cap gone = {}
  BY DEF Waiting
<1>3. /\ \A r \in Requests : IF r \in gone THEN requests'[r].phase # "held"
                             ELSE requests'[r] = requests[r]
      /\ waiters' = waiters - Cardinality(gone) /\ heldBytes' = heldBytes - BytesOf(gone)
      /\ \A r \in HeldRequests : requests[r].key = k => r \in gone
  BY DEF HeldRequests, Waiting
<1> HIDE DEF gone
<1>4. /\ HeldRequests' = HeldRequests \ gone /\ \A i : Waiting(i)' = Waiting(i) \ gone
      /\ Cardinality(HeldRequests') = Cardinality(HeldRequests) - Cardinality(gone)
      /\ BytesOf(HeldRequests)' = BytesOf(HeldRequests) - BytesOf(gone)
      /\ Cardinality(HeldRequests') \in Nat /\ BytesOf(HeldRequests)' \in Nat
      /\ Cardinality(gone) \in Nat /\ BytesOf(gone) \in Nat
      /\ Cardinality(HeldRequests) \in Nat /\ BytesOf(HeldRequests) \in Nat
  BY <1>1, <1>3, HeldFewer
<1>5. DOMAIN jobs' = DOMAIN jobs \ {k} /\ \A i \in DOMAIN jobs' : jobs'[i] = jobs[i]
  BY DEF Drop
<1>6. \A i \in DOMAIN jobs' : jobs'[i].waiters = Cardinality(Waiting(i)')
  <2>1. \A i : i # k => Waiting(i)' = Waiting(i)
    BY <1>2, <1>4
  <2> QED
    BY <1>5, <2>1 DEF HeldAccounting
<1>7. \A r \in HeldRequests' : requests'[r].key \in DOMAIN jobs'
  <2>1. HeldRequests \subseteq Requests
    BY DEF HeldRequests
  <2> QED
    BY <1>3, <1>4, <1>5, <2>1 DEF HeldAccounting
<1>8. waiters' = Cardinality(HeldRequests') /\ waiters' <= MaxWaiters /\ waiters' \in Nat
  BY <1>3, <1>4, GateAssumption DEF HeldAccounting
<1>9. heldBytes' = BytesOf(HeldRequests)' /\ heldBytes' <= MaxHeldBytes /\ heldBytes' \in Nat
  BY <1>3, <1>4, GateAssumption DEF HeldAccounting
<1>10. Cardinality(DOMAIN jobs') <= MaxJobs
  <2>1. Cardinality(DOMAIN jobs \ {k}) = Cardinality(DOMAIN jobs) - 1
    BY FS_RemoveElement DEF JobsOK
  <2>2. Cardinality(DOMAIN jobs) \in Nat
    BY FS_CardinalityType DEF JobsOK
  <2> QED
    BY <1>5, <2>1, <2>2, GateAssumption DEF HeldAccounting
<1> QED
  BY <1>6, <1>7, <1>8, <1>9, <1>10 DEF HeldAccounting

-----------------------------------------------------------------------------
(* Requests after a step *)

(* What holds of every request holds of the map. *)
LEMMA RequestsAfter ==
  ASSUME requests' = [r \in Requests |-> requests'[r]],
         \A r \in Requests : \E req : req = requests'[r] /\ RequestOK(req)'
  PROVE  RequestsOK'
<1>1. ASSUME NEW r \in Requests
      PROVE  RequestOK(requests[r])'
  <2>1. PICK req : req = requests'[r] /\ RequestOK(req)'
    OBVIOUS
  <2> QED
    BY <2>1 DEF RequestOK, UsedOK, NotAhead, Pin
<1> QED
  BY <1>1 DEF RequestsOK

(* What one that is sent off carries: nothing, or the pin its binding has  *)
(* after the step.                                                         *)
Carries(ctx, used, usedState) ==
  \/ used = 0 /\ usedState = None
  \/ /\ ctx.id \in Ids /\ used = pins'[ctx.id] /\ used # 0
     /\ usedState = objects'[ctx.id][used].state

(* A request as it is sent off. *)
LEMMA DispatchedOK ==
  ASSUME StoreInv', ServerTypes, UNCHANGED <<mode, modeRevision>>,
         NEW ctx, NEW caller, Made(ctx, caller), NotAhead(ctx)',
         NEW auto \in BOOLEAN, auto => mode = "auto",
         NEW used, NEW usedState, Carries(ctx, used, usedState),
         NEW req, req = Dispatched(ctx, caller, auto, used, usedState)
  PROVE  RequestOK(req)' /\ req.phase = "open"
<1>1. /\ req.phase = "open" /\ req.ctx = ctx /\ req.caller = caller /\ req.auto = auto
      /\ req.revision = modeRevision /\ req.used = used /\ req.usedState = usedState
      /\ req.failed = FALSE
  BY DEF Dispatched
<1>2. PinsOK' /\ modeRevision \in Nat
  BY StoreTypeIsPinsOK DEF StoreInv, StoreTypeOK, PinsOK, ServerTypes
<1>3. ASSUME used # 0
      PROVE  used \in Nat /\ used <= Len(objects'[ctx.id]) /\ usedState \in Values
  <2>1. ctx.id \in Ids /\ used = pins'[ctx.id] /\ usedState = objects'[ctx.id][used].state
    BY <1>3 DEF Carries
  <2>2. /\ objects'[ctx.id] \in Seq(PinType) /\ used \in Nat /\ used <= Len(objects'[ctx.id])
    BY <1>2, <2>1 DEF PinsOK
  <2>3. used \in 1 .. Len(objects'[ctx.id])
    BY <1>3, <2>2, LenProperties
  <2>4. objects'[ctx.id][used] \in PinType
    BY <2>2, <2>3, ElementOfSeq
  <2> QED
    BY <2>1, <2>2, <2>4 DEF PinType
<1>4. used \in Nat /\ usedState \in Values \cup {None}
  BY <1>3 DEF Carries
<1>5. req \in RequestType
  <2>1. req \in [phase : {"open", "answering"}, ctx : Contexts, caller : Callers,
        auto : BOOLEAN, revision : Nat, used : Nat, usedState : Values \cup {None},
        status : {None, "ok", "auth", "error"}, raw : Values \cup {None}, failed : BOOLEAN]
    BY <1>2, <1>4 DEF Dispatched, Made
  <2> QED
    BY <2>1 DEF RequestType
<1>6. UsedOK(req)'
  BY <1>1, <1>2, <1>3 DEF UsedOK, Pin, Carries
<1> QED
  BY <1>1, <1>5, <1>6 DEF RequestOK, NotAhead, Made

(* One that has not come, has ended, is refused, or waits. *)
LEMMA EndedOK ==
  ASSUME NEW req, req \in {New, Done} \/ \E reason \in Refusals : req = Blocked(reason)
  PROVE  /\ RequestOK(req) /\ RequestOK(req)'
         /\ req.phase \notin {"held", "open", "answering"}
<1>1. req.phase \in {"new", "done", "blocked"}
  BY DEF New, Done, Blocked
<1>2. req \in RequestType
  BY DEF Blocked, RequestType
<1> QED
  BY <1>1, <1>2 DEF RequestOK

(* A request as it is held. *)
LEMMA HeldOK ==
  ASSUME NEW ctx, NEW caller, Made(ctx, caller), NotAhead(ctx)', NEW bytes \in Sizes,
         generation \in Nat, NEW req, req = Held(ctx, caller, bytes)
  PROVE  RequestOK(req)' /\ req.phase = "held" /\ req.key = Key(ctx) /\ req.bytes = bytes
<1>1. /\ req.phase = "held" /\ req.ctx = ctx /\ req.caller = caller /\ req.bytes = bytes
      /\ req.key = Key(ctx) /\ req.promised = FALSE
      /\ req = [phase |-> "held", ctx |-> ctx, caller |-> caller, bytes |-> bytes,
                key |-> req.key, promised |-> FALSE]
  BY DEF Held
<1>2. Key(ctx) \in KeyType /\ Key(ctx).id = ctx.id
  BY KeyTyped
<1>3. req \in RequestType
  <2>1. req \in [phase : {"held"}, ctx : Contexts, caller : Callers, bytes : Sizes,
                 key : KeyType, promised : BOOLEAN]
    BY <1>1, <1>2 DEF Made
  <2> QED
    BY <2>1 DEF RequestType
<1>4. bytes \in Nat
  BY TurnStateAssumption
<1> QED
  BY <1>1, <1>2, <1>3, <1>4 DEF RequestOK, NotAhead, Made

-----------------------------------------------------------------------------
(* Jobs, slots and pauses after a step *)

(* A job settles.  Only success enters credentials, and they are those the *)
(* job was started with.                                                   *)
LEMMA SettledKeeps ==
  ASSUME StoreInv, ServerTypes, JobsOK, JobsCurrent, SlotsOK, SlotsCurrent, CooldownsOK,
         NEW k \in DOMAIN jobs, NEW result \in Results, NEW pause \in Nat,
         Settled(k, result, pause),
         UNCHANGED <<rules, epochs, mode, closed, generation>>
  PROVE  /\ JobsOK' /\ JobsCurrent' /\ SlotsOK' /\ SlotsCurrent' /\ CooldownsOK'
         /\ jobs' = Drop(jobs, {k})
         /\ \A id \in DOMAIN renewals' :
              \/ id \in DOMAIN renewals /\ renewals'[id].ctx = renewals[id].ctx
              \/ id = jobs[k].ctx.id /\ renewals'[id].ctx = jobs[k].ctx /\ Succeeded(result)
<1> DEFINE mine == jobs[k].ctx.id
<1>1. JobOK(k, jobs[k]) /\ now \in Nat /\ mine \in Ids
  BY DEF JobsOK, JobOK, StoreInv, StoreTypeOK
<1>2. /\ jobs' = Drop(jobs, {k}) /\ DOMAIN jobs' = DOMAIN jobs \ {k}
      /\ \A i \in DOMAIN jobs' : jobs'[i] = jobs[i]
  BY DEF Settled, Drop
<1>3. JobsOK' /\ JobsCurrent'
  <2>1. IsFiniteSet(DOMAIN jobs')
    BY <1>2, FS_RemoveElement DEF JobsOK
  <2>2. ASSUME NEW i, NEW job PROVE JobOK(i, job)' = JobOK(i, job)
    BY DEF JobOK, Made
  <2>3. JobsOK'
    BY <1>2, <2>1, <2>2 DEF JobsOK
  <2>4. ASSUME NEW ctx PROVE Current(ctx)' = Current(ctx)
    BY DEF Current, GateEnabled, Unchanged
  <2>5. JobsCurrent'
    BY <1>2, <2>4 DEF JobsCurrent, JobCurrent
  <2> QED
    BY <2>3, <2>5
<1>4. IsFiniteSet(DOMAIN renewals) /\ \A id \in DOMAIN renewals : SlotOK(id, renewals[id])
  BY DEF SlotsOK
<1> DEFINE Kept(S) ==
             /\ IsFiniteSet(DOMAIN S)
             /\ \A id \in DOMAIN S : SlotOK(id, S[id]) /\ S[id].ctx.id \in Ids
                   /\ \/ id \in DOMAIN renewals /\ S[id].ctx = renewals[id].ctx
                      \/ /\ id = mine /\ S[id].ctx = jobs[k].ctx
                         /\ Succeeded(result) /\ Current(jobs[k].ctx)
<1>5. Kept(renewals)
  BY <1>4 DEF SlotOK
<1>6. ASSUME Succeeded(result), Current(jobs[k].ctx),
             NEW S \in Remembered(renewals, jobs[k].ctx, jobs[k].caller, 0)
      PROVE  Kept(S)
  <2>1. Made(jobs[k].ctx, jobs[k].caller)
    BY <1>1 DEF JobOK
  <2>2. /\ IsFiniteSet(DOMAIN S)
        /\ \A id \in DOMAIN S : /\ SlotOK(id, S[id])
                                /\ \/ id \in DOMAIN renewals /\ S[id] = renewals[id]
                                   \/ id = mine /\ S[id].ctx = jobs[k].ctx
    BY <2>1, <1>1, <1>4, <1>6, RememberedOK
  <2> QED
    BY <2>2, <1>6 DEF SlotOK
<1>7. ASSUME NEW t \in Nat, NEW S, DOMAIN S = DOMAIN renewals,
             \A i \in DOMAIN renewals :
               S[i] = IF i = mine THEN [renewals[i] EXCEPT !.retryAt = t] ELSE renewals[i]
      PROVE  Kept(S)
  <2>1. ASSUME NEW i \in DOMAIN S
        PROVE  SlotOK(i, S[i]) /\ S[i].ctx = renewals[i].ctx
    <3>1. i \in DOMAIN renewals /\ SlotOK(i, renewals[i])
      BY <2>1, <1>4, <1>7
    <3>2. /\ SlotOK(i, [renewals[i] EXCEPT !.retryAt = t])
          /\ [renewals[i] EXCEPT !.retryAt = t].ctx = renewals[i].ctx
      BY <3>1, <1>7, SlotRetry
    <3>3. S[i] = [renewals[i] EXCEPT !.retryAt = t] \/ S[i] = renewals[i]
      BY <3>1, <1>7
    <3> QED
      BY <3>1, <3>2, <3>3, Zenon
  <2> QED
    BY <2>1, <1>4, <1>7 DEF SlotOK
<1>8. ASSUME NEW S, S = Drop(renewals, {mine})
      PROVE  Kept(S)
  <2>1. DOMAIN S = DOMAIN renewals \ {mine} /\ \A i \in DOMAIN S : S[i] = renewals[i]
    BY <1>8 DEF Drop
  <2>2. IsFiniteSet(DOMAIN S)
    BY <1>4, <2>1, FS_RemoveElement
  <2> QED
    BY <2>1, <2>2, <1>4 DEF SlotOK
<1> HIDE DEF Kept
<1>9. Kept(renewals') /\ CooldownsOK'
  <2> DEFINE success == Succeeded(result) /\ k.gen = generation /\ Current(jobs[k].ctx)
             again == [i \in DOMAIN renewals |-> IF i = mine THEN [renewals[i] EXCEPT !.retryAt = 0]
                                                ELSE renewals[i]]
             paused == IF mine \in DOMAIN renewals
                       THEN [renewals EXCEPT ![mine].retryAt = now + pause] ELSE renewals
  <2>1. \/ /\ success
           /\ \/ renewals' \in Remembered(renewals, jobs[k].ctx, jobs[k].caller, 0)
              \/ renewals' = again
           /\ cooldowns' = Drop(cooldowns, {[key |-> k, client |-> None]})
        \/ /\ cooldowns' = Put(cooldowns, CooldownKey(k, result), [reason |-> result, until |-> now + pause])
           /\ \/ renewals' = Drop(renewals, {mine}) \/ renewals' = paused
        \/ UNCHANGED <<renewals, cooldowns>>
    BY DEF Settled
  <2>2. Kept(again)
    <3>1. DOMAIN again = DOMAIN renewals /\ 0 \in Nat
      OBVIOUS
    <3>2. \A i \in DOMAIN renewals :
               again[i] = IF i = mine THEN [renewals[i] EXCEPT !.retryAt = 0] ELSE renewals[i]
      OBVIOUS
    <3> HIDE DEF again, mine
    <3> QED
      BY <3>1, <3>2, <1>7
  <2>3. Kept(paused)
    <3>1. DOMAIN paused = DOMAIN renewals /\ now + pause \in Nat
      BY <1>1
    <3>2. \A i \in DOMAIN renewals :
               paused[i] = IF i = mine THEN [renewals[i] EXCEPT !.retryAt = now + pause] ELSE renewals[i]
      OBVIOUS
    <3> HIDE DEF paused, mine
    <3> QED
      BY <3>1, <3>2, <1>7
  <2> DEFINE cut == Drop(cooldowns, {[key |-> k, client |-> None]})
             more == Put(cooldowns, CooldownKey(k, result), [reason |-> result, until |-> now + pause])
  <2>4. \A c \in DOMAIN cut : cut[c] \in CooldownType
    BY DEF Drop, CooldownsOK
  <2>5. \A c \in DOMAIN more : more[c] \in CooldownType
    <3>1. now + pause \in Nat
      BY <1>1
    <3> QED
      BY <3>1 DEF Put, CooldownsOK, CooldownType
  <2> HIDE DEF again, paused, cut, more, mine
  <2>6. CASE /\ success
             /\ \/ renewals' \in Remembered(renewals, jobs[k].ctx, jobs[k].caller, 0)
                \/ renewals' = again
             /\ cooldowns' = cut
    BY <2>6, <2>2, <2>4, <1>6 DEF CooldownsOK
  <2>7. CASE /\ cooldowns' = more
             /\ \/ renewals' = Drop(renewals, {mine}) \/ renewals' = paused
    BY <2>7, <2>3, <2>5, <1>8 DEF CooldownsOK
  <2>8. CASE UNCHANGED <<renewals, cooldowns>>
    BY <2>8, <1>5 DEF CooldownsOK
  <2> QED
    BY <2>1, <2>6, <2>7, <2>8 DEF cut, more
<1>10. SlotsOK'
  BY <1>9 DEF Kept, SlotsOK, SlotOK
<1>11. SlotsCurrent'
  BY <1>9 DEF Kept, SlotsCurrent, Current, GateEnabled, Unchanged
<1> QED
  BY <1>2, <1>3, <1>9, <1>10, <1>11 DEF Kept

(* Credentials on the list keep what earned them their place. *)
LEMMA EarnedKept ==
  ASSUME RenewalKeyEarned, proven \subseteq proven',
         \A id \in DOMAIN renewals' :
           \/ id \in DOMAIN renewals /\ renewals'[id].ctx = renewals[id].ctx
           \/ \E by \in Evidence : Confirmed(renewals'[id].ctx, by) \in proven'
  PROVE  RenewalKeyEarned'
<1>1. ASSUME NEW id \in DOMAIN renewals'
      PROVE  \E by \in Evidence : Confirmed(renewals'[id].ctx, by) \in proven'
  <2>1. CASE id \in DOMAIN renewals /\ renewals'[id].ctx = renewals[id].ctx
    BY <1>1, <2>1 DEF RenewalKeyEarned
  <2> QED
    BY <1>1, <2>1
<1> QED
  BY <1>1 DEF RenewalKeyEarned

-----------------------------------------------------------------------------
(* Each step preserves the invariant *)

(* A job ends with a result. *)
LEMMA SettleInv ==
  ASSUME TurnInv, StoreInv', StoreMoves, UNCHANGED <<now, rules, epochs>>,
         NEW k \in DOMAIN jobs, NEW result \in Results, NEW pause \in Nat,
         Settle(k, result, pause), proven \subseteq proven',
         Succeeded(result) =>
           \E by \in Evidence : Confirmed(jobs[k].ctx, by) \in proven'
  PROVE  TurnInv'
<1>1. /\ StoreInv /\ ServerTypes /\ JobsOK /\ JobsCurrent /\ SlotsOK /\ SlotsCurrent
      /\ CooldownsOK /\ RequestsOK /\ HeldAccounting /\ RenewalKeyEarned
  BY DEF TurnInv
<1>2. /\ UNCHANGED <<generation, closed, mode, modeRevision, boots>>
      /\ Settled(k, result, pause)
      /\ waiters' = waiters - Cardinality(Waiting(k))
      /\ heldBytes' = heldBytes - BytesOf(Waiting(k))
  BY DEF Settle
<1>3. /\ JobsOK' /\ JobsCurrent' /\ SlotsOK' /\ SlotsCurrent' /\ CooldownsOK'
      /\ jobs' = Drop(jobs, {k})
      /\ \A id \in DOMAIN renewals' :
           \/ id \in DOMAIN renewals /\ renewals'[id].ctx = renewals[id].ctx
           \/ id = jobs[k].ctx.id /\ renewals'[id].ctx = jobs[k].ctx /\ Succeeded(result)
  BY <1>1, <1>2, SettledKeeps
<1>4. RenewalKeyEarned'
  BY <1>1, <1>3, EarnedKept
<1>5. PICK job, held :
        /\ job = jobs[k] /\ held = Waiting(k)
        /\ LET released == job.reason \in ReleaseReasons \/ mode # "auto"
               served == /\ Succeeded(result) /\ k.gen = generation
                         /\ GateEnabled(job.ctx.model) /\ Live(job.ctx)'
               answer(req) ==
                 IF released THEN Dispatched(req.ctx, req.caller, FALSE, 0, None)
                 ELSE IF served THEN Dispatched(req.ctx, req.caller, TRUE, LivePin(job.ctx)',
                                                Pin(job.ctx.id)'.state)
                 ELSE Blocked(IF Succeeded(result) THEN "binding_changed" ELSE result)
           IN  requests' = [r \in Requests |-> IF r \in held THEN answer(requests[r])
                                              ELSE requests[r]]
  BY DEF Settle
<1>6. requests' = [r \in Requests |-> requests'[r]]
  BY <1>5
<1>7. ServerMoves
  BY <1>1, <1>2 DEF ServerMoves, ServerTypes
<1>8. ASSUME NEW r \in Requests
      PROVE  IF r \in Waiting(k) THEN \E req : req = requests'[r] /\ RequestOK(req)' /\ req.phase # "held"
             ELSE requests'[r] = requests[r] /\ \E req : req = requests'[r] /\ RequestOK(req)'
  <2>1. PICK q : q = requests[r]
    OBVIOUS
  <2>2. RequestOK(q) /\ RequestOK(q)'
    BY <2>1, <1>1, <1>7, RequestStays DEF RequestsOK
  <2>3. CASE r \notin Waiting(k)
    BY <2>1, <2>2, <2>3, <1>5
  <2>4. CASE r \in Waiting(k)
    <3>1. q.phase = "held" /\ q.key = k
      BY <2>1, <2>4 DEF Waiting
    <3>2. Made(q.ctx, q.caller) /\ NotAhead(q.ctx)' /\ q.ctx.id = k.id
      BY <2>2, <3>1 DEF RequestOK, Made
    <3>3. JobOK(k, job) /\ job.ctx.id = q.ctx.id /\ q.ctx.id \in Ids
      BY <1>1, <1>5, <3>2 DEF JobsOK, JobOK
    <3>4. PICK req : req = requests'[r]
      OBVIOUS
    <3>5. \/ req = Dispatched(q.ctx, q.caller, FALSE, 0, None)
          \/ /\ mode = "auto" /\ Live(job.ctx)'
             /\ req = Dispatched(q.ctx, q.caller, TRUE, LivePin(job.ctx)', Pin(job.ctx.id)'.state)
          \/ \E reason \in Refusals : req = Blocked(reason)
      <4> DEFINE released == job.reason \in ReleaseReasons \/ mode # "auto"
                 served == /\ Succeeded(result) /\ k.gen = generation
                           /\ GateEnabled(job.ctx.model) /\ Live(job.ctx)'
                 reason == IF Succeeded(result) THEN "binding_changed" ELSE result
      <4>1. req = IF released THEN Dispatched(q.ctx, q.caller, FALSE, 0, None)
                  ELSE IF served THEN Dispatched(q.ctx, q.caller, TRUE, LivePin(job.ctx)',
                                                 Pin(job.ctx.id)'.state)
                  ELSE Blocked(reason)
        BY <1>5, <2>1, <2>4, <3>4
      <4>2. reason \in Refusals
        BY DEF Refusals, Results, CancelReasons
      <4> HIDE DEF reason
      <4> QED
        BY <4>1, <4>2, Zenon
    <3>6. CASE req = Dispatched(q.ctx, q.caller, FALSE, 0, None)
      <4>1. PICK ctx, caller : ctx = q.ctx /\ caller = q.caller
        OBVIOUS
      <4>2. /\ Made(ctx, caller) /\ NotAhead(ctx)' /\ Carries(ctx, 0, None)
            /\ req = Dispatched(ctx, caller, FALSE, 0, None)
        BY <3>2, <3>6, <4>1 DEF NotAhead, Carries
      <4>3. UNCHANGED <<mode, modeRevision>>
        BY <1>2
      <4>4. RequestOK(req)' /\ req.phase = "open"
        BY <1>1, <4>2, <4>3, DispatchedOK
      <4> QED
        BY <3>4, <4>4, <2>4
    <3>7. CASE /\ mode = "auto" /\ Live(job.ctx)'
               /\ req = Dispatched(q.ctx, q.caller, TRUE, LivePin(job.ctx)', Pin(job.ctx.id)'.state)
      <4>1. /\ LivePin(job.ctx)' = pins'[q.ctx.id] /\ pins'[q.ctx.id] # 0
            /\ Pin(job.ctx.id)'.state = Pin(q.ctx.id)'.state
        BY <3>3, <3>7 DEF LivePin, Live, Qualified, Bound, Pin
      <4>2. PICK used, usedState : used = LivePin(job.ctx)' /\ usedState = Pin(job.ctx.id)'.state
        OBVIOUS
      <4>3. PICK ctx, caller : ctx = q.ctx /\ caller = q.caller
        OBVIOUS
      <4>4. /\ Made(ctx, caller) /\ NotAhead(ctx)'
            /\ req = Dispatched(ctx, caller, TRUE, used, usedState)
            /\ Carries(ctx, used, usedState)
        BY <3>2, <3>3, <3>7, <4>1, <4>2, <4>3 DEF NotAhead, Pin, Carries
      <4>5. UNCHANGED <<mode, modeRevision>>
        BY <1>2
      <4>6. PICK auto : auto = TRUE
        OBVIOUS
      <4>7. auto \in BOOLEAN /\ (auto => mode = "auto") /\ req = Dispatched(ctx, caller, auto, used, usedState)
        BY <3>7, <4>4, <4>6
      <4>8. RequestOK(req)' /\ req.phase = "open"
        BY <1>1, <4>4, <4>5, <4>7, DispatchedOK
      <4> QED
        BY <3>4, <4>8, <2>4
    <3>8. CASE \E reason \in Refusals : req = Blocked(reason)
      BY <3>4, <3>8, <2>4, EndedOK
    <3> QED
      BY <3>5, <3>6, <3>7, <3>8
  <2> QED
    BY <2>3, <2>4
<1>9. RequestsOK'
  BY <1>6, <1>8, RequestsAfter
<1>10. HeldAccounting' /\ waiters' \in Nat /\ heldBytes' \in Nat
  BY <1>1, <1>2, <1>3, <1>8, HeldSettled
<1>11. ServerTypes'
  BY <1>1, <1>2, <1>10 DEF ServerTypes
<1> QED
  BY <1>3, <1>4, <1>9, <1>10, <1>11 DEF TurnInv

(* At most one request moves. *)
LEMMA RequestsStay ==
  ASSUME StoreInv, StoreInv', StoreMoves, ServerTypes, ServerMoves, RequestsOK,
         UNCHANGED requests
  PROVE  RequestsOK'
<1>1. ASSUME NEW r \in Requests
      PROVE  \E req : req = requests'[r] /\ RequestOK(req)'
  <2>1. PICK req : req = requests[r]
    OBVIOUS
  <2>2. RequestOK(req)
    BY <2>1 DEF RequestsOK
  <2> QED
    BY <2>1, <2>2, RequestStays
<1> QED
  BY <1>1, RequestsAfter DEF RequestsOK

(* One request changes, the others are left alone. *)
LEMMA OneRequestMoves ==
  ASSUME StoreInv, StoreInv', StoreMoves, ServerTypes, ServerMoves, RequestsOK,
         NEW r \in Requests, NEW new, requests' = [requests EXCEPT ![r] = new], RequestOK(new)'
  PROVE  /\ RequestsOK'
         /\ \A i \in Requests : requests'[i] = IF i = r THEN new ELSE requests[i]
<1>1. \A i \in Requests : requests'[i] = IF i = r THEN new ELSE requests[i]
  BY DEF RequestsOK
<1>2. ASSUME NEW i \in Requests
      PROVE  \E req : req = requests'[i] /\ RequestOK(req)'
  <2>1. PICK req : req = requests'[i]
    OBVIOUS
  <2>2. CASE i = r
    BY <1>1, <2>1, <2>2
  <2>3. CASE i # r
    <3>1. req = requests[i] /\ RequestOK(req)
      BY <1>1, <2>1, <2>3 DEF RequestsOK
    <3> QED
      BY <2>1, <3>1, RequestStays
  <2> QED
    BY <2>2, <2>3
<1>3. requests' = [i \in Requests |-> requests'[i]]
  BY DEF RequestsOK
<1> QED
  BY <1>1, <1>2, <1>3, RequestsAfter

(* Jobs that go on, aborted or not, and credentials that stay or go, with  *)
(* the switch, the rules and the bindings as they were.                    *)
LEMMA JobsGoOn ==
  ASSUME JobsOK, JobsCurrent, UNCHANGED <<rules, epochs, mode, closed, generation>>,
         DOMAIN jobs' = DOMAIN jobs,
         \A k \in DOMAIN jobs : /\ JobOK(k, jobs'[k]) /\ jobs'[k].ctx = jobs[k].ctx
                                /\ jobs[k].aborted => jobs'[k].aborted
  PROVE  JobsOK' /\ JobsCurrent'
<1>1. JobsOK'
  BY DEF JobsOK, JobOK
<1>2. JobsCurrent'
  BY DEF JobsCurrent, JobCurrent, Current, GateEnabled, Unchanged
<1> QED
  BY <1>1, <1>2

(* Remembered credentials and pauses that stay put. *)
LEMMA SlotsGoOn ==
  ASSUME SlotsOK, SlotsCurrent, CooldownsOK, UNCHANGED <<rules, epochs, mode, closed, renewals, cooldowns>>
  PROVE  SlotsOK' /\ SlotsCurrent' /\ CooldownsOK'
BY DEF SlotsOK, SlotsCurrent, CooldownsOK, SlotOK, Current, GateEnabled, Unchanged

(* A probe or a pause of a job is over. *)
LEMMA JobStepInv ==
  ASSUME TurnInv, NEW k \in DOMAIN jobs, JobStep(k)
  PROVE  TurnInv'
<1>1. /\ StoreInv /\ ServerTypes /\ JobsOK /\ JobsCurrent /\ SlotsOK /\ SlotsCurrent
      /\ CooldownsOK /\ RequestsOK /\ HeldAccounting /\ RenewalKeyEarned
  BY DEF TurnInv
<1>2. JobOK(k, jobs[k])
  BY <1>1 DEF JobsOK
<1>3. ASSUME UNCHANGED storeVars
      PROVE  StoreInv' /\ StoreMoves /\ UNCHANGED <<now, rules, epochs>>
  <2>1. UNCHANGED <<now, rules, epochs, objects, pins>>
    BY <1>3 DEF storeVars
  <2> QED
    BY <1>1, <1>3, <2>1, QuietInv, MovesQuiet
<1>4. CASE GiveUp(k)
  <2>1. PICK result : result = Verdict(k)
    OBVIOUS
  <2>2. result \in Results
    <3>1. jobs[k].reason \in CancelReasons \cup {None}
      BY <1>2 DEF JobOK, JobType
    <3>2. /\ Replacement(jobs[k]) \in {"same", "reused", "binding_changed"}
          /\ StopReason(jobs[k], "cancelled") \in Results
          /\ StopReason(jobs[k], "configuration_changed") \in Results
      BY <3>1 DEF Replacement, StopReason, Results, CancelReasons
    <3>3. {"reused", "binding_changed"} \subseteq Results
      BY DEF Results, CancelReasons
    <3>4. result # None
      BY <1>4, <2>1 DEF GiveUp
    <3> QED
      BY <2>1, <3>2, <3>3, <3>4 DEF Verdict
  <2>3. /\ UNCHANGED storeVars /\ Settle(k, result, 0)
        /\ proven' = IF Succeeded(result) THEN proven \cup {Confirmed(jobs[k].ctx, "pin")} ELSE proven
    BY <1>4, <2>1 DEF GiveUp, StoreUntouched
  <2>4. 0 \in Nat /\ proven \subseteq proven'
        /\ (Succeeded(result) => \E by \in Evidence : Confirmed(jobs[k].ctx, by) \in proven')
    BY <2>3 DEF Evidence
  <2> QED
    BY <1>3, <2>2, <2>3, <2>4, SettleInv
<1>5. CASE Find(k)
  <2>1. PICK ctx : ctx = jobs[k].ctx
    OBVIOUS
  <2>2. PICK v : /\ AdoptProbe(ctx, v) /\ Settle(k, "found", 0)
                 /\ proven' = proven \cup {Confirmed(ctx, "upstream")}
    BY <1>5, <2>1 DEF Find
  <2>3. Attached(ctx)
    BY <1>2, <2>1, MadeAttached DEF JobOK
  <2>4. v \in Values
    <3>1. rules[ctx.model] \in Rules /\ v \in rules[ctx.model].pinned
      BY <2>2, <2>3, <1>1 DEF AdoptProbe, CanAdopt, Enabled, StoreInv, StoreTypeOK, Attached, Contexts
    <3> QED
      BY <3>1, RuleFields
  <2>5. StoreInv' /\ UNCHANGED <<now, rules, epochs>>
    BY <1>1, <2>2, <2>3, <2>4, AdoptInv DEF AdoptProbe
  <2>6. StoreMoves
    BY <1>1, <2>2, <2>3, <2>5, MovesAdopt
  <2>7. /\ "found" \in Results /\ 0 \in Nat /\ proven \subseteq proven'
        /\ Succeeded("found") => \E by \in Evidence : Confirmed(jobs[k].ctx, by) \in proven'
    BY <2>1, <2>2 DEF Results, Evidence
  <2> QED
    BY <2>2, <2>5, <2>6, <2>7, SettleInv
<1>6. CASE Fail(k)
  <2>1. PICK result \in {"http_401", "error"}, pause \in Pauses :
          UNCHANGED storeVars /\ UNCHANGED proven /\ Settle(k, result, pause)
    BY <1>6 DEF Fail, StoreUntouched
  <2>2. result \in Results /\ pause \in Nat /\ ~Succeeded(result) /\ proven \subseteq proven'
    BY <2>1, TurnStateAssumption DEF Results, Succeeded
  <2> QED
    BY <1>3, <2>1, <2>2, SettleInv
<1>7. ASSUME NEW phase \in {"probing", "sleeping"}, jobs' = [jobs EXCEPT ![k].phase = phase],
             StoreUntouched, ServerUntouched,
             UNCHANGED <<renewals, cooldowns, generation, waiters, heldBytes, closed, requests>>
      PROVE  TurnInv'
  <2>1. /\ StoreInv' /\ StoreMoves /\ UNCHANGED <<now, rules, epochs>>
        /\ UNCHANGED <<mode, modeRevision, boots, proven>>
    BY <1>3, <1>7 DEF StoreUntouched, ServerUntouched
  <2>2. /\ DOMAIN jobs' = DOMAIN jobs
        /\ \A i \in DOMAIN jobs : /\ JobOK(i, jobs'[i]) /\ jobs'[i].ctx = jobs[i].ctx
                                  /\ jobs'[i].aborted = jobs[i].aborted
                                  /\ jobs'[i].waiters = jobs[i].waiters
    BY <1>1, <1>7 DEF JobsOK, JobOK, JobType
  <2>3. JobsOK' /\ JobsCurrent' /\ SlotsOK' /\ SlotsCurrent' /\ CooldownsOK'
    BY <1>1, <1>7, <2>1, <2>2, JobsGoOn, SlotsGoOn
  <2>4. RequestsOK'
    BY <1>1, <1>7, <2>1, RequestsStay DEF ServerMoves, ServerTypes
  <2>5. HeldAccounting'
    <3>1. \A i \in DOMAIN jobs' :
            jobs'[i].waiters = IF i \in DOMAIN jobs THEN jobs[i].waiters ELSE 0
      BY <2>2
    <3>2. Cardinality(DOMAIN jobs') <= MaxJobs /\ DOMAIN jobs \subseteq DOMAIN jobs'
      BY <1>1, <2>2 DEF HeldAccounting
    <3> QED
      BY <1>1, <1>7, <3>1, <3>2, HeldKept
  <2>6. ServerTypes' /\ RenewalKeyEarned'
    BY <1>1, <1>7, <2>1 DEF ServerTypes, RenewalKeyEarned
  <2> QED
    BY <2>1, <2>3, <2>4, <2>5, <2>6 DEF TurnInv
<1>8. CASE Miss(k)
  BY <1>7, <1>8 DEF Miss
<1>9. CASE ProbeAgain(k)
  BY <1>7, <1>9 DEF ProbeAgain
<1> QED
  BY <1>4, <1>5, <1>6, <1>8, <1>9 DEF JobStep, ProbeReturns, Wake

(* One request moves outside the gate, which at most remembers something   *)
(* of it.                                                                  *)
LEMMA OutsideGate ==
  ASSUME TurnInv, StoreInv', StoreMoves,
         UNCHANGED <<rules, epochs, mode, modeRevision, boots,
                     jobs, cooldowns, generation, waiters, heldBytes, closed>>,
         NEW r \in Requests, requests[r].phase # "held",
         NEW new, requests' = [requests EXCEPT ![r] = new], RequestOK(new)', new.phase # "held",
         SlotsOK', SlotsCurrent', RenewalKeyEarned'
  PROVE  TurnInv'
<1>1. /\ StoreInv /\ ServerTypes /\ JobsOK /\ JobsCurrent /\ CooldownsOK
      /\ RequestsOK /\ HeldAccounting
  BY DEF TurnInv
<1>2. ServerMoves /\ ServerTypes' /\ CooldownsOK'
  BY <1>1 DEF ServerMoves, ServerTypes, CooldownsOK
<1>3. JobsOK' /\ JobsCurrent'
  <2>1. \A k \in DOMAIN jobs : JobOK(k, jobs[k])
    BY <1>1 DEF JobsOK
  <2>2. /\ DOMAIN jobs' = DOMAIN jobs
        /\ \A k \in DOMAIN jobs : /\ JobOK(k, jobs'[k]) /\ jobs'[k].ctx = jobs[k].ctx
                                  /\ jobs[k].aborted => jobs'[k].aborted
    BY <2>1
  <2> QED
    BY <1>1, <2>2, JobsGoOn
<1>4. /\ RequestsOK'
      /\ \A i \in Requests : requests'[i] = IF i = r THEN new ELSE requests[i]
  BY <1>1, <1>2, OneRequestMoves
<1>5. HeldAccounting'
  <2>1. \A i \in Requests :
           /\ requests'[i].phase = "held" <=> requests[i].phase = "held"
           /\ requests[i].phase = "held" => /\ requests'[i].key = requests[i].key
                                            /\ requests'[i].bytes = requests[i].bytes
    BY <1>4
  <2>2. /\ DOMAIN jobs \subseteq DOMAIN jobs' /\ Cardinality(DOMAIN jobs') <= MaxJobs
        /\ \A k \in DOMAIN jobs' : jobs'[k].waiters = IF k \in DOMAIN jobs THEN jobs[k].waiters ELSE 0
    BY <1>1 DEF HeldAccounting
  <2> QED
    BY <1>1, <2>1, <2>2, HeldKept
<1> QED
  BY <1>2, <1>3, <1>4, <1>5 DEF TurnInv

(* The same when nothing is remembered. *)
LEMMA FarFromGate ==
  ASSUME TurnInv, StoreInv', StoreMoves,
         UNCHANGED <<rules, epochs, mode, modeRevision, boots, gateVars>>, proven \subseteq proven',
         NEW r \in Requests, requests[r].phase # "held",
         NEW new, requests' = [requests EXCEPT ![r] = new], RequestOK(new)', new.phase # "held"
  PROVE  TurnInv'
<1>1. UNCHANGED <<jobs, renewals, cooldowns, generation, waiters, heldBytes, closed>>
  BY DEF gateVars
<1>2. SlotsOK' /\ SlotsCurrent'
  BY <1>1, SlotsGoOn DEF TurnInv
<1>3. RenewalKeyEarned'
  BY <1>1, EarnedKept DEF TurnInv
<1> QED
  BY <1>1, <1>2, <1>3, OutsideGate

(* A request arrives. *)
LEMMA ArriveInv ==
  ASSUME TurnInv, NEW r \in Requests, Arrive(r)
  PROVE  TurnInv'
<1>1. /\ StoreInv /\ ServerTypes /\ JobsOK /\ JobsCurrent /\ SlotsOK /\ SlotsCurrent
      /\ CooldownsOK /\ RequestsOK /\ HeldAccounting /\ RenewalKeyEarned
  BY DEF TurnInv
<1>2. /\ UNCHANGED <<now, rules, epochs, objects, pins>>
      /\ UNCHANGED <<mode, modeRevision, boots>>
      /\ UNCHANGED storeVars /\ requests[r] = New
  BY DEF Arrive, StoreUntouched, storeVars
<1>3. StoreInv' /\ StoreMoves /\ requests[r].phase # "held"
  BY <1>1, <1>2, QuietInv, MovesQuiet DEF New
<1> DEFINE Outcome(m, ctx, caller, bytes) ==
             \/ Pass(r, ctx, caller)
             \/ GateEnabled(m) /\ Live(ctx) /\ CacheHit(r, ctx, caller)
             \/ GateEnabled(m) /\ Refuse(r, ctx, caller, bytes)
             \/ GateEnabled(m) /\ Hold(r, ctx, caller, bytes)
<1>4. PICK m \in Models, caller \in Callers, bytes \in Sizes :
        \E ctx : ctx = Context(m, caller) /\ Outcome(m, ctx, caller, bytes)
  BY DEF Arrive
<1>5. PICK ctx : ctx = Context(m, caller) /\ Outcome(m, ctx, caller, bytes)
  BY <1>4
<1>6. Made(ctx, caller) /\ NotAhead(ctx) /\ Unchanged(ctx) /\ ctx.model = m
  BY <1>1, <1>5, ContextMade DEF StoreInv
<1>7. NotAhead(ctx)'
  BY <1>2, <1>6 DEF NotAhead
<1>8. CASE Pass(r, ctx, caller)
  <2>1. PICK auto, new : auto = (mode = "auto") /\ new = Dispatched(ctx, caller, auto, 0, None)
    OBVIOUS
  <2>2. requests' = [requests EXCEPT ![r] = new] /\ UNCHANGED <<gateVars, proven>>
    BY <1>8, <2>1 DEF Pass, Become
  <2>3. /\ auto \in BOOLEAN /\ (auto => mode = "auto") /\ Carries(ctx, 0, None)
        /\ new = Dispatched(ctx, caller, auto, 0, None)
    BY <2>1 DEF Carries
  <2>4. RequestOK(new)' /\ new.phase = "open"
    BY <1>1, <1>2, <1>3, <1>6, <1>7, <2>3, DispatchedOK
  <2> QED
    BY <1>2, <1>3, <2>2, <2>4, FarFromGate
<1>9. CASE GateEnabled(m) /\ Live(ctx) /\ CacheHit(r, ctx, caller)
  <2>1. PICK auto, used, usedState, new :
          /\ auto = TRUE /\ used = LivePin(ctx) /\ usedState = Pin(ctx.id).state
          /\ new = Dispatched(ctx, caller, auto, used, usedState)
    OBVIOUS
  <2>2. /\ requests' = [requests EXCEPT ![r] = new] /\ Remember(ctx, caller, FALSE)
        /\ UNCHANGED <<jobs, cooldowns, generation, waiters, heldBytes, closed>>
        /\ proven' = IF ctx.scope = "model" THEN proven ELSE proven \cup {Confirmed(ctx, "own")}
    BY <1>9, <2>1 DEF CacheHit, Become
  <2>3. /\ auto \in BOOLEAN /\ (auto => mode = "auto") /\ ctx.id \in Ids
        /\ Carries(ctx, used, usedState) /\ new = Dispatched(ctx, caller, auto, used, usedState)
    BY <1>2, <1>6, <1>9, <2>1, LiveBound DEF Carries, LivePin, Live, Qualified, Bound, Pin, GateEnabled
  <2>4. RequestOK(new)' /\ new.phase = "open"
    BY <1>1, <1>2, <1>3, <1>6, <1>7, <2>3, DispatchedOK
  <2>5. /\ SlotsOK' /\ SlotsCurrent'
        /\ \A id \in DOMAIN renewals' :
              \/ id \in DOMAIN renewals /\ renewals'[id] = renewals[id]
              \/ id = ctx.id /\ renewals'[id].ctx = ctx /\ ctx.scope # "model"
    BY <1>1, <1>2, <1>6, <2>2, RememberKeeps
  <2>6. RenewalKeyEarned'
    <3>1. \A id \in DOMAIN renewals' :
            \/ id \in DOMAIN renewals /\ renewals'[id].ctx = renewals[id].ctx
            \/ Confirmed(renewals'[id].ctx, "own") \in proven'
      BY <2>2, <2>5
    <3>2. "own" \in Evidence /\ proven \subseteq proven'
      BY <2>2 DEF Evidence
    <3> QED
      BY <1>1, <3>1, <3>2, EarnedKept
  <2> QED
    BY <1>2, <1>3, <2>2, <2>4, <2>5, <2>6, OutsideGate
<1>10. CASE GateEnabled(m) /\ Refuse(r, ctx, caller, bytes)
  <2>1. PICK reason, new : reason = Refusal(ctx, caller, bytes) /\ new = Blocked(reason)
    OBVIOUS
  <2>2. requests' = [requests EXCEPT ![r] = new] /\ UNCHANGED <<gateVars, proven>> /\ reason # None
    BY <1>10, <2>1 DEF Refuse, Become
  <2>3. reason \in Refusals
    <3>1. CoolingDown(ctx) => cooldowns[CooldownEntry(ctx)].reason \in Results
      BY <1>1 DEF CoolingDown, CooldownsOK, CooldownType
    <3> QED
      BY <2>1, <2>2, <3>1 DEF Refusal, Refusals
  <2>4. RequestOK(new)' /\ new.phase # "held"
    BY <2>1, <2>3, EndedOK
  <2> QED
    BY <1>2, <1>3, <2>2, <2>4, FarFromGate
<1>11. CASE GateEnabled(m) /\ Hold(r, ctx, caller, bytes)
  <2> DEFINE old == IF Key(ctx) \in DOMAIN jobs THEN jobs[Key(ctx)] ELSE NewJob(ctx, caller, FALSE)
  <2>1. PICK new, k, job : /\ new = Held(ctx, caller, bytes) /\ k = Key(ctx)
                           /\ job = [old EXCEPT !.waiters = @ + 1]
    OBVIOUS
  <2>2. /\ requests' = [requests EXCEPT ![r] = new] /\ jobs' = Put(jobs, k, job)
        /\ waiters' = waiters + 1 /\ heldBytes' = heldBytes + bytes
        /\ UNCHANGED <<renewals, cooldowns, generation, closed, proven>>
    BY <1>11, <2>1 DEF Hold, Become, Wait
  <2>3. /\ ctx.id # None /\ ~(waiters >= MaxWaiters) /\ ~(heldBytes + bytes > MaxHeldBytes)
        /\ k \in DOMAIN jobs \/ ~(Cardinality(DOMAIN jobs) >= MaxJobs)
    <3>1. Refusal(ctx, caller, bytes) = None
      BY <1>11 DEF Hold
    <3>2. CoolingDown(ctx) => cooldowns[CooldownEntry(ctx)].reason \in Results
      BY <1>1 DEF CoolingDown, CooldownsOK, CooldownType
    <3>3. None \notin Refusals
      BY TurnStateAssumption
    <3> QED
      BY <2>1, <3>1, <3>2, <3>3 DEF Refusal, Refusals
  <2>4. ctx.id \in Ids /\ generation \in Nat /\ k.gen = generation
    BY <1>1, <1>6, <2>1, <2>3, KeyTyped DEF Made, Contexts, ServerTypes
  <2>5. /\ RequestOK(new)' /\ new.phase = "held" /\ new.key = k /\ new.bytes = bytes
    BY <1>6, <1>7, <2>1, <2>4, HeldOK
  <2>6. /\ JobOK(k, old) /\ old.waiters = IF k \in DOMAIN jobs THEN jobs[k].waiters ELSE 0
        /\ k \notin DOMAIN jobs => old.ctx = ctx /\ old.aborted = FALSE
    <3>1. CASE k \in DOMAIN jobs
      <4>1. old = jobs[k] /\ JobOK(k, jobs[k])
        BY <1>1, <2>1, <3>1 DEF JobsOK
      <4> HIDE DEF old
      <4> QED
        BY <3>1, <4>1
    <3>2. CASE k \notin DOMAIN jobs
      BY <1>1, <1>6, <2>1, <2>4, <3>2, NewJobOK
    <3> QED
      BY <3>1, <3>2
  <2> HIDE DEF old
  <2>7. /\ JobOK(k, job) /\ job.waiters = old.waiters + 1 /\ job.ctx = old.ctx
        /\ job.aborted = old.aborted
    BY <2>1, <2>6 DEF JobOK, JobType
  <2>8. /\ DOMAIN jobs' = DOMAIN jobs \cup {k}
        /\ \A i \in DOMAIN jobs' : jobs'[i] = IF i = k THEN job ELSE jobs[i]
    BY <2>2 DEF Put
  <2>9. JobsOK'
    <3>1. IsFiniteSet(DOMAIN jobs')
      BY <1>1, <2>8, FS_AddElement DEF JobsOK
    <3>2. \A i \in DOMAIN jobs' : JobOK(i, jobs'[i])
      BY <1>1, <2>7, <2>8 DEF JobsOK
    <3> QED
      BY <3>1, <3>2 DEF JobsOK, JobOK
  <2>10. JobsCurrent'
    <3>1. Current(ctx)
      BY <1>6, <1>11 DEF Current
    <3>2. \A i \in DOMAIN jobs' : ~jobs'[i].aborted => Current(jobs'[i].ctx) /\ i.gen = generation
      <4>1. CASE k \in DOMAIN jobs
        <5>1. old = jobs[k]
          BY <2>1, <4>1 DEF old
        <5> QED
          BY <1>1, <2>7, <2>8, <4>1, <5>1 DEF JobsCurrent, JobCurrent
      <4>2. CASE k \notin DOMAIN jobs
        BY <1>1, <2>4, <2>6, <2>7, <2>8, <3>1, <4>2 DEF JobsCurrent, JobCurrent
      <4> QED
        BY <4>1, <4>2
    <3> QED
      BY <1>2, <2>2, <3>2 DEF JobsCurrent, JobCurrent, Current, GateEnabled, Unchanged
  <2>11. HeldAccounting'
    <3>1. /\ bytes \in Nat /\ MaxWaiters \in Nat /\ MaxHeldBytes \in Nat /\ MaxJobs \in Nat
          /\ waiters \in Nat /\ heldBytes \in Nat /\ Cardinality(DOMAIN jobs) \in Nat
      BY <1>1, GateAssumption, TurnStateAssumption, FS_CardinalityType DEF ServerTypes, JobsOK
    <3>2. /\ waiters < MaxWaiters /\ heldBytes + bytes <= MaxHeldBytes
          /\ k \in DOMAIN jobs \/ Cardinality(DOMAIN jobs) < MaxJobs
      BY <2>3, <3>1
    <3>3. job.waiters = (IF k \in DOMAIN jobs THEN jobs[k].waiters ELSE 0) + 1
      BY <2>6, <2>7
    <3> QED
      BY <1>1, <1>3, <2>2, <2>5, <3>1, <3>2, <3>3, HeldEnter
  <2>12. ServerMoves
    BY <1>1, <1>2 DEF ServerMoves, ServerTypes
  <2>13. RequestsOK'
    BY <1>1, <1>3, <2>2, <2>5, <2>12, OneRequestMoves
  <2>14. SlotsOK' /\ SlotsCurrent' /\ CooldownsOK' /\ RenewalKeyEarned'
    <3>1. SlotsOK' /\ SlotsCurrent' /\ CooldownsOK'
      BY <1>1, <1>2, <2>2, SlotsGoOn
    <3> QED
      BY <1>1, <1>2, <2>2, <3>1, EarnedKept
  <2>15. ServerTypes'
    <3>1. bytes \in Nat
      BY TurnStateAssumption
    <3> QED
      BY <1>1, <1>2, <2>2, <3>1 DEF ServerTypes
  <2> QED
    BY <1>3, <2>9, <2>10, <2>11, <2>13, <2>14, <2>15 DEF TurnInv
<1> QED
  BY <1>5, <1>8, <1>9, <1>10, <1>11

(* The client of a held request hangs up. *)
LEMMA HangUpInv ==
  ASSUME TurnInv, NEW r \in Requests, HangUp(r)
  PROVE  TurnInv'
<1>1. /\ StoreInv /\ ServerTypes /\ JobsOK /\ JobsCurrent /\ SlotsOK /\ SlotsCurrent
      /\ CooldownsOK /\ RequestsOK /\ HeldAccounting /\ RenewalKeyEarned
  BY DEF TurnInv
<1> DEFINE left(k) == [jobs[k] EXCEPT !.waiters = @ - 1]
           next(k) == IF left(k).waiters = 0 /\ ~left(k).background
                      THEN [left(k) EXCEPT !.aborted = TRUE, !.reason = "client_disconnected"]
                      ELSE left(k)
<1>2. PICK k, job : k = requests[r].key /\ job = next(k)
  OBVIOUS
<1>3. /\ UNCHANGED <<now, rules, epochs, objects, pins>> /\ UNCHANGED storeVars
      /\ UNCHANGED <<mode, modeRevision, boots, proven>>
      /\ UNCHANGED <<renewals, cooldowns, generation, closed>>
      /\ requests[r].phase = "held" /\ requests' = [requests EXCEPT ![r] = Done]
      /\ waiters' = waiters - 1 /\ heldBytes' = heldBytes - requests[r].bytes
      /\ jobs' = [jobs EXCEPT ![k] = job]
  BY <1>2 DEF HangUp, Leave, Become, StoreUntouched, ServerUntouched, storeVars
<1>4. StoreInv' /\ StoreMoves
  BY <1>1, <1>3, QuietInv, MovesQuiet
<1>5. k \in DOMAIN jobs /\ JobOK(k, jobs[k])
  BY <1>1, <1>2, <1>3 DEF HeldAccounting, HeldRequests, JobsOK
<1>6. /\ job.waiters = jobs[k].waiters - 1 /\ job.ctx = jobs[k].ctx
      /\ jobs[k].aborted => job.aborted
      /\ job.waiters \in Nat => JobOK(k, job)
  <2>1. jobs[k] \in JobType
    BY <1>5 DEF JobOK
  <2>2. left(k) = [jobs[k] EXCEPT !.waiters = jobs[k].waiters - 1]
    BY <2>1 DEF JobType
  <2>3. /\ left(k).waiters = jobs[k].waiters - 1 /\ left(k).ctx = jobs[k].ctx
        /\ left(k).caller = jobs[k].caller /\ left(k).aborted = jobs[k].aborted
        /\ left(k).waiters \in Nat => left(k) \in JobType
    BY <2>1, <2>2 DEF JobType
  <2>4. DOMAIN left(k) = DOMAIN jobs[k]
    BY <2>2
  <2> HIDE DEF left
  <2>5. CASE job = left(k)
    BY <2>3, <2>5, <1>5 DEF JobOK
  <2>6. CASE job = [left(k) EXCEPT !.aborted = TRUE, !.reason = "client_disconnected"]
    <3>1. /\ job.waiters = left(k).waiters /\ job.ctx = left(k).ctx /\ job.caller = left(k).caller
          /\ job.aborted = TRUE
      BY <2>1, <2>4, <2>6 DEF JobType
    <3>2. left(k) \in JobType => job \in JobType
      BY <2>6 DEF JobType, CancelReasons
    <3> QED
      BY <2>3, <3>1, <3>2, <1>5 DEF JobOK
  <2> QED
    BY <1>2, <2>5, <2>6
<1>7. HeldAccounting' /\ waiters' \in Nat /\ heldBytes' \in Nat /\ job.waiters \in Nat
  BY <1>1, <1>2, <1>3, <1>6, HeldLeave
<1>8. /\ DOMAIN jobs' = DOMAIN jobs
      /\ \A i \in DOMAIN jobs : /\ JobOK(i, jobs'[i]) /\ jobs'[i].ctx = jobs[i].ctx
                                /\ jobs[i].aborted => jobs'[i].aborted
  <2>1. \A i \in DOMAIN jobs : JobOK(i, jobs[i]) /\ jobs'[i] = IF i = k THEN job ELSE jobs[i]
    BY <1>1, <1>3 DEF JobsOK
  <2> QED
    BY <1>3, <1>6, <1>7, <2>1
<1>9. JobsOK' /\ JobsCurrent' /\ SlotsOK' /\ SlotsCurrent' /\ CooldownsOK'
  BY <1>1, <1>3, <1>8, JobsGoOn, SlotsGoOn
<1>10. RequestsOK'
  <2>1. PICK new : new = Done
    OBVIOUS
  <2>2. RequestOK(new)' /\ requests' = [requests EXCEPT ![r] = new]
    BY <1>3, <2>1, EndedOK
  <2>3. ServerMoves
    BY <1>1, <1>3 DEF ServerMoves, ServerTypes
  <2> QED
    BY <1>1, <1>4, <2>2, <2>3, OneRequestMoves
<1>11. ServerTypes' /\ RenewalKeyEarned'
  BY <1>1, <1>3, <1>7, EarnedKept DEF ServerTypes
<1> QED
  BY <1>4, <1>7, <1>9, <1>10, <1>11 DEF TurnInv

(* Whether a request has been answered is all that changes of it, and      *)
(* whether it has rejected its pin.                                        *)
LEMMA AnsweredOK ==
  ASSUME NEW req, RequestOK(req)', req.phase \in {"open", "answering"},
         NEW status \in {"ok", "auth", "error"}, NEW raw \in Values \cup {None},
         NEW new, new = [req EXCEPT !.phase = "answering", !.status = status, !.raw = raw]
  PROVE  RequestOK(new)' /\ new.phase = "answering"
<1>1. req \in RequestType /\ Made(req.ctx, req.caller) /\ NotAhead(req.ctx)' /\ UsedOK(req)'
  BY DEF RequestOK, Made
<1>2. req \in [phase : {"open", "answering"}, ctx : Contexts, caller : Callers,
        auto : BOOLEAN, revision : Nat, used : Nat, usedState : Values \cup {None},
        status : {None, "ok", "auth", "error"}, raw : Values \cup {None}, failed : BOOLEAN]
  BY <1>1 DEF RequestType, New, Done
<1>3. /\ new.phase = "answering" /\ new.ctx = req.ctx /\ new.caller = req.caller
      /\ new.auto = req.auto /\ new.revision = req.revision /\ new.used = req.used
      /\ new.usedState = req.usedState /\ new.failed = req.failed
  BY <1>2
<1>4. new \in RequestType
  <2>1. new \in [phase : {"open", "answering"}, ctx : Contexts, caller : Callers,
        auto : BOOLEAN, revision : Nat, used : Nat, usedState : Values \cup {None},
        status : {None, "ok", "auth", "error"}, raw : Values \cup {None}, failed : BOOLEAN]
    BY <1>2
  <2> QED
    BY <2>1 DEF RequestType
<1>5. UsedOK(new)' /\ NotAhead(new.ctx)' /\ Made(new.ctx, new.caller)
  BY <1>1, <1>3 DEF UsedOK, NotAhead, Pin
<1> QED
  BY <1>3, <1>4, <1>5 DEF RequestOK, Made, NotAhead, UsedOK, Pin

(* A request whose response has rejected its value. *)
LEMMA RejectedOK ==
  ASSUME NEW req, RequestOK(req)', req.phase = "answering",
         req.auto /\ req.revision = modeRevision' /\ req.used # 0
           /\ req.ctx.epoch = epochs'[req.ctx.model] /\ pins'[req.ctx.id] = req.used
         => objects'[req.ctx.id][pins'[req.ctx.id]].pending,
         NEW new, new = [req EXCEPT !.failed = TRUE]
  PROVE  RequestOK(new)' /\ new.phase = "answering"
<1>1. req \in RequestType /\ Made(req.ctx, req.caller) /\ NotAhead(req.ctx)' /\ UsedOK(req)'
  BY DEF RequestOK, Made
<1>2. req \in [phase : {"open", "answering"}, ctx : Contexts, caller : Callers,
        auto : BOOLEAN, revision : Nat, used : Nat, usedState : Values \cup {None},
        status : {None, "ok", "auth", "error"}, raw : Values \cup {None}, failed : BOOLEAN]
  BY <1>1 DEF RequestType, New, Done
<1>3. /\ new.phase = "answering" /\ new.ctx = req.ctx /\ new.caller = req.caller
      /\ new.auto = req.auto /\ new.revision = req.revision /\ new.used = req.used
      /\ new.usedState = req.usedState
  BY <1>2
<1>4. new \in RequestType
  <2>1. new \in [phase : {"open", "answering"}, ctx : Contexts, caller : Callers,
        auto : BOOLEAN, revision : Nat, used : Nat, usedState : Values \cup {None},
        status : {None, "ok", "auth", "error"}, raw : Values \cup {None}, failed : BOOLEAN]
    BY <1>2
  <2> QED
    BY <2>1 DEF RequestType
<1>5. UsedOK(new)' /\ NotAhead(new.ctx)' /\ Made(new.ctx, new.caller)
  BY <1>1, <1>3 DEF UsedOK, NotAhead, Pin
<1> QED
  BY <1>3, <1>4, <1>5 DEF RequestOK, Made, NotAhead, UsedOK, Pin

(* What a rejection does to the store. *)
LEMMA StoreAnswers ==
  ASSUME StoreInv, NEW ctx, NEW caller, Made(ctx, caller), UNCHANGED <<now, rules, epochs, saved>>,
         \/ Untouched
         \/ \E used, usedState, reason : InvalidateUsedPin(ctx, used, usedState, reason)
         \/ \E used : \E v \in Values : CaptureAutomatic(ctx, v, used)
  PROVE  StoreInv' /\ StoreMoves
<1>1. Attached(ctx)
  BY MadeAttached
<1>2. CASE Untouched
  <2>1. UNCHANGED storeVars /\ UNCHANGED <<objects, pins>>
    BY <1>2 DEF Untouched, storeVars
  <2> QED
    BY <2>1, QuietInv, MovesQuiet
<1>3. ASSUME NEW used, NEW usedState, NEW reason, InvalidateUsedPin(ctx, used, usedState, reason)
      PROVE  StoreInv' /\ StoreMoves
  BY <1>1, <1>3, InvalidateInv, MovesInvalidate
<1>4. ASSUME NEW used, NEW v \in Values, CaptureAutomatic(ctx, v, used)
      PROVE  StoreInv' /\ StoreMoves
  <2>1. StoreInv'
    BY <1>1, <1>4, CaptureInv
  <2> QED
    BY <2>1, <1>1, <1>4, MovesCapture
<1> QED
  BY <1>2, <1>3, <1>4

(* Headers, chunks, the end and a break of a response. *)
LEMMA HeadersInv ==
  ASSUME TurnInv, NEW r \in Requests, Headers(r)
  PROVE  TurnInv'
<1>1. StoreInv /\ ServerTypes /\ RequestsOK
  BY DEF TurnInv
<1>2. PICK req : req = requests[r]
  OBVIOUS
<1>3. PICK status \in {"ok", "auth", "error"}, raw \in Values \cup {None} :
        /\ IF status = "auth" THEN Reject(r, "http_401") ELSE Untouched
        /\ requests' = [requests EXCEPT ![r] =
             [@ EXCEPT !.phase = "answering", !.status = status, !.raw = raw]]
  BY DEF Headers
<1>4. PICK new : new = [req EXCEPT !.phase = "answering", !.status = status, !.raw = raw]
  OBVIOUS
<1>5. /\ UNCHANGED <<now, rules, epochs, saved, mode, modeRevision, boots, proven, gateVars>>
      /\ req.phase = "open" /\ requests[r].phase # "held"
      /\ requests' = [requests EXCEPT ![r] = new]
  BY <1>2, <1>3, <1>4 DEF Headers, RequestStep
<1>6. RequestOK(req) /\ Made(req.ctx, req.caller)
  BY <1>1, <1>2, <1>5 DEF RequestsOK, RequestOK
<1>7. StoreInv' /\ StoreMoves
  <2>1. \/ Untouched
        \/ \E used, usedState, reason : InvalidateUsedPin(req.ctx, used, usedState, reason)
    BY <1>2, <1>3 DEF Reject
  <2> QED
    BY <2>1, <1>1, <1>5, <1>6, StoreAnswers
<1>8. RequestOK(req)'
  BY <1>1, <1>5, <1>6, <1>7, RequestStays DEF ServerMoves, ServerTypes
<1>9. RequestOK(new)' /\ new.phase = "answering"
  BY <1>4, <1>5, <1>8, AnsweredOK
<1> QED
  BY <1>5, <1>7, <1>9, FarFromGate

(* A piece of a response. *)
LEMMA ChunkInv ==
  ASSUME TurnInv, NEW r \in Requests, Chunk(r)
  PROVE  TurnInv'
<1>1. StoreInv /\ ServerTypes /\ RequestsOK
  BY DEF TurnInv
<1>2. PICK req, new : req = requests[r] /\ new = [req EXCEPT !.failed = TRUE]
  OBVIOUS
<1>3. /\ UNCHANGED <<now, rules, epochs, saved, mode, modeRevision, boots, proven, gateVars>>
      /\ req.phase = "answering" /\ requests[r].phase # "held"
      /\ Reject(r, "explicit_turn_state_error")
      /\ requests' = [requests EXCEPT ![r] = new]
  <2>1. requests = [i \in Requests |-> requests[i]]
    BY <1>1 DEF RequestsOK
  <2> QED
    BY <1>2, <2>1 DEF Chunk, RequestStep
<1>4. RequestOK(req) /\ Made(req.ctx, req.caller) /\ NotAhead(req.ctx) /\ UsedOK(req)
  BY <1>1, <1>2, <1>3 DEF RequestsOK, RequestOK
<1>5. StoreInv' /\ StoreMoves
  <2>1. \/ Untouched
        \/ \E used, usedState, reason : InvalidateUsedPin(req.ctx, used, usedState, reason)
    BY <1>2, <1>3 DEF Reject
  <2> QED
    BY <2>1, <1>1, <1>3, <1>4, StoreAnswers
<1>6. RequestOK(req)'
  BY <1>1, <1>3, <1>4, <1>5, RequestStays DEF ServerMoves, ServerTypes
<1>7. ASSUME req.auto, req.revision = modeRevision, req.used # 0,
             req.ctx.epoch = epochs[req.ctx.model], pins'[req.ctx.id] = req.used
      PROVE  objects'[req.ctx.id][pins'[req.ctx.id]].pending
  <2>1. Processing(r)
    BY <1>2, <1>4, <1>7 DEF Processing, UsedOK, Unchanged, NotAhead
  <2>2. InvalidateUsedPin(req.ctx, req.used, req.usedState, "explicit_turn_state_error")
    BY <2>1, <1>2, <1>3, <1>7 DEF Reject
  <2>3. UNCHANGED pins /\ req.ctx.id \in Ids /\ pins[req.ctx.id] = req.used /\ Bound(req.ctx.id)
    BY <2>2, <1>4, <1>7, IdFields DEF InvalidateUsedPin, Untouched, UsedOK, Bound
  <2>4. CASE MayInvalidate(req.ctx, req.used, req.usedState, "explicit_turn_state_error")
    <3>1. PinsOK
      BY <1>1, StoreTypeIsPinsOK DEF StoreInv
    <3>2. pins[req.ctx.id] \in 1 .. Len(objects[req.ctx.id]) /\ Pin(req.ctx.id) \in PinType
      BY <3>1, <2>3, <1>7, StoredPin
    <3>3. objects[req.ctx.id] \in Seq(PinType)
      BY <3>1, <2>3 DEF PinsOK
    <3>4. Revoke({req.ctx.id})
      BY <2>2, <2>4 DEF InvalidateUsedPin
    <3>5. objects'[req.ctx.id] = [objects[req.ctx.id] EXCEPT ![pins[req.ctx.id]] =
            [Pin(req.ctx.id) EXCEPT !.pending = TRUE, !.expiresAt = 0]]
      BY <3>4, <2>3 DEF Revoke, Pin
    <3>6. [Pin(req.ctx.id) EXCEPT !.pending = TRUE, !.expiresAt = 0] \in PinType
      BY <3>2 DEF PinType
    <3>7. objects'[req.ctx.id][pins[req.ctx.id]] = [Pin(req.ctx.id) EXCEPT !.pending = TRUE, !.expiresAt = 0]
      BY <3>2, <3>3, <3>5, <3>6
    <3> QED
      BY <3>7, <3>2, <2>3 DEF PinType
  <2>5. CASE ~MayInvalidate(req.ctx, req.used, req.usedState, "explicit_turn_state_error")
    <3>1. UNCHANGED objects
      BY <2>2, <2>5 DEF InvalidateUsedPin, Untouched
    <3>2. Pin(req.ctx.id).state = req.usedState /\ Unchanged(req.ctx)
      BY <1>4, <1>7, <2>3 DEF UsedOK, NotAhead, Unchanged
    <3>3. Pin(req.ctx.id).pending
      BY <2>3, <2>5, <3>2 DEF MayInvalidate, AuthReasons
    <3> QED
      BY <3>1, <3>3, <2>3 DEF Pin
  <2> QED
    BY <2>4, <2>5
<1>8. RequestOK(new)' /\ new.phase = "answering"
  <2>1. req.auto /\ req.revision = modeRevision' /\ req.used # 0
           /\ req.ctx.epoch = epochs'[req.ctx.model] /\ pins'[req.ctx.id] = req.used
         => objects'[req.ctx.id][pins'[req.ctx.id]].pending
    BY <1>3, <1>7
  <2> QED
    BY <1>2, <1>3, <1>6, <2>1, RejectedOK
<1> QED
  BY <1>3, <1>5, <1>8, FarFromGate

(* The end of a response. *)
LEMMA EndInv ==
  ASSUME TurnInv, NEW r \in Requests, End(r)
  PROVE  TurnInv'
<1>1. StoreInv /\ ServerTypes /\ RequestsOK /\ SlotsOK /\ SlotsCurrent /\ CooldownsOK /\ RenewalKeyEarned
  BY DEF TurnInv
<1>2. PICK req, new : req = requests[r] /\ new = Done
  OBVIOUS
<1>3. PICK accepted \in BOOLEAN :
        /\ req.phase = "answering" /\ requests' = [requests EXCEPT ![r] = new]
        /\ UNCHANGED <<now, rules, epochs, saved, mode, modeRevision, boots,
                       jobs, cooldowns, generation, waiters, heldBytes, closed>>
        /\ IF accepted /\ req.raw # None
           THEN CaptureAutomatic(req.ctx, req.raw, req.used) ELSE Untouched
        /\ IF accepted /\ req.ctx.scope = "model"
           THEN Remember(req.ctx, req.caller, TRUE) ELSE UNCHANGED renewals
        /\ proven' = IF accepted THEN proven \cup {Confirmed(req.ctx, "upstream")} ELSE proven
  BY <1>2 DEF End, Become
<1>4. RequestOK(req) /\ Made(req.ctx, req.caller) /\ requests[r].phase # "held"
  BY <1>1, <1>2, <1>3 DEF RequestsOK, RequestOK
<1>5. req.raw \in Values \cup {None}
  BY <1>3, <1>4 DEF RequestOK, RequestType, New, Done
<1>6. StoreInv' /\ StoreMoves
  <2>1. Untouched \/ \E used : \E v \in Values : CaptureAutomatic(req.ctx, v, used)
    BY <1>3, <1>5
  <2>2. UNCHANGED <<now, rules, epochs, saved>>
    BY <1>3
  <2> QED
    BY <2>1, <2>2, <1>1, <1>4, StoreAnswers
<1>7. SlotsOK' /\ SlotsCurrent' /\ RenewalKeyEarned'
  <2>1. CASE accepted /\ req.ctx.scope = "model"
    <3>1. PICK ctx, caller : ctx = req.ctx /\ caller = req.caller
      OBVIOUS
    <3>2. Remember(ctx, caller, TRUE) /\ proven' = proven \cup {Confirmed(ctx, "upstream")}
      BY <1>3, <2>1, <3>1
    <3>3. PICK confirmed \in BOOLEAN : confirmed = TRUE
      OBVIOUS
    <3>4. Remember(ctx, caller, confirmed) /\ Made(ctx, caller)
      BY <1>4, <3>1, <3>2, <3>3
    <3>5. UNCHANGED <<rules, epochs, mode, closed>>
      BY <1>3
    <3>6. /\ SlotsOK' /\ SlotsCurrent'
          /\ \A id \in DOMAIN renewals' :
              \/ id \in DOMAIN renewals /\ renewals'[id] = renewals[id]
              \/ id = ctx.id /\ renewals'[id].ctx = ctx
      BY <1>1, <3>4, <3>5, RememberKeeps
    <3>7. RenewalKeyEarned'
      <4>1. \A id \in DOMAIN renewals' :
              \/ id \in DOMAIN renewals /\ renewals'[id].ctx = renewals[id].ctx
              \/ Confirmed(renewals'[id].ctx, "upstream") \in proven'
        BY <3>2, <3>6
      <4> QED
        BY <1>1, <3>2, <4>1, EarnedKept DEF Evidence
    <3> QED
      BY <3>6, <3>7
  <2>2. CASE ~(accepted /\ req.ctx.scope = "model")
    <3>1. UNCHANGED <<rules, epochs, mode, closed, renewals, cooldowns>> /\ proven \subseteq proven'
      BY <1>3, <2>2
    <3> QED
      BY <1>1, <3>1, SlotsGoOn, EarnedKept
  <2> QED
    BY <2>1, <2>2
<1>8. RequestOK(new)' /\ new.phase # "held"
  BY <1>2, EndedOK
<1> QED
  BY <1>3, <1>4, <1>6, <1>7, <1>8, OutsideGate

(* A broken connection. *)
LEMMA AbortInv ==
  ASSUME TurnInv, NEW r \in Requests, Abort(r)
  PROVE  TurnInv'
<1>1. PICK new : new = Done
  OBVIOUS
<1>2. /\ UNCHANGED storeVars /\ UNCHANGED <<rules, epochs, objects, pins>>
      /\ UNCHANGED <<gateVars, mode, modeRevision, boots, proven>>
      /\ requests' = [requests EXCEPT ![r] = new] /\ requests[r].phase # "held"
  BY <1>1 DEF Abort, Become, StoreUntouched, ServerUntouched, storeVars
<1>3. StoreInv' /\ StoreMoves
  BY <1>2, QuietInv, MovesQuiet DEF TurnInv
<1>4. RequestOK(new)' /\ new.phase # "held"
  BY <1>1, EndedOK
<1> QED
  BY <1>2, <1>3, <1>4, FarFromGate

-----------------------------------------------------------------------------
(* The administrator, the scheduler, the clock, and restarts *)

(* The empty function, as far as it goes. *)
LEMMA NothingIn == DOMAIN <<>> = {} /\ IsFiniteSet({}) /\ Cardinality({}) = 0
<1>1. DOMAIN <<>> = {}
  OBVIOUS
<1> QED
  BY <1>1, FS_EmptySet

(* A cancellation leaves no job that is not aborted, and no credentials. *)
LEMMA CancelKeeps ==
  ASSUME ServerTypes, JobsOK, CooldownsOK, HeldAccounting, NEW reason \in CancelReasons, Cancel(reason)
  PROVE  /\ JobsOK' /\ JobsCurrent' /\ SlotsOK' /\ SlotsCurrent' /\ CooldownsOK' /\ RenewalKeyEarned'
         /\ generation' \in Nat /\ UNCHANGED <<waiters, heldBytes>>
         /\ DOMAIN jobs' = DOMAIN jobs /\ Cardinality(DOMAIN jobs') <= MaxJobs
         /\ \A k \in DOMAIN jobs' :
              jobs'[k].waiters = IF k \in DOMAIN jobs THEN jobs[k].waiters ELSE 0
<1>1. /\ generation' = generation + 1 /\ renewals' = <<>> /\ UNCHANGED <<waiters, heldBytes>>
      /\ DOMAIN jobs' = DOMAIN jobs /\ \A k \in DOMAIN jobs : jobs'[k] = Aborted(jobs[k], reason)
      /\ cooldowns' = <<>> \/ UNCHANGED cooldowns
  BY DEF Cancel
<1>2. \A k \in DOMAIN jobs : /\ JobOK(k, jobs'[k]) /\ jobs'[k].aborted = TRUE
                             /\ jobs'[k].waiters = jobs[k].waiters
  BY <1>1, AbortedOK DEF JobsOK
<1>3. JobsOK' /\ JobsCurrent'
  BY <1>1, <1>2 DEF JobsOK, JobsCurrent, JobOK
<1>4. SlotsOK' /\ SlotsCurrent' /\ RenewalKeyEarned'
  BY <1>1, NothingIn DEF SlotsOK, SlotsCurrent, RenewalKeyEarned
<1>5. CooldownsOK'
  BY <1>1, NothingIn DEF CooldownsOK
<1> QED
  BY <1>1, <1>2, <1>3, <1>4, <1>5 DEF ServerTypes, HeldAccounting

(* Requests that stay put or, held, are promised their release. *)
LEMMA CancelHeld ==
  ASSUME TurnInv, StoreInv', StoreMoves, ServerMoves, NEW reason \in CancelReasons, Cancel(reason),
         closed' \in BOOLEAN, mode' \in {"auto", "off"}, boots' = boots,
         requests' = [r \in Requests |-> requests'[r]],
         \A r \in Requests : \/ requests'[r] = requests[r]
                             \/ /\ requests[r].phase = "held"
                                /\ requests'[r] = [requests[r] EXCEPT !.promised = TRUE]
  PROVE  TurnInv'
<1>1. StoreInv /\ ServerTypes /\ JobsOK /\ CooldownsOK /\ RequestsOK /\ HeldAccounting
  BY DEF TurnInv
<1>2. /\ JobsOK' /\ JobsCurrent' /\ SlotsOK' /\ SlotsCurrent' /\ CooldownsOK' /\ RenewalKeyEarned'
      /\ generation' \in Nat /\ UNCHANGED <<waiters, heldBytes>>
      /\ DOMAIN jobs' = DOMAIN jobs /\ Cardinality(DOMAIN jobs') <= MaxJobs
      /\ \A k \in DOMAIN jobs' :
           jobs'[k].waiters = IF k \in DOMAIN jobs THEN jobs[k].waiters ELSE 0
  BY <1>1, CancelKeeps
<1>3. ASSUME NEW r \in Requests
      PROVE  /\ \E req : req = requests'[r] /\ RequestOK(req)'
             /\ requests'[r].phase = "held" <=> requests[r].phase = "held"
             /\ requests[r].phase = "held" => /\ requests'[r].key = requests[r].key
                                              /\ requests'[r].bytes = requests[r].bytes
  <2>1. PICK q, req : q = requests[r] /\ req = requests'[r]
    OBVIOUS
  <2>2. RequestOK(q) /\ RequestOK(q)'
    BY <2>1, <1>1, RequestStays DEF RequestsOK
  <2>3. CASE req = q
    BY <2>1, <2>2, <2>3
  <2>4. CASE q.phase = "held" /\ req = [q EXCEPT !.promised = TRUE]
    <3>1. q \in [phase : {"held"}, ctx : Contexts, caller : Callers, bytes : Sizes,
                 key : KeyType, promised : BOOLEAN]
      BY <2>2, <2>4 DEF RequestOK, RequestType, New, Done
    <3>2. /\ req \in [phase : {"held"}, ctx : Contexts, caller : Callers, bytes : Sizes,
                      key : KeyType, promised : BOOLEAN]
          /\ req.phase = "held" /\ req.key = q.key /\ req.bytes = q.bytes
          /\ req.ctx = q.ctx /\ req.caller = q.caller
      BY <2>4, <3>1
    <3>3. RequestOK(req)'
      BY <2>2, <2>4, <3>2 DEF RequestOK, RequestType, NotAhead
    <3> QED
      BY <2>1, <2>4, <3>2, <3>3
  <2> QED
    BY <2>1, <2>3, <2>4
<1>4. RequestsOK'
  BY <1>3, RequestsAfter
<1>5. HeldAccounting'
  <2>1. DOMAIN jobs \subseteq DOMAIN jobs'
    BY <1>2
  <2> QED
    BY <1>1, <1>2, <1>3, <2>1, HeldKept
<1>6. ServerTypes'
  BY <1>1, <1>2 DEF ServerTypes, ServerMoves
<1> QED
  BY <1>2, <1>4, <1>5, <1>6 DEF TurnInv

(* The switch is turned. *)
LEMMA SwitchInv ==
  ASSUME TurnInv, NEW v \in {"auto", "off"}, Switch(v)
  PROVE  TurnInv'
<1>1. /\ UNCHANGED storeVars /\ UNCHANGED <<rules, epochs, objects, pins>>
      /\ UNCHANGED <<closed, boots>> /\ mode' = v /\ modeRevision' = modeRevision + 1
      /\ requests' = [r \in Requests |->
           IF requests[r].phase = "held" /\ v = "off" THEN [requests[r] EXCEPT !.promised = TRUE]
           ELSE requests[r]]
  BY DEF Switch, StoreUntouched, storeVars
<1>2. StoreInv' /\ StoreMoves
  BY <1>1, QuietInv, MovesQuiet DEF TurnInv
<1>3. ServerMoves /\ closed' \in BOOLEAN
  BY <1>1 DEF TurnInv, ServerTypes, ServerMoves
<1>4. PICK reason \in CancelReasons : Cancel(reason)
  <2>1. PICK reason : reason = IF v = "off" THEN "disabled" ELSE "configuration_changed"
    OBVIOUS
  <2>2. reason \in CancelReasons
    BY <2>1 DEF CancelReasons, ReleaseReasons
  <2>3. Cancel(reason)
    BY <2>1 DEF Switch
  <2> QED
    BY <2>2, <2>3
<1> QED
  BY <1>1, <1>2, <1>3, <1>4, CancelHeld

(* Values are reset or typed in. *)
LEMMA ResetPinsInv ==
  ASSUME TurnInv, ResetPins
  PROVE  TurnInv'
<1>1. StoreInv' /\ StoreMoves
  <2>1. StoreInv
    BY DEF TurnInv
  <2>2. ASSUME NEW m \in Models, RefreshModel(m)
        PROVE  StoreInv' /\ StoreMoves
    <3>1. PICK ids : ids = {id \in BoundIds : id.model = m}
      OBVIOUS
    <3>2. ids \in SUBSET BoundIds /\ Refresh(m, ids)
      BY <2>2, <3>1 DEF RefreshModel
    <3> QED
      BY <2>1, <3>2, RefreshInv, MovesRefresh
  <2>3. ASSUME NEW id \in Ids, RefreshBinding(id)
        PROVE  StoreInv' /\ StoreMoves
    <3>1. PICK ids, m : ids = {id} /\ m = id.model
      OBVIOUS
    <3>2. ids \in SUBSET BoundIds /\ Refresh(m, ids)
      BY <2>3, <3>1 DEF RefreshBinding, Bound, BoundIds
    <3> QED
      BY <2>1, <3>2, RefreshInv, MovesRefresh
  <2>4. ASSUME NEW id \in Ids, NEW v \in Values, Manual(id, v)
        PROVE  StoreInv' /\ StoreMoves
    BY <2>1, <2>4, ManualInv, MovesManual
  <2> QED
    BY <2>2, <2>3, <2>4 DEF ResetPins
<1>2. /\ UNCHANGED <<closed, mode, modeRevision, requests, boots>>
      /\ Cancel("configuration_changed") /\ "configuration_changed" \in CancelReasons
  BY DEF ResetPins, CancelReasons
<1>3. ServerMoves /\ closed' \in BOOLEAN /\ mode' \in {"auto", "off"}
  BY <1>2 DEF TurnInv, ServerTypes, ServerMoves
<1>4. requests' = [r \in Requests |-> requests'[r]] /\ \A r \in Requests : requests'[r] = requests[r]
  BY <1>2 DEF TurnInv, RequestsOK
<1> QED
  BY <1>1, <1>2, <1>3, <1>4, CancelHeld

(* The service is asked to stop. *)
LEMMA CloseInv ==
  ASSUME TurnInv, Close
  PROVE  TurnInv'
<1>1. /\ UNCHANGED storeVars /\ UNCHANGED <<rules, epochs, objects, pins>>
      /\ UNCHANGED <<mode, modeRevision, requests, boots>> /\ closed' = TRUE
      /\ Cancel("service_stopped") /\ "service_stopped" \in CancelReasons
  BY DEF Close, StoreUntouched, storeVars, CancelReasons
<1>2. StoreInv' /\ StoreMoves
  BY <1>1, QuietInv, MovesQuiet DEF TurnInv
<1>3. ServerMoves /\ closed' \in BOOLEAN /\ mode' \in {"auto", "off"}
  BY <1>1 DEF TurnInv, ServerTypes, ServerMoves
<1>4. requests' = [r \in Requests |-> requests'[r]] /\ \A r \in Requests : requests'[r] = requests[r]
  BY <1>1 DEF TurnInv, RequestsOK
<1> QED
  BY <1>1, <1>2, <1>3, <1>4, CancelHeld

(* A binding as the new rule of its caller's model gives it.               *)
LEMMA NewContextMade ==
  ASSUME StoreTypeOK, NEW new \in [Models -> Rules \cup {None}], NEW slot,
         slot.ctx \in Contexts, Made(slot.ctx, slot.caller)
  PROVE  /\ Made(NewContext(new, slot), slot.caller)
         /\ \A by : Confirmed(NewContext(new, slot), by) = Confirmed(slot.ctx, by)
<1>1. PICK m \in Models : m = slot.ctx.model
  BY DEF Contexts
<1>2. /\ slot.caller \in Callers /\ slot.ctx.client = slot.caller.cred
      /\ slot.ctx.client \in {c.cred : c \in Callers}
  BY DEF Made
<1>3. /\ epochs[m] + 1 \in Nat /\ new[m] \in Rules \cup {None}
      /\ ScopeOf(new[m]) \in Scopes
  BY ScopeOfRule DEF StoreTypeOK
<1>4. BindingId(m, slot.caller, ScopeOf(new[m])) \in Ids \cup {None}
  BY <1>2, <1>3 DEF Ids
<1>5. NewContext(new, slot) =
        [id |-> BindingId(m, slot.caller, ScopeOf(new[m])), model |-> m,
         client |-> slot.ctx.client, scope |-> ScopeOf(new[m]),
         epoch |-> epochs[m] + 1, rule |-> new[m]]
  BY <1>1 DEF NewContext
<1>6. NewContext(new, slot) \in Contexts
  BY <1>2, <1>3, <1>4, <1>5 DEF Contexts
<1> QED
  BY <1>1, <1>2, <1>5, <1>6 DEF Made, Confirmed

(* cancelModels: credentials of a model whose rule changed follow their    *)
(* owner to the binding he has now, or go; the others stay.                *)
LEMMA SlotsFollow ==
  ASSUME StoreInv, SlotsOK, SlotsCurrent, RenewalKeyEarned,
         NEW new \in [Models -> Rules \cup {None}], Configure(new), CancelModels(new),
         UNCHANGED <<mode, closed, proven>>
  PROVE  SlotsOK' /\ SlotsCurrent' /\ RenewalKeyEarned'
<1>1. PICK changed \in {Changed(new)}, slots \in {renewals},
           moved \in {[i \in DOMAIN renewals |-> NewContext(new, renewals[i])]} :
        \E first \in SUBSET {i \in DOMAIN slots : Follows(i, changed, new, moved[i])'} :
          renewals' = SlotsAfter(slots, {i \in DOMAIN slots : i.model \notin changed}, first, moved)
  BY DEF CancelModels
<1>2. PICK kept, first :
        /\ slots = renewals /\ moved = [i \in DOMAIN renewals |-> NewContext(new, renewals[i])]
        /\ kept = {i \in DOMAIN renewals : i.model \notin Changed(new)}
        /\ first \subseteq DOMAIN slots
        /\ \A i \in first : Current(moved[i])' /\ Live(moved[i])'
        /\ renewals' = SlotsAfter(slots, kept, first, moved)
  <2>1. PICK first \in SUBSET {i \in DOMAIN slots : Follows(i, changed, new, moved[i])'} :
          renewals' = SlotsAfter(slots, {i \in DOMAIN slots : i.model \notin changed}, first, moved)
    BY <1>1
  <2>2. \A i \in first : Current(moved[i])' /\ Live(moved[i])'
    BY <2>1 DEF Follows
  <2> QED
    BY <2>1, <2>2
<1>3. /\ IsFiniteSet(DOMAIN slots) /\ \A i \in DOMAIN slots : SlotOK(i, slots[i]) /\ Current(slots[i].ctx)
      /\ StoreTypeOK
  BY <1>2 DEF SlotsOK, SlotsCurrent, StoreInv
<1>4. ASSUME NEW i \in first, NEW slot, slot = [slots[i] EXCEPT !.ctx = moved[i]]
      PROVE  /\ SlotOK(moved[i].id, slot) /\ slot.ctx = moved[i]
             /\ \A by : Confirmed(slot.ctx, by) = Confirmed(slots[i].ctx, by)
  <2>1. SlotOK(i, slots[i]) /\ moved[i] = NewContext(new, slots[i])
    BY <1>2, <1>3
  <2>2. /\ Made(moved[i], slots[i].caller)
        /\ \A by : Confirmed(moved[i], by) = Confirmed(slots[i].ctx, by)
    BY <2>1, <1>3, NewContextMade DEF SlotOK, SlotType
  <2>3. moved[i].id \in Ids
    <3>1. PICK ctx : ctx = moved[i]
      OBVIOUS
    <3>2. Live(ctx)' /\ Made(ctx, slots[i].caller)
      BY <1>2, <2>2, <3>1
    <3> QED
      BY <3>1, <3>2, LiveBoundNext
  <2> QED
    BY <1>4, <2>1, <2>2, <2>3 DEF SlotOK, SlotType, Made
<1>5. ASSUME NEW id \in DOMAIN renewals'
      PROVE  \/ id \in kept /\ renewals'[id] = slots[id]
             \/ \E i \in first : /\ id = moved[i].id
                                 /\ renewals'[id] = [slots[i] EXCEPT !.ctx = moved[i]]
  <2>1. CASE id \in kept
    BY <1>2, <2>1 DEF SlotsAfter
  <2>2. CASE id \notin kept
    <3>1. \E i \in first : moved[i].id = id
      BY <1>2, <2>2 DEF SlotsAfter
    <3>2. PICK j : j = MovedFrom(id, first, moved)
      OBVIOUS
    <3>3. j \in first /\ moved[j].id = id
      BY <3>1, <3>2 DEF MovedFrom
    <3>4. renewals'[id] = [slots[j] EXCEPT !.ctx = moved[j]]
      BY <1>2, <2>2, <3>2 DEF SlotsAfter
    <3> QED
      BY <3>3, <3>4
  <2> QED
    BY <2>1, <2>2
<1>6. IsFiniteSet(DOMAIN renewals')
  <2>1. kept \subseteq DOMAIN slots /\ first \subseteq DOMAIN slots
    BY <1>2
  <2>2. IsFiniteSet(kept) /\ IsFiniteSet(first)
    BY <1>3, <2>1, FS_Subset
  <2>3. IsFiniteSet({moved[i].id : i \in first})
    <3> DEFINE T == {moved[i].id : i \in first}
               f == [i \in first |-> moved[i].id]
    <3>1. f \in Surjection(first, T)
      BY DEF Surjection
    <3> QED
      BY <2>2, <3>1, FS_Surjection
  <2>4. DOMAIN renewals' = kept \cup {moved[i].id : i \in first}
    BY <1>2 DEF SlotsAfter
  <2>5. IsFiniteSet(kept \cup {moved[i].id : i \in first})
    BY <2>2, <2>3, FS_Union
  <2> QED
    BY <2>4, <2>5
<1>7. ASSUME NEW id \in DOMAIN renewals'
      PROVE  /\ SlotOK(id, renewals'[id]) /\ \E ctx : ctx = renewals'[id].ctx /\ Current(ctx)'
             /\ \E by \in Evidence : Confirmed(renewals'[id].ctx, by) \in proven'
  <2>1. CASE id \in kept /\ renewals'[id] = slots[id]
    <3>1. PICK ctx : ctx = slots[id].ctx
      OBVIOUS
    <3>2. id \in DOMAIN slots /\ SlotOK(id, slots[id]) /\ Current(ctx) /\ id.model \notin Changed(new)
      BY <1>2, <1>3, <2>1, <3>1
    <3>3. ctx.model = id.model /\ ctx.model \in Models
      <4>1. Made(ctx, slots[id].caller) /\ ctx.id = id /\ id # None
        BY <3>1, <3>2, IdFields DEF SlotOK
      <4> QED
        BY <4>1, MadeAttached DEF Attached, Contexts
    <3>4. Current(ctx)'
      <4>1. /\ rules'[ctx.model] = rules[ctx.model] /\ epochs'[ctx.model] = epochs[ctx.model]
            /\ mode' = mode /\ closed' = closed
        BY <3>2, <3>3, <1>2 DEF Configure, NextEpoch, Changed
      <4> QED
        BY <3>2, <4>1 DEF Current, GateEnabled, Unchanged
    <3>5. \E by \in Evidence : Confirmed(slots[id].ctx, by) \in proven
      BY <1>2, <3>2 DEF RenewalKeyEarned
    <3> QED
      BY <2>1, <3>1, <3>2, <3>4, <3>5
  <2>2. ASSUME NEW i \in first, id = moved[i].id, renewals'[id] = [slots[i] EXCEPT !.ctx = moved[i]]
        PROVE  /\ SlotOK(id, renewals'[id]) /\ \E ctx : ctx = renewals'[id].ctx /\ Current(ctx)'
               /\ \E by \in Evidence : Confirmed(renewals'[id].ctx, by) \in proven'
    <3>1. PICK slot, ctx : slot = [slots[i] EXCEPT !.ctx = moved[i]] /\ ctx = moved[i]
      OBVIOUS
    <3>2. /\ SlotOK(id, slot) /\ slot.ctx = ctx
          /\ \A by : Confirmed(slot.ctx, by) = Confirmed(slots[i].ctx, by)
      BY <1>4, <2>2, <3>1
    <3>3. Current(ctx)'
      BY <1>2, <3>1
    <3>4. \E by \in Evidence : Confirmed(slots[i].ctx, by) \in proven
      BY <1>2 DEF RenewalKeyEarned
    <3>5. renewals'[id] = slot
      BY <2>2, <3>1
    <3> QED
      BY <3>2, <3>3, <3>4, <3>5
  <2> QED
    BY <1>5, <2>1, <2>2
<1> QED
  BY <1>6, <1>7 DEF SlotsOK, SlotsCurrent, RenewalKeyEarned, SlotOK

(* Rules are saved. *)
LEMMA SaveRulesInv ==
  ASSUME TurnInv, NEW new \in [Models -> Rules \cup {None}], SaveRules(new)
  PROVE  TurnInv'
<1>1. /\ StoreInv /\ ServerTypes /\ JobsOK /\ JobsCurrent /\ SlotsOK /\ SlotsCurrent
      /\ CooldownsOK /\ RequestsOK /\ HeldAccounting /\ RenewalKeyEarned
  BY DEF TurnInv
<1>2. /\ Configure(new) /\ CancelModels(new)
      /\ UNCHANGED <<mode, modeRevision, requests, boots, proven, closed>>
      /\ UNCHANGED <<generation, waiters, heldBytes>>
  BY DEF SaveRules, serverVars, CancelModels
<1>3. StoreInv' /\ StoreMoves
  BY <1>1, <1>2, ConfigureInv, MovesConfigure
<1>4. SlotsOK' /\ SlotsCurrent' /\ RenewalKeyEarned'
  BY <1>1, <1>2, SlotsFollow
<1>5. /\ DOMAIN jobs' = DOMAIN jobs
      /\ \A k \in DOMAIN jobs : jobs'[k] = IF k.id.model \in Changed(new)
                                            THEN Aborted(jobs[k], CancelReason(new, k.id.model))
                                            ELSE jobs[k]
      /\ \E gone : cooldowns' = Drop(cooldowns, gone)
  BY DEF SaveRules, CancelModels
<1>6. ASSUME NEW k \in DOMAIN jobs
      PROVE  /\ JobOK(k, jobs'[k]) /\ jobs'[k].waiters = jobs[k].waiters
             /\ ~jobs'[k].aborted => jobs'[k] = jobs[k] /\ k.id.model \notin Changed(new)
  <2>1. JobOK(k, jobs[k])
    BY <1>1 DEF JobsOK
  <2>2. CASE k.id.model \in Changed(new)
    <3>1. PICK reason : reason = CancelReason(new, k.id.model)
      OBVIOUS
    <3>2. reason \in CancelReasons /\ jobs'[k] = Aborted(jobs[k], reason)
      BY <1>5, <2>2, <3>1 DEF CancelReason, CancelReasons, ReleaseReasons
    <3>3. /\ JobOK(k, Aborted(jobs[k], reason)) /\ Aborted(jobs[k], reason).aborted = TRUE
          /\ Aborted(jobs[k], reason).waiters = jobs[k].waiters
      BY <2>1, <3>2, AbortedOK
    <3> QED
      BY <3>2, <3>3
  <2>3. CASE k.id.model \notin Changed(new)
    BY <1>5, <2>1, <2>3
  <2> QED
    BY <2>2, <2>3
<1>7. JobsOK'
  BY <1>1, <1>5, <1>6 DEF JobsOK, JobOK
<1>8. JobsCurrent'
  <2>1. ASSUME NEW k \in DOMAIN jobs, ~jobs'[k].aborted
        PROVE  JobCurrent(k)'
    <3>1. /\ jobs'[k] = jobs[k] /\ k.id.model \notin Changed(new)
          /\ JobOK(k, jobs[k]) /\ JobCurrent(k)
      BY <1>1, <1>6, <2>1 DEF JobsOK, JobsCurrent
    <3>2. PICK ctx : ctx = jobs[k].ctx
      OBVIOUS
    <3>3. ctx.model = k.id.model /\ ctx.model \in Models
      <4>1. Made(ctx, jobs[k].caller) /\ ctx.id = k.id /\ k.id # None
        BY <3>1, <3>2, IdFields DEF JobOK
      <4> QED
        BY <4>1, MadeAttached DEF Attached, Contexts
    <3>4. /\ rules'[ctx.model] = rules[ctx.model] /\ epochs'[ctx.model] = epochs[ctx.model]
          /\ mode' = mode /\ closed' = closed /\ generation' = generation
      BY <3>1, <3>3, <1>2 DEF Configure, NextEpoch, Changed
    <3> QED
      BY <3>1, <3>2, <3>4 DEF JobCurrent, Current, GateEnabled, Unchanged
  <2> QED
    BY <1>5, <2>1 DEF JobsCurrent
<1>9. CooldownsOK'
  BY <1>1, <1>5 DEF CooldownsOK, Drop
<1>10. RequestsOK' /\ ServerTypes'
  <2>1. ServerMoves /\ ServerTypes'
    BY <1>1, <1>2 DEF ServerMoves, ServerTypes
  <2> QED
    BY <2>1, <1>1, <1>2, <1>3, RequestsStay
<1>11. HeldAccounting'
  <2>1. /\ DOMAIN jobs \subseteq DOMAIN jobs' /\ Cardinality(DOMAIN jobs') <= MaxJobs
        /\ \A k \in DOMAIN jobs' : jobs'[k].waiters = IF k \in DOMAIN jobs THEN jobs[k].waiters ELSE 0
    BY <1>1, <1>5, <1>6 DEF HeldAccounting
  <2> QED
    BY <2>1, <1>1, <1>2, HeldKept
<1> QED
  BY <1>3, <1>4, <1>7, <1>8, <1>9, <1>10, <1>11 DEF TurnInv

(* Steps in which neither the gate nor a request takes part.               *)
LEMMA ApartInv ==
  ASSUME TurnInv, Persist \/ Tick \/ UNCHANGED vars
  PROVE  TurnInv'
<1>1. /\ StoreInv /\ ServerTypes /\ JobsOK /\ JobsCurrent /\ SlotsOK /\ SlotsCurrent
      /\ CooldownsOK /\ RequestsOK /\ HeldAccounting /\ RenewalKeyEarned
  BY DEF TurnInv
<1>2. /\ Flush \/ Advance \/ UNCHANGED storeVars
      /\ UNCHANGED <<jobs, renewals, cooldowns, generation, waiters, heldBytes, closed>>
      /\ UNCHANGED <<mode, modeRevision, requests, boots, proven>>
  BY DEF Persist, Tick, vars, gateVars, serverVars
<1>3. UNCHANGED <<rules, epochs, objects, pins>>
  BY <1>2, Zenon DEF Flush, Advance, storeVars
<1>4. StoreInv' /\ StoreMoves
  BY <1>1, <1>2, <1>3, QuietInv, MovesQuiet
<1>5. JobsOK' /\ JobsCurrent'
  <2>1. \A k \in DOMAIN jobs : JobOK(k, jobs[k])
    BY <1>1 DEF JobsOK
  <2> QED
    BY <2>1, <1>1, <1>2, <1>3, JobsGoOn
<1>6. SlotsOK' /\ SlotsCurrent' /\ CooldownsOK' /\ RenewalKeyEarned'
  BY <1>1, <1>2, <1>3, SlotsGoOn, EarnedKept
<1>7. RequestsOK' /\ ServerTypes'
  <2>1. ServerMoves /\ ServerTypes'
    BY <1>1, <1>2 DEF ServerMoves, ServerTypes
  <2> QED
    BY <2>1, <1>1, <1>2, <1>4, RequestsStay
<1>8. HeldAccounting'
  <2>1. /\ DOMAIN jobs \subseteq DOMAIN jobs' /\ Cardinality(DOMAIN jobs') <= MaxJobs
        /\ \A k \in DOMAIN jobs' : jobs'[k].waiters = IF k \in DOMAIN jobs THEN jobs[k].waiters ELSE 0
    BY <1>1, <1>2 DEF HeldAccounting
  <2> QED
    BY <2>1, <1>1, <1>2, HeldKept
<1> QED
  BY <1>4, <1>5, <1>6, <1>7, <1>8 DEF TurnInv

(* A new process: whatever was held, waited for or remembered is gone.     *)
LEMMA RestartInv ==
  ASSUME TurnInv, Restart
  PROVE  TurnInv'
<1>1. StoreInv' /\ RequestsOK /\ ServerTypes
  BY LoadInv DEF TurnInv, Restart
<1>2. /\ jobs' = <<>> /\ renewals' = <<>> /\ cooldowns' = <<>>
      /\ generation' = 0 /\ waiters' = 0 /\ heldBytes' = 0 /\ closed' = FALSE
      /\ modeRevision' = 0 /\ boots' = boots + 1 /\ mode' = mode
      /\ requests' = [r \in Requests |-> IF requests[r] = New THEN New ELSE Done]
  BY DEF Restart
<1>3. ServerTypes'
  <2>1. closed' \in BOOLEAN
    BY <1>2
  <2>2. {generation', waiters', heldBytes', modeRevision', boots'} \subseteq Nat
    BY <1>1, <1>2 DEF ServerTypes
  <2> QED
    BY <1>1, <1>2, <2>1, <2>2 DEF ServerTypes
<1>4. /\ JobsOK' /\ JobsCurrent' /\ SlotsOK' /\ SlotsCurrent' /\ CooldownsOK' /\ RenewalKeyEarned'
  BY <1>2, NothingIn DEF JobsOK, JobsCurrent, SlotsOK, SlotsCurrent, CooldownsOK, RenewalKeyEarned
<1>5. RequestsOK'
  <2>1. \A r \in Requests : requests'[r] \in {New, Done}
    BY <1>2
  <2>2. ASSUME NEW r \in Requests
        PROVE  \E req : req = requests'[r] /\ RequestOK(req)'
    <3>1. PICK req : req = requests'[r]
      OBVIOUS
    <3>2. RequestOK(req)'
      BY <2>1, <3>1, EndedOK
    <3> QED
      BY <3>1, <3>2
  <2> QED
    BY <1>2, <2>2, RequestsAfter
<1>6. HeldAccounting'
  <2>1. HeldRequests' = {} /\ DOMAIN jobs' = {}
    BY <1>2, NothingIn DEF HeldRequests, New, Done
  <2>2. BytesOf(HeldRequests)' = Cardinality(Cells(requests', {}))
    BY <2>1 DEF BytesOf, Cells
  <2>3. Cardinality(HeldRequests') = 0 /\ Cardinality(DOMAIN jobs') = 0
    BY <2>1, NothingIn
  <2> QED
    BY <1>2, <2>1, <2>2, <2>3, CellsNone, GateAssumption DEF HeldAccounting
<1> QED
  BY <1>1, <1>3, <1>4, <1>5, <1>6 DEF TurnInv

(* Before the first request nothing is held, known or remembered.          *)
LEMMA TurnInit == Init => TurnInv
<1> SUFFICES ASSUME Init PROVE TurnInv
  OBVIOUS
<1>1. /\ StoreInit /\ mode \in {"auto", "off"} /\ modeRevision = 0 /\ boots = 0 /\ proven = {}
      /\ jobs = <<>> /\ renewals = <<>> /\ cooldowns = <<>>
      /\ generation = 0 /\ waiters = 0 /\ heldBytes = 0 /\ closed = FALSE
      /\ requests = [r \in Requests |-> New]
  BY DEF Init, GateInit
<1>2. StoreInv /\ ServerTypes
  <2>1. closed \in BOOLEAN
    BY <1>1
  <2>2. {generation, waiters, heldBytes, modeRevision, boots} \subseteq Nat
    BY <1>1
  <2> QED
    BY <1>1, <2>1, <2>2, InitInv DEF ServerTypes
<1>3. JobsOK /\ JobsCurrent /\ SlotsOK /\ SlotsCurrent /\ CooldownsOK /\ RenewalKeyEarned
  BY <1>1, NothingIn DEF JobsOK, JobsCurrent, SlotsOK, SlotsCurrent, CooldownsOK, RenewalKeyEarned
<1>4. RequestsOK
  <2>1. RequestOK(New)
    BY EndedOK
  <2> QED
    BY <1>1, <2>1 DEF RequestsOK
<1>5. HeldAccounting
  <2>1. HeldRequests = {} /\ DOMAIN jobs = {}
    BY <1>1, NothingIn DEF HeldRequests, New
  <2>2. BytesOf(HeldRequests) = Cardinality(Cells(requests, {}))
    BY <2>1 DEF BytesOf, Cells
  <2>3. Cardinality(HeldRequests) = 0 /\ Cardinality(DOMAIN jobs) = 0
    BY <2>1, NothingIn
  <2> QED
    BY <1>1, <2>1, <2>2, <2>3, CellsNone, GateAssumption DEF HeldAccounting
<1> QED
  BY <1>2, <1>3, <1>4, <1>5 DEF TurnInv

(* The scheduler forgets credentials and starts renewals, no more than     *)
(* there is room for.                                                      *)
LEMMA SchedulerInv ==
  ASSUME TurnInv, Scheduler
  PROVE  TurnInv'
<1>1. /\ StoreInv /\ ServerTypes /\ JobsOK /\ JobsCurrent /\ SlotsOK /\ SlotsCurrent
      /\ CooldownsOK /\ RequestsOK /\ HeldAccounting /\ RenewalKeyEarned
  BY DEF TurnInv
<1>2. PICK launched, keys :
        /\ launched \subseteq DueSlots
        /\ keys = {Key(renewals[id].ctx) : id \in launched}
        /\ Cardinality(launched) <= Room
        /\ jobs' = [k \in DOMAIN jobs \cup keys |->
                IF k \in DOMAIN jobs THEN jobs[k]
                ELSE NewJob(renewals[k.id].ctx, renewals[k.id].caller, TRUE)]
  BY DEF Scheduler, SchedulerTick
<1>3. /\ UNCHANGED storeVars /\ UNCHANGED <<now, rules, epochs, objects, pins>>
      /\ UNCHANGED <<mode, modeRevision, requests, boots, proven>>
      /\ UNCHANGED <<cooldowns, generation, waiters, heldBytes, closed>>
      /\ \E gone : renewals' = Drop(renewals, gone)
  BY DEF Scheduler, SchedulerTick, StoreUntouched, storeVars, serverVars
<1>4. StoreInv' /\ StoreMoves
  BY <1>1, <1>3, QuietInv, MovesQuiet
<1>5. ASSUME NEW id \in launched
      PROVE  /\ id \in DOMAIN renewals /\ SlotOK(id, renewals[id]) /\ Current(renewals[id].ctx)
             /\ Key(renewals[id].ctx) \notin DOMAIN jobs
             /\ Key(renewals[id].ctx).id = id /\ Key(renewals[id].ctx).gen = generation
  <2>1. /\ id \in DOMAIN renewals /\ SlotOK(id, renewals[id]) /\ Current(renewals[id].ctx)
        /\ Key(renewals[id].ctx) \notin DOMAIN jobs
    BY <1>1, <1>2 DEF DueSlots, Renewable, SlotsOK
  <2>2. generation \in Nat
    BY <1>1 DEF ServerTypes
  <2> QED
    BY <2>1, <2>2, KeyTyped DEF SlotOK
<1>6. ASSUME NEW k \in keys
      PROVE  /\ k \notin DOMAIN jobs /\ JobOK(k, jobs'[k]) /\ jobs'[k].waiters = 0
             /\ Current(jobs'[k].ctx) /\ k.gen = generation
  <2>1. PICK id \in launched : k = Key(renewals[id].ctx)
    BY <1>2
  <2>2. PICK ctx, c : ctx = renewals[id].ctx /\ c = renewals[id].caller
    OBVIOUS
  <2>3. PICK background \in BOOLEAN : background = TRUE
    OBVIOUS
  <2>4. /\ Made(ctx, c) /\ ctx.id \in Ids /\ Current(ctx) /\ generation \in Nat
        /\ k = Key(ctx) /\ k.id = id /\ k.gen = generation /\ k \notin DOMAIN jobs
    BY <1>1, <1>5, <2>1, <2>2 DEF SlotOK, ServerTypes
  <2>5. /\ JobOK(k, NewJob(ctx, c, background)) /\ NewJob(ctx, c, background).waiters = 0
        /\ NewJob(ctx, c, background).ctx = ctx
    BY <1>1, <2>4, NewJobOK
  <2>6. jobs'[k] = NewJob(ctx, c, background)
    BY <1>2, <2>2, <2>3, <2>4
  <2> QED
    BY <2>4, <2>5, <2>6
<1>7. DOMAIN jobs' = DOMAIN jobs \cup keys /\ \A k \in DOMAIN jobs : jobs'[k] = jobs[k]
  BY <1>2
<1>8. /\ IsFiniteSet(DOMAIN jobs') /\ Cardinality(DOMAIN jobs') <= MaxJobs
  <2>1. /\ IsFiniteSet(DOMAIN jobs) /\ Cardinality(DOMAIN jobs) \in Nat /\ MaxJobs \in Nat
        /\ Cardinality(DOMAIN jobs) <= MaxJobs
    BY <1>1, FS_CardinalityType, GateAssumption DEF JobsOK, HeldAccounting
  <2>2. IsFiniteSet(launched) /\ Cardinality(launched) \in Nat
    <3>1. launched \subseteq DOMAIN renewals
      BY <1>5
    <3> QED
      BY <3>1, <1>1, FS_Subset, FS_CardinalityType DEF SlotsOK
  <2>3. /\ IsFiniteSet(keys) /\ Cardinality(keys) \in Nat
        /\ Cardinality(keys) <= Cardinality(launched)
    <3> DEFINE f == [id \in launched |-> Key(renewals[id].ctx)]
    <3>1. f \in Surjection(launched, keys)
      BY <1>2 DEF Surjection
    <3> QED
      BY <2>2, <3>1, FS_Surjection, FS_CardinalityType
  <2>4. DOMAIN jobs \cap keys = {}
    BY <1>6
  <2>5. Cardinality(DOMAIN jobs \cap keys) = 0
    BY <2>4, FS_EmptySet, Zenon
  <2>6. /\ IsFiniteSet(DOMAIN jobs \cup keys)
        /\ Cardinality(DOMAIN jobs \cup keys) =
             Cardinality(DOMAIN jobs) + Cardinality(keys) - Cardinality(DOMAIN jobs \cap keys)
    BY <2>1, <2>3, FS_Union
  <2>7. Cardinality(launched) <= MaxJobs - Cardinality(DOMAIN jobs)
    BY <1>2, <2>1, <2>2 DEF Room
  <2> QED
    BY <1>7, <2>1, <2>2, <2>3, <2>5, <2>6, <2>7
<1>9. JobsOK'
  <2>1. \A k \in DOMAIN jobs' : JobOK(k, jobs'[k])
    BY <1>1, <1>6, <1>7 DEF JobsOK
  <2> QED
    BY <1>8, <2>1 DEF JobsOK, JobOK
<1>10. JobsCurrent'
  <2>1. \A k \in DOMAIN jobs' : ~jobs'[k].aborted => Current(jobs'[k].ctx) /\ k.gen = generation
    BY <1>1, <1>6, <1>7 DEF JobsCurrent, JobCurrent
  <2> QED
    BY <1>3, <2>1 DEF JobsCurrent, JobCurrent, Current, GateEnabled, Unchanged
<1>11. SlotsOK' /\ SlotsCurrent' /\ CooldownsOK' /\ RenewalKeyEarned'
  <2>1. /\ DOMAIN renewals' \subseteq DOMAIN renewals
        /\ \A id \in DOMAIN renewals' : renewals'[id] = renewals[id]
    BY <1>3 DEF Drop
  <2>2. IsFiniteSet(DOMAIN renewals')
    BY <2>1, <1>1, FS_Subset DEF SlotsOK
  <2>3. SlotsOK'
    BY <1>1, <2>1, <2>2 DEF SlotsOK, SlotOK
  <2>4. SlotsCurrent' /\ CooldownsOK'
    BY <1>1, <1>3, <2>1 DEF SlotsCurrent, CooldownsOK, Current, GateEnabled, Unchanged
  <2> QED
    BY <1>1, <1>3, <2>1, <2>3, <2>4, EarnedKept
<1>12. RequestsOK' /\ ServerTypes'
  <2>1. ServerMoves /\ ServerTypes'
    BY <1>1, <1>3 DEF ServerMoves, ServerTypes
  <2> QED
    BY <2>1, <1>1, <1>3, <1>4, RequestsStay
<1>13. HeldAccounting'
  <2>1. /\ DOMAIN jobs \subseteq DOMAIN jobs' /\ Cardinality(DOMAIN jobs') <= MaxJobs
        /\ \A k \in DOMAIN jobs' : jobs'[k].waiters = IF k \in DOMAIN jobs THEN jobs[k].waiters ELSE 0
    BY <1>6, <1>7, <1>8
  <2> QED
    BY <2>1, <1>1, <1>3, HeldKept
<1> QED
  BY <1>4, <1>9, <1>10, <1>11, <1>12, <1>13 DEF TurnInv

(* Every step preserves the invariant. *)
LEMMA TurnNext == TurnInv /\ [Next]_vars => TurnInv'
<1> SUFFICES ASSUME TurnInv, [Next]_vars PROVE TurnInv'
  OBVIOUS
<1>1. CASE UNCHANGED vars
  BY <1>1, ApartInv
<1>2. ASSUME NEW r \in Requests, Arrive(r) \/ RequestSteps(r) PROVE TurnInv'
  BY <1>2, ArriveInv, HangUpInv, HeadersInv, ChunkInv, EndInv, AbortInv DEF RequestSteps
<1>3. ASSUME NEW k \in DOMAIN jobs, JobStep(k) PROVE TurnInv'
  BY <1>3, JobStepInv
<1>4. CASE Administer
  BY <1>4, SwitchInv, SaveRulesInv, ResetPinsInv DEF Administer
<1>5. CASE Close \/ Restart
  BY <1>5, CloseInv, RestartInv
<1>6. CASE Persist \/ Scheduler \/ Tick
  BY <1>6, ApartInv, SchedulerInv
<1> QED
  BY <1>1, <1>2, <1>3, <1>4, <1>5, <1>6 DEF Next

(* The inductive invariant holds throughout. *)
THEOREM TurnInvariant == Spec => []TurnInv
BY TurnInit, TurnNext, PTL DEF Spec

-----------------------------------------------------------------------------
(* What the invariant is for *)

(* Every variable of the whole system keeps its shape (lib/server.mjs,     *)
(* lib/automatic.mjs, lib/states.mjs).                                     *)
THEOREM TypesHold == Spec => []TypeOK
<1>1. TurnInv => TypeOK
  <2> SUFFICES ASSUME TurnInv PROVE TypeOK
    OBVIOUS
  <2>1. /\ StoreTypeOK /\ ServerTypes
        /\ \A k \in DOMAIN jobs : k \in KeyType /\ jobs[k] \in JobType
        /\ \A id \in DOMAIN renewals : id \in Ids /\ renewals[id] \in SlotType
        /\ \A c \in DOMAIN cooldowns : cooldowns[c] \in CooldownType
    BY DEF TurnInv, StoreInv, JobsOK, JobOK, SlotsOK, SlotOK, CooldownsOK
  <2>2. requests \in [Requests -> RequestType]
    BY DEF TurnInv, RequestsOK, RequestOK
  <2> QED
    BY <2>1, <2>2 DEF TypeOK, ServerTypes, SlotType, CooldownType
<1> QED
  BY <1>1, TurnInvariant, PTL

(* A job that was not told to stop works for what is in force: every       *)
(* change in lib/server.mjs that makes a job stale aborts it at once.      *)
THEOREM JobsStayCurrent == Spec => []CurrentJobs
<1>1. TurnInv => CurrentJobs
  BY DEF TurnInv, JobsOK, JobOK, JobsCurrent, CurrentJobs
<1> QED
  BY <1>1, TurnInvariant, PTL

(* Credentials remembered for renewals (lib/automatic.mjs, remember and    *)
(* cancelModels) never outlive the switch, the rule or the bindings they   *)
(* were remembered for, and sit under the binding of their owner.          *)
THEOREM SlotsStayCurrent == Spec => []CurrentSlots
<1>1. TurnInv => CurrentSlots
  <2> SUFFICES ASSUME TurnInv, NEW id \in DOMAIN renewals
               PROVE  /\ Current(renewals[id].ctx)
                      /\ id = Context(renewals[id].ctx.model, renewals[id].caller).id
                      /\ renewals[id].caller.cred = renewals[id].ctx.client
    BY DEF CurrentSlots
  <2>1. PICK ctx, c : ctx = renewals[id].ctx /\ c = renewals[id].caller
    OBVIOUS
  <2>2. Current(ctx) /\ Made(ctx, c) /\ ctx.id = id
    BY <2>1 DEF TurnInv, SlotsOK, SlotOK, SlotsCurrent
  <2>3. ctx.id = Context(ctx.model, c).id
    BY <2>2, MadeNow DEF Current
  <2> QED
    BY <2>1, <2>2, <2>3 DEF Made
<1> QED
  BY <1>1, TurnInvariant, PTL

(* Held requests, the waiters of each job and the bytes they hold are      *)
(* counted exactly, and stay below their limits, whatever happens to jobs  *)
(* and clients (lib/automatic.mjs, ensure).                                *)
THEOREM CountersExact == Spec => []HeldAccounting
BY TurnInvariant, PTL DEF TurnInv

(* Nobody's credentials renew a binding (lib/automatic.mjs, remember) on   *)
(* the strength of a hit in a cache he shares with others.                 *)
THEOREM CredentialsEarned == Spec => []RenewalKeyEarned
BY TurnInvariant, PTL DEF TurnInv

(* The pins of lib/states.mjs obey the rules in force under every use the  *)
(* server and the gate make of the store.                                  *)
THEOREM PinsStayLawful == Spec => []PinsObeyRules
BY TurnInvariant, PTL DEF TurnInv, StoreInv

-----------------------------------------------------------------------------
(* Which steps touch a pin *)

(* The checks of run() pass only for a job that is not aborted, is current *)
(* and finds the pin it started from.                                      *)
LEMMA VerdictNone ==
  ASSUME NEW k, JobOK(k, jobs[k]), Verdict(k) = None
  PROVE  ~jobs[k].aborted /\ JobCurrent(k) /\ Replacement(jobs[k]) = "same"
<1>1. None \notin {"cancelled", "configuration_changed", "reused", "binding_changed"}
  BY TurnStateAssumption DEF Refusals, Results, CancelReasons
<1>2. jobs[k].aborted \in BOOLEAN /\ Replacement(jobs[k]) \in {"same", "reused", "binding_changed"}
  BY DEF JobOK, JobType, Replacement
<1> QED
  BY <1>1, <1>2 DEF Verdict, StopReason

(* Administration counts an epoch up. *)
LEMMA EpochCounts ==
  ASSUME StoreTypeOK, NEW changed, NEW m \in Models, m \in changed, epochs' = NextEpoch(changed)
  PROVE  epochs' # epochs
<1>1. epochs[m] \in Nat /\ epochs'[m] = epochs[m] + 1
  BY DEF StoreTypeOK, NextEpoch
<1>2. epochs'[m] # epochs[m]
  BY <1>1
<1> QED
  BY <1>2

(* No administration touches a pin without counting an epoch up.           *)
LEMMA AdministerCounts ==
  ASSUME TurnInv, Administer, StoreChanged
  PROVE  epochs' # epochs
<1>1. StoreTypeOK
  BY DEF TurnInv, StoreInv
<1>2. ASSUME NEW v \in {"auto", "off"}, Switch(v) PROVE FALSE
  BY <1>2 DEF Switch, StoreUntouched, storeVars, StoreChanged
<1>3. ASSUME NEW new \in [Models -> Rules \cup {None}], new # rules, SaveRules(new)
      PROVE  epochs' # epochs
  <2>1. PICK m \in Models : m \in Changed(new)
    BY <1>1, <1>3 DEF Changed, StoreTypeOK
  <2>2. epochs' = NextEpoch(Changed(new))
    BY <1>3 DEF SaveRules, Configure
  <2> QED
    BY <1>1, <2>1, <2>2, EpochCounts
<1>4. CASE ResetPins
  <2>1. PICK m \in Models : epochs' = NextEpoch({m})
    <3>1. \A id \in Ids : id.model \in Models
      BY IdFields
    <3> QED
      BY <1>4, <3>1 DEF ResetPins, RefreshModel, RefreshBinding, Refresh, Manual
  <2> QED
    BY <1>1, <2>1, EpochCounts
<1> QED
  BY <1>2, <1>3, <1>4 DEF Administer

(* A job that found a value.                                               *)
Adopts(k, v) ==
  /\ k \in DOMAIN jobs /\ k \notin DOMAIN jobs' /\ Verdict(k) = None
  /\ Insert(jobs[k].ctx, v)

(* A request that was rejected, in its headers or in its body.             *)
Rejects(r) ==
  /\ requests'[r] # requests[r] /\ Processing(r) /\ UNCHANGED pins
  /\ Revoke({requests[r].ctx.id})
  /\ \E reason : /\ MayInvalidate(requests[r].ctx, requests[r].used, requests[r].usedState, reason)
                 /\ \/ requests[r].phase = "open" /\ reason = "http_401"
                    \/ requests[r].phase = "answering"

(* A response that ended well.                                             *)
Captures(r, v) ==
  /\ requests'[r] # requests[r] /\ Processing(r) /\ requests[r].phase = "answering"
  /\ CaptureAutomatic(requests[r].ctx, v, requests[r].used)

(* Administration and restarts apart, a pin is touched by a job, a         *)
(* rejection or a response, each of them under the switch, the rules and   *)
(* the bindings in force.                                                  *)
LEMMA PinsMove ==
  ASSUME TurnInv, [Next]_vars, StoreChanged, ~Administered
  PROVE  /\ UNCHANGED <<now, rules, epochs, mode>>
         /\ \/ \E k \in DOMAIN jobs : \E v \in Values : Adopts(k, v)
            \/ \E r \in Requests : Rejects(r)
            \/ \E r \in Requests : \E v \in Values : Captures(r, v)
<1>1. StoreInv /\ ServerTypes /\ JobsOK /\ RequestsOK
  BY DEF TurnInv
<1>2. ~UNCHANGED storeVars
  BY DEF storeVars, StoreChanged
<1>3. ASSUME NEW r \in Requests, Headers(r)
      PROVE  UNCHANGED <<now, rules, epochs, mode>> /\ Rejects(r)
  <2>1. /\ requests[r].phase = "open" /\ UNCHANGED <<now, rules, epochs, mode>>
        /\ Reject(r, "http_401")
    BY <1>3 DEF Headers, RequestStep, Untouched, StoreChanged
  <2>2. requests'[r].phase = "answering"
    <3>1. requests = [i \in Requests |-> requests[i]] /\ RequestOK(requests[r])
      BY <1>1 DEF RequestsOK
    <3>2. PICK status, raw : requests' = [requests EXCEPT ![r] =
            [@ EXCEPT !.phase = "answering", !.status = status, !.raw = raw]]
      BY <1>3 DEF Headers
    <3>3. "phase" \in DOMAIN requests[r]
      BY <2>1, <3>1 DEF RequestOK, RequestType, New, Done
    <3> QED
      BY <3>1, <3>2, <3>3
  <2>3. /\ Processing(r) /\ UNCHANGED pins /\ Revoke({requests[r].ctx.id})
        /\ MayInvalidate(requests[r].ctx, requests[r].used, requests[r].usedState, "http_401")
    BY <2>1 DEF Reject, InvalidateUsedPin, Untouched, StoreChanged
  <2> QED
    BY <2>1, <2>2, <2>3 DEF Rejects
<1>4. ASSUME NEW r \in Requests, Chunk(r)
      PROVE  UNCHANGED <<now, rules, epochs, mode>> /\ Rejects(r)
  <2>1. /\ requests[r].phase = "answering" /\ UNCHANGED <<now, rules, epochs, mode>>
        /\ Reject(r, "explicit_turn_state_error")
    BY <1>4 DEF Chunk, RequestStep
  <2>2. /\ Processing(r) /\ UNCHANGED pins /\ Revoke({requests[r].ctx.id}) /\ requests[r].used # 0
        /\ MayInvalidate(requests[r].ctx, requests[r].used, requests[r].usedState, "explicit_turn_state_error")
    BY <2>1 DEF Reject, InvalidateUsedPin, Untouched, StoreChanged
  <2>3. RequestOK(requests[r]) /\ requests = [i \in Requests |-> requests[i]]
    BY <1>1 DEF RequestsOK
  <2>4. ~requests[r].failed
    BY <2>1, <2>2, <2>3 DEF RequestOK, UsedOK, Processing, MayInvalidate, Unchanged
  <2>5. requests'[r].failed = TRUE
    <3>1. "failed" \in DOMAIN requests[r]
      BY <2>1, <2>3 DEF RequestOK, RequestType, New, Done
    <3> QED
      BY <1>4, <2>3, <3>1 DEF Chunk
  <2> QED
    BY <2>1, <2>2, <2>4, <2>5 DEF Rejects
<1>5. ASSUME NEW r \in Requests, End(r)
      PROVE  UNCHANGED <<now, rules, epochs, mode>> /\ \E v \in Values : Captures(r, v)
  <2>1. /\ UNCHANGED <<now, rules, epochs, mode>> /\ requests[r].phase = "answering"
        /\ Processing(r) /\ requests[r].raw # None
        /\ CaptureAutomatic(requests[r].ctx, requests[r].raw, requests[r].used)
    BY <1>5 DEF End, Untouched, StoreChanged
  <2>2. requests[r].raw \in Values
    BY <1>1, <2>1 DEF RequestsOK, RequestOK, RequestType, New, Done
  <2>3. requests'[r] # requests[r]
    <3>1. requests = [i \in Requests |-> requests[i]] /\ Become(r, Done)
      BY <1>1, <1>5 DEF RequestsOK, End
    <3>2. requests'[r].phase = "done"
      BY <3>1 DEF Become, Done
    <3> QED
      BY <2>1, <3>2
  <2> QED
    BY <2>1, <2>2, <2>3 DEF Captures
<1>6. ASSUME NEW k \in DOMAIN jobs, JobStep(k)
      PROVE  UNCHANGED <<now, rules, epochs, mode>> /\ \E v \in Values : Adopts(k, v)
  <2>1. Find(k)
    BY <1>6, <1>2 DEF JobStep, ProbeReturns, Wake, GiveUp, Miss, Fail, ProbeAgain, StoreUntouched
  <2>2. PICK v \in jobs[k].ctx.rule.pinned :
          Verdict(k) = None /\ AdoptProbe(jobs[k].ctx, v) /\ Settle(k, "found", 0)
    BY <2>1 DEF Find
  <2>3. jobs' = Drop(jobs, {k}) /\ UNCHANGED mode
    BY <2>2 DEF Settle, Settled
  <2>4. v \in Values
    <3>1. /\ JobOK(k, jobs[k]) /\ CanAdopt(jobs[k].ctx, v)
      BY <1>1, <2>2 DEF JobsOK, AdoptProbe
    <3>2. rules[jobs[k].ctx.model] \in Rules
      BY <1>1, <3>1 DEF CanAdopt, Enabled, StoreInv, StoreTypeOK, JobOK, Made, Contexts
    <3> QED
      BY <3>1, <3>2, RuleFields DEF CanAdopt
  <2> QED
    BY <2>2, <2>3, <2>4 DEF Adopts, AdoptProbe, Drop
<1>7. CASE Administer
  BY <1>7, AdministerCounts DEF Administered
<1>8. CASE Restart
  BY <1>1, <1>8 DEF Restart, Administered, ServerTypes
<1>9. CASE Persist \/ Tick
  BY <1>9, Zenon DEF Persist, Tick, Flush, Advance, StoreChanged
<1>10. CASE Scheduler \/ Close \/ UNCHANGED vars
  BY <1>2, <1>10 DEF Scheduler, Close, StoreUntouched, vars
<1>11. ASSUME NEW r \in Requests, Arrive(r) \/ HangUp(r) \/ Abort(r) PROVE FALSE
  BY <1>11 DEF Arrive, HangUp, Abort, StoreUntouched, storeVars, StoreChanged
<1> QED
  BY <1>3, <1>4, <1>5, <1>6, <1>7, <1>8, <1>9, <1>10, <1>11 DEF Next, RequestSteps

(* Administration apart, a pin is touched only while the switch of         *)
(* lib/server.mjs is on, by the response to a request dispatched since it  *)
(* was last moved or by a job of lib/automatic.mjs that was not aborted.   *)
THEOREM PinsNeedTheSwitch == Spec => TouchedWhileOn
<1> DEFINE
      Answered == \E r \in Requests :
        /\ requests[r].phase \in {"open", "answering"} /\ requests'[r] # requests[r]
        /\ requests[r].revision = modeRevision
      Settles == \E k \in DOMAIN jobs \ DOMAIN jobs' : ~jobs[k].aborted /\ k.gen = generation
<1>1. TurnInv /\ [Next]_vars =>
        (StoreChanged /\ ~Administered => mode = "auto" /\ (Answered \/ Settles))
  <2> SUFFICES ASSUME TurnInv, [Next]_vars, StoreChanged, ~Administered
               PROVE  mode = "auto" /\ (Answered \/ Settles)
    OBVIOUS
  <2>1. ASSUME NEW k \in DOMAIN jobs, NEW v \in Values, Adopts(k, v)
        PROVE  mode = "auto" /\ Settles
    <3>1. k \notin DOMAIN jobs' /\ ~jobs[k].aborted /\ JobCurrent(k)
      BY <2>1, VerdictNone DEF TurnInv, JobsOK, Adopts
    <3> QED
      BY <3>1 DEF JobCurrent, Current, GateEnabled
  <2>2. ASSUME NEW r \in Requests,
               Rejects(r) \/ \E v \in Values : Captures(r, v)
        PROVE  mode = "auto" /\ Answered
    <3>1. requests'[r] # requests[r] /\ Processing(r) /\ requests[r].phase \in {"open", "answering"}
      BY <2>2 DEF Rejects, Captures
    <3> QED
      BY <3>1 DEF Processing
  <2> QED
    BY <2>1, <2>2, PinsMove
<1> QED
  BY <1>1, TurnInvariant, PTL DEF Spec, TouchedWhileOn

(* The request whose response may have touched a pin.                      *)
LEMMA UsedRequest ==
  ASSUME TurnInv, NEW r \in Requests, Processing(r), requests[r].phase \in {"open", "answering"}
  PROVE  Attached(requests[r].ctx) /\ requests[r].phase \in {"open", "answering"}
BY MadeAttached DEF TurnInv, RequestsOK, RequestOK

(* A pin is revoked only by a response to a request that carried it.       *)
LEMMA RevokedByItsUser ==
  ASSUME TurnInv, [Next]_vars, ~Administered, NEW id \in Ids, Bound(id), ~Pin(id).pending,
         pins'[id] = pins[id], Pin(id)'.pending
  PROVE  \E r \in Requests :
            /\ requests[r].phase \in {"open", "answering"} /\ requests'[r] # requests[r]
            /\ requests[r].ctx.id = id /\ requests[r].used = pins[id]
            /\ requests[r].usedState = Pin(id).state
            /\ requests[r].phase = "open" /\ id.scope = "model"
                 => requests[r].ctx.client = Pin(id).client
<1>1. StoreInv /\ StoreChanged /\ objects'[id] # objects[id]
  BY DEF TurnInv, StoreChanged, Pin
<1>2. ASSUME NEW k \in DOMAIN jobs, NEW v \in Values, Adopts(k, v) PROVE FALSE
  <2>1. JobOK(k, jobs[k])
    BY DEF TurnInv, JobsOK
  <2>2. PICK ctx : ctx = jobs[k].ctx
    OBVIOUS
  <2>3. ctx.id \in Ids /\ Insert(ctx, v)
    BY <1>2, <2>1, <2>2 DEF Adopts, JobOK
  <2> QED
    BY <1>1, <2>3, InsertMoves
<1>3. ASSUME NEW r \in Requests, NEW v \in Values, Captures(r, v) PROVE FALSE
  <2>1. PICK ctx : ctx = requests[r].ctx
    OBVIOUS
  <2>2. Attached(ctx)
    BY <1>3, <2>1, UsedRequest DEF Captures
  <2>3. CASE CanAdopt(ctx, v) /\ Insert(ctx, v)
    <3>1. ctx.id \in Ids
      BY <2>2, <2>3 DEF CanAdopt, Attached, Contexts
    <3> QED
      BY <1>1, <2>3, <3>1, InsertMoves
  <2>4. CASE Bound(ctx.id) /\ Reaccept(ctx.id)
    <3>1. ctx.id \in Ids
      BY <2>2, <2>4 DEF Bound, Attached, Contexts
    <3> QED
      BY <1>1, <2>4, <3>1, ReacceptEffect
  <2> QED
    BY <1>1, <1>3, <2>1, <2>3, <2>4 DEF Captures, CaptureAutomatic, Untouched
<1>4. ASSUME NEW r \in Requests, Rejects(r)
      PROVE  /\ requests[r].phase \in {"open", "answering"} /\ requests'[r] # requests[r]
             /\ requests[r].ctx.id = id /\ requests[r].used = pins[id]
             /\ requests[r].usedState = Pin(id).state
             /\ requests[r].phase = "open" /\ id.scope = "model"
                  => requests[r].ctx.client = Pin(id).client
  <2>1. PICK req, reason :
          /\ req = requests[r] /\ MayInvalidate(req.ctx, req.used, req.usedState, reason)
          /\ (req.phase = "open" /\ reason = "http_401") \/ req.phase = "answering"
          /\ Revoke({req.ctx.id}) /\ UNCHANGED pins /\ requests'[r] # requests[r]
    BY <1>4 DEF Rejects
  <2>2. req.ctx.id \in Ids
    <3>1. Attached(req.ctx) /\ Bound(req.ctx.id)
      BY <1>4, <2>1, UsedRequest DEF Rejects, MayInvalidate
    <3> QED
      BY <3>1 DEF Bound, Attached, Contexts
  <2>3. req.ctx.id = id
    <3>1. PICK ids : ids = {req.ctx.id}
      OBVIOUS
    <3>2. ids \in SUBSET BoundIds /\ Revoke(ids)
      BY <2>1, <2>2, <3>1 DEF MayInvalidate, Bound, BoundIds
    <3>3. id \in ids
      BY <1>1, <2>1, <3>2, RevokeMoves
    <3> QED
      BY <3>1, <3>3
  <2>4. req.phase = "open" /\ id.scope = "model" => req.ctx.client = Pin(id).client
    BY <2>1, <2>3 DEF MayInvalidate, AuthReasons
  <2> QED
    BY <2>1, <2>3, <2>4 DEF MayInvalidate
<1> QED
  BY <1>1, <1>2, <1>3, <1>4, PinsMove

(* A pin that can still serve is replaced only by a job that started from  *)
(* it.                                                                     *)
LEMMA RotatedByItsJob ==
  ASSUME TurnInv, [Next]_vars, ~Administered, NEW id \in Ids, Qualified(id),
         Pin(id).expiresAt > now + Margin, pins'[id] \notin {0, pins[id]}
  PROVE  \E k \in DOMAIN jobs \ DOMAIN jobs' :
            k.id = id /\ jobs[k].base = pins[id] /\ ~jobs[k].aborted
<1>1. StoreInv /\ StoreChanged /\ Bound(id)
  BY DEF TurnInv, StoreChanged, Qualified
<1>2. ASSUME NEW k \in DOMAIN jobs, NEW v \in Values, Adopts(k, v)
      PROVE  k \notin DOMAIN jobs' /\ k.id = id /\ jobs[k].base = pins[id] /\ ~jobs[k].aborted
  <2>1. JobOK(k, jobs[k]) /\ Verdict(k) = None /\ k \notin DOMAIN jobs'
    BY <1>2 DEF TurnInv, JobsOK, Adopts
  <2>2. ~jobs[k].aborted /\ Replacement(jobs[k]) = "same"
    BY <2>1, VerdictNone
  <2>3. PICK ctx : ctx = jobs[k].ctx
    OBVIOUS
  <2>4. ctx.id \in Ids /\ Insert(ctx, v) /\ ctx.id = k.id
    BY <1>2, <2>1, <2>3 DEF Adopts, JobOK
  <2>5. ctx.id = id
    BY <1>1, <2>4, InsertMoves
  <2>6. jobs[k].base = pins[id]
    BY <1>1, <2>2, <2>3, <2>5 DEF Replacement
  <2> QED
    BY <2>1, <2>2, <2>4, <2>5, <2>6
<1>3. ASSUME NEW r \in Requests, NEW v \in Values, Captures(r, v) PROVE FALSE
  <2>1. PICK ctx : ctx = requests[r].ctx
    OBVIOUS
  <2>2. Attached(ctx) /\ Unchanged(ctx)
    BY <1>3, <2>1, UsedRequest DEF Captures, Processing
  <2>3. CASE CanAdopt(ctx, v) /\ Insert(ctx, v) /\ ~Live(ctx)
    <3>1. ctx.id \in Ids
      BY <2>2, <2>3 DEF CanAdopt, Attached, Contexts
    <3>2. ctx.id = id
      BY <1>1, <2>3, <3>1, InsertMoves
    <3>3. Pin(id).rule = ctx.rule
      BY <1>1, <2>2, <3>2, IdFields DEF StoreInv, PinsObeyRules, Attached, Unchanged
    <3> QED
      BY <2>2, <2>3, <3>2, <3>3 DEF Live
  <2> QED
    BY <1>3, <2>1, <2>3 DEF Captures, CaptureAutomatic, Untouched, Reaccept
<1>4. ASSUME NEW r \in Requests, Rejects(r) PROVE FALSE
  BY <1>4 DEF Rejects
<1> QED
  BY <1>1, <1>2, <1>3, <1>4, PinsMove

(* A pin that can still serve is lost to nothing but administration, the   *)
(* clock, its own rejection and its own renewal (lib/states.mjs,           *)
(* invalidateUsedPin and captureAutomatic; lib/automatic.mjs, run).        *)
THEOREM PinsStayForCause == Spec => PinsLeaveForCause
<1>1. TurnInv /\ [Next]_vars =>
        \A id \in Ids :
           Bound(id) /\ ~Pin(id).pending /\ pins'[id] = pins[id] /\ Pin(id)'.pending
             /\ ~Administered
           => \E r \in Requests :
                /\ requests[r].phase \in {"open", "answering"} /\ requests'[r] # requests[r]
                /\ requests[r].ctx.id = id /\ requests[r].used = pins[id]
                /\ requests[r].usedState = Pin(id).state
                /\ requests[r].phase = "open" /\ id.scope = "model"
                     => requests[r].ctx.client = Pin(id).client
  BY RevokedByItsUser
<1>2. TurnInv /\ [Next]_vars =>
        \A id \in Ids :
           Qualified(id) /\ Pin(id).expiresAt > now + Margin /\ ~Administered
             /\ pins'[id] \notin {0, pins[id]}
           => \E k \in DOMAIN jobs \ DOMAIN jobs' :
                k.id = id /\ jobs[k].base = pins[id] /\ ~jobs[k].aborted
  BY RotatedByItsJob
<1> QED
  BY <1>1, <1>2, TurnInvariant, PTL
    DEF Spec, PinsLeaveForCause, RevocationsJustified, LivePinsRotateByProbe

(* What a request carries as it leaves for the upstream.                   *)
Leaves(r, id) ==
  /\ requests[r].phase \in {"new", "held"} /\ requests'[r].phase = "open"
  /\ requests'[r].ctx.id = id

LivePinTaken(r, id) ==
  /\ mode = "auto" /\ requests'[r].used = pins'[id]
  /\ Qualified(id)' /\ Pin(id)'.expiresAt > now + Margin

Equipped(r, id) ==
  /\ requests'[r].used # 0 => LivePinTaken(r, id)
  /\ requests[r].phase = "held" => (requests'[r].auto <=> requests'[r].used # 0)

(* One that never waited. *)
LEMMA ArriveSends ==
  ASSUME TurnInv, NEW r \in Requests, NEW id \in Ids, Arrive(r), Leaves(r, id)
  PROVE  Equipped(r, id)
<1>1. /\ UNCHANGED <<now, rules, epochs, objects, pins>> /\ requests = [i \in Requests |-> requests[i]]
      /\ requests[r].phase # "held"
  BY DEF Arrive, StoreUntouched, storeVars, TurnInv, RequestsOK, New
<1> SUFFICES ASSUME requests'[r].used # 0 PROVE LivePinTaken(r, id)
  BY <1>1 DEF Equipped
<1>2. PICK m, caller, bytes, ctx :
        \/ Pass(r, ctx, caller)
        \/ GateEnabled(m) /\ Live(ctx) /\ CacheHit(r, ctx, caller)
        \/ Refuse(r, ctx, caller, bytes)
        \/ Hold(r, ctx, caller, bytes)
  BY DEF Arrive
<1>3. CASE Pass(r, ctx, caller)
  BY <1>1, <1>3 DEF Pass, Become, Dispatched
<1>4. CASE GateEnabled(m) /\ Live(ctx) /\ CacheHit(r, ctx, caller)
  <2>1. requests'[r] = Dispatched(ctx, caller, TRUE, LivePin(ctx), Pin(ctx.id).state)
    BY <1>1, <1>4 DEF CacheHit, Become
  <2>2. requests'[r].ctx = ctx /\ requests'[r].used = LivePin(ctx)
    BY <2>1 DEF Dispatched
  <2>3. ctx.id = id /\ requests'[r].used = pins[id]
    BY <2>2, <1>4 DEF Leaves, LivePin
  <2>4. Qualified(id)' /\ Pin(id)'.expiresAt > now + Margin
    BY <1>1, <1>4, <2>3 DEF Live, Qualified, Bound, Pin
  <2> QED
    BY <1>1, <1>4, <2>3, <2>4 DEF LivePinTaken, GateEnabled
<1>5. CASE Refuse(r, ctx, caller, bytes)
  BY <1>1, <1>5 DEF Refuse, Become, Blocked, Leaves
<1>6. CASE Hold(r, ctx, caller, bytes)
  BY <1>1, <1>6 DEF Hold, Become, Held, Leaves
<1> QED
  BY <1>2, <1>3, <1>4, <1>5, <1>6

(* One that waited for a job. *)
LEMMA SettleSends ==
  ASSUME TurnInv, NEW r \in Requests, NEW id \in Ids, NEW k \in DOMAIN jobs,
         NEW result, NEW pause, Settle(k, result, pause), now' = now, Leaves(r, id)
  PROVE  Equipped(r, id)
<1>1. JobOK(k, jobs[k]) /\ RequestOK(requests[r]) /\ requests[r].phase \in {"new", "held"}
  BY DEF TurnInv, JobsOK, RequestsOK, Leaves
<1>2. PICK ctx, new : ctx = jobs[k].ctx /\ new = requests'[r]
  OBVIOUS
<1>3. /\ requests[r].phase = "held" /\ requests[r].key = k
      /\ \/ new = Dispatched(requests[r].ctx, requests[r].caller, FALSE, 0, None)
         \/ /\ mode = "auto" /\ Live(ctx)'
            /\ new = Dispatched(requests[r].ctx, requests[r].caller, TRUE, LivePin(ctx)', Pin(ctx.id)'.state)
         \/ \E reason : new = Blocked(reason)
  BY <1>1, <1>2 DEF Settle, Leaves, Waiting
<1>4. new.phase = "open" /\ new.ctx.id = id
  BY <1>2 DEF Leaves
<1>5. CASE new = Dispatched(requests[r].ctx, requests[r].caller, FALSE, 0, None)
  <2>1. new.auto = FALSE /\ new.used = 0
    BY <1>5 DEF Dispatched
  <2> QED
    BY <1>2, <2>1 DEF Equipped
<1>6. CASE /\ mode = "auto" /\ Live(ctx)'
           /\ new = Dispatched(requests[r].ctx, requests[r].caller, TRUE, LivePin(ctx)', Pin(ctx.id)'.state)
  <2>1. new.auto = TRUE /\ new.used = LivePin(ctx)' /\ new.ctx = requests[r].ctx
    BY <1>6 DEF Dispatched
  <2>2. ctx.id = id
    BY <1>1, <1>2, <1>3, <1>4, <2>1 DEF RequestOK, JobOK
  <2>3. new.used = pins'[id] /\ Qualified(id)' /\ Pin(id)'.expiresAt > now + Margin
    BY <1>6, <2>1, <2>2 DEF LivePin, Live
  <2>4. new.used # 0
    BY <2>3 DEF Qualified, Bound
  <2>5. LivePinTaken(r, id)
    BY <1>2, <1>6, <2>3 DEF LivePinTaken
  <2> QED
    BY <1>2, <2>1, <2>4, <2>5 DEF Equipped
<1>7. CASE \E reason : new = Blocked(reason)
  BY <1>4, <1>7 DEF Blocked
<1> QED
  BY <1>3, <1>5, <1>6, <1>7

(* A request leaves lib/server.mjs with the live pin of its own binding or *)
(* with none, and one that waited in ensure() of lib/automatic.mjs with    *)
(* that pin if and only if it is sent on under processing.                 *)
THEOREM SentLive == Spec => SentWithLivePin
<1>1. TurnInv /\ [Next]_vars => \A r \in Requests, id \in Ids : Leaves(r, id) => Equipped(r, id)
  <2> SUFFICES ASSUME TurnInv, [Next]_vars, NEW r \in Requests, NEW id \in Ids, Leaves(r, id)
               PROVE  Equipped(r, id)
    OBVIOUS
  <2>1. requests = [i \in Requests |-> requests[i]]
    BY DEF TurnInv, RequestsOK
  <2>2. ASSUME NEW i \in Requests, Arrive(i) PROVE Equipped(r, id)
    <3>1. \E new : requests' = [requests EXCEPT ![i] = new]
      <4>1. PICK ctx, caller, bytes :
              \/ Pass(i, ctx, caller) \/ CacheHit(i, ctx, caller)
              \/ Refuse(i, ctx, caller, bytes) \/ Hold(i, ctx, caller, bytes)
        BY <2>2 DEF Arrive
      <4>2. \E new : Become(i, new)
        BY <4>1 DEF Pass, CacheHit, Refuse, Hold
      <4> QED
        BY <4>2 DEF Become
    <3>2. i = r
      BY <2>1, <3>1 DEF Leaves
    <3> QED
      BY <2>2, <3>2, ArriveSends
  <2>3. ASSUME NEW k \in DOMAIN jobs, JobStep(k) PROVE Equipped(r, id)
    <3>1. CASE GiveUp(k) \/ Find(k) \/ Fail(k)
      <4>1. PICK result, pause : Settle(k, result, pause) /\ now' = now
        BY <3>1 DEF GiveUp, Find, Fail, AdoptProbe, StoreUntouched, storeVars
      <4> QED
        BY <4>1, SettleSends
    <3>2. CASE Miss(k) \/ ProbeAgain(k)
      BY <3>2 DEF Miss, ProbeAgain, Leaves
    <3> QED
      BY <2>3, <3>1, <3>2 DEF JobStep, ProbeReturns, Wake
  <2>4. ASSUME NEW i \in Requests, RequestSteps(i) PROVE FALSE
    <3>1. PICK new : /\ requests' = [requests EXCEPT ![i] = new]
                     /\ requests[i].phase \in {"open", "answering"} \/ new = Done
      BY <2>1, <2>4 DEF RequestSteps, HangUp, Headers, Chunk, End, Abort, Become
    <3> QED
      BY <2>1, <3>1 DEF Leaves, Done
  <2>5. CASE Administer
    <3>1. \/ requests'[r] = requests[r]
          \/ requests[r].phase = "held" /\ requests'[r] = [requests[r] EXCEPT !.promised = TRUE]
      BY <2>5 DEF Administer, Switch, SaveRules, ResetPins, serverVars
    <3>2. requests[r].phase = "held" => "phase" \in DOMAIN requests[r]
      BY DEF TurnInv, RequestsOK, RequestOK, RequestType, New, Done
    <3>3. requests'[r].phase = requests[r].phase
      BY <3>1, <3>2
    <3> QED
      BY <3>3 DEF Leaves
  <2>6. CASE Restart
    BY <2>6 DEF Restart, Leaves, New, Done
  <2>7. CASE UNCHANGED requests
    BY <2>7 DEF Leaves
  <2> QED
    BY <2>2, <2>3, <2>4, <2>5, <2>6, <2>7
      DEF Next, Close, Persist, Scheduler, Tick, vars, serverVars
<1> QED
  BY <1>1, TurnInvariant, PTL DEF Spec, SentWithLivePin, Leaves, Equipped, LivePinTaken
=============================================================================
