------------------------- MODULE StoreCalls_proofs -------------------------
(***************************************************************************)
(* What the store promises its callers, for every number of calls in       *)
(* flight, every set of rules, values and clients, and no bound on time or *)
(* on administrative changes.                                              *)
(*                                                                         *)
(* PinsObeyRules is not inductive: a restart brings back what states.json  *)
(* holds, and a late call what its context says.  Inv adds that the file   *)
(* only holds lawful pins and that every open call's context was attached  *)
(* to its model and scope when it was made.                                *)
(***************************************************************************)
EXTENDS StoreCalls, StateStore_proofs

Inv ==
  /\ StoreInv
  /\ calls \in [Calls -> CallType]
  /\ \A c \in Calls : calls[c].open => Attached(calls[c].ctx)

-----------------------------------------------------------------------------
(* An open call has a context and a place for a pin. *)
LEMMA OpenCall ==
  ASSUME Inv, NEW c \in Calls, calls[c].open
  PROVE  Attached(calls[c].ctx) /\ calls[c].ctx \in Contexts
BY DEF Inv, Attached

(* Before anything is called. *)
LEMMA InitHolds == Init => Inv
<1> SUFFICES ASSUME Init PROVE Inv
  OBVIOUS
<1>1. StoreInv
  BY InitInv DEF Init
<1>2. calls \in [Calls -> CallType]
  BY DEF Init, CallType
<1>3. \A c \in Calls : ~calls[c].open
  BY DEF Init, Idle
<1> QED
  BY <1>1, <1>2, <1>3 DEF Inv

(* A call that has returned keeps nothing. *)
LEMMA ReturnKeeps ==
  ASSUME Inv, NEW c \in Calls, Return(c)
  PROVE  /\ calls' \in [Calls -> CallType]
         /\ \A d \in Calls : calls'[d].open => Attached(calls'[d].ctx)
<1>1. calls' \in [Calls -> CallType]
  BY DEF Inv, Return, CallType
<1>2. ASSUME NEW d \in Calls, calls'[d].open
      PROVE  Attached(calls'[d].ctx)
  <2>1. calls'[d] = IF d = c THEN Done ELSE calls[d]
    BY DEF Inv, Return
  <2> QED
    BY <1>2, <2>1 DEF Inv, Done
<1> QED
  BY <1>1, <1>2

(* A new call: its context is made of the rules in force. *)
LEMMA BeginKeeps ==
  ASSUME Inv, NEW c \in Calls, Begin(c)
  PROVE  Inv'
<1>1. StoreInv'
  BY QuietInv DEF Inv, Begin
<1>2. PICK m \in Models, caller \in Callers : \E u \in {0, LivePin(Context(m, caller))} :
        calls' = [calls EXCEPT ![c] =
          [open |-> TRUE, done |-> FALSE, ctx |-> Context(m, caller), used |-> u,
           usedState |-> IF u = 0 THEN None ELSE Pin(Context(m, caller).id).state]]
  BY DEF Begin
<1>3. PICK used \in {0, LivePin(Context(m, caller))} :
        calls' = [calls EXCEPT ![c] =
          [open |-> TRUE, done |-> FALSE, ctx |-> Context(m, caller), used |-> used,
           usedState |-> IF used = 0 THEN None ELSE Pin(Context(m, caller).id).state]]
  BY <1>2
<1> DEFINE ctx == Context(m, caller)
           usedState == IF used = 0 THEN None ELSE Pin(ctx.id).state
<1>4. Attached(ctx) /\ ctx \in Contexts
  BY ContextAttached DEF Inv, StoreInv, Attached
<1>5. used \in Nat /\ usedState \in Values \cup {None}
  <2>1. CASE used = 0
    BY <2>1
  <2>2. CASE used # 0
    <3>1. used = pins[ctx.id] /\ ctx.id \in Ids
      BY <1>4, <2>2 DEF LivePin, Live, Qualified, Bound, Contexts
    <3>2. pins[ctx.id] \in Nat /\ Pin(ctx.id) \in PinType
      BY <2>2, <3>1, StoredPin, StoreTypeIsPinsOK DEF Inv, StoreInv, PinsOK
    <3> QED
      BY <2>2, <3>1, <3>2 DEF PinType
  <2> QED
    BY <2>1, <2>2
<1> HIDE DEF ctx, usedState
<1>6. calls' = [calls EXCEPT ![c] =
        [open |-> TRUE, done |-> FALSE, ctx |-> ctx, used |-> used, usedState |-> usedState]]
  BY <1>3 DEF ctx, usedState
<1>7. calls' \in [Calls -> CallType]
  BY <1>4, <1>5, <1>6 DEF Inv, CallType
<1>8. ASSUME NEW d \in Calls, calls'[d].open
      PROVE  Attached(calls'[d].ctx)
  BY <1>4, <1>6, <1>8 DEF Inv
<1> QED
  BY <1>1, <1>7, <1>8 DEF Inv, Attached, Contexts

(* The invariant of every call's step. *)
LEMMA CallKeeps ==
  ASSUME Inv, NEW c \in Calls, Invalidate(c) \/ Capture(c) \/ Adopt(c)
  PROVE  Inv'
<1>1. StoreInv /\ calls[c].open
  BY DEF Inv, Invalidate, Capture, Adopt
<1>2. Attached(calls[c].ctx)
  BY <1>1, OpenCall
<1>3. StoreInv'
  <2>1. CASE Invalidate(c)
    BY <2>1, <1>1, <1>2, InvalidateInv DEF Invalidate
  <2>2. CASE Capture(c)
    BY <2>2, <1>1, <1>2, CaptureInv DEF Capture
  <2>3. CASE Adopt(c)
    BY <2>3, <1>1, <1>2, AdoptInv DEF Adopt
  <2> QED
    BY <2>1, <2>2, <2>3
<1>4. /\ calls' \in [Calls -> CallType]
      /\ \A d \in Calls : calls'[d].open => Attached(calls'[d].ctx)
  <2>1. CASE UNCHANGED calls
    BY <2>1 DEF Inv
  <2>2. CASE Return(c)
    BY <2>2, ReturnKeeps
  <2> QED
    BY <2>1, <2>2 DEF Invalidate, Capture, Adopt
<1> QED
  BY <1>3, <1>4 DEF Inv, Attached, Contexts

(* The invariant of the administrator's steps. *)
LEMMA AdministerKeeps ==
  ASSUME Inv, Administer
  PROVE  Inv'
<1>1. StoreInv
  BY DEF Inv
<1>2. StoreInv'
  <2>1. ASSUME NEW new \in [Models -> Rules \cup {None}], Configure(new)
        PROVE  StoreInv'
    BY <1>1, <2>1, ConfigureInv
  <2>2. ASSUME NEW m \in Models, RefreshModel(m)
        PROVE  StoreInv'
    <3>1. {id \in BoundIds : id.model = m} \in SUBSET BoundIds
      OBVIOUS
    <3> QED
      BY <1>1, <2>2, <3>1, RefreshInv DEF RefreshModel
  <2>3. ASSUME NEW id \in Ids, RefreshBinding(id)
        PROVE  StoreInv'
    <3>1. {id} \in SUBSET BoundIds
      BY <2>3 DEF RefreshBinding, Bound, BoundIds
    <3> QED
      BY <1>1, <2>3, <3>1, RefreshInv DEF RefreshBinding
  <2>4. ASSUME NEW id \in Ids, NEW v \in Values, Manual(id, v)
        PROVE  StoreInv'
    BY <1>1, <2>4, ManualInv
  <2> QED
    BY <2>1, <2>2, <2>3, <2>4 DEF Administer
<1>3. UNCHANGED calls
  BY DEF Administer
<1> QED
  BY <1>2, <1>3 DEF Inv, Attached, Contexts

(* A crash ends every call. *)
LEMMA RestartKeeps ==
  ASSUME Inv, Restart
  PROVE  Inv'
<1>1. StoreInv'
  BY LoadInv DEF Inv, Restart
<1>2. calls' = [c \in Calls |-> IF calls[c].open THEN Done ELSE calls[c]]
  BY DEF Restart
<1>3. calls' \in [Calls -> CallType]
  BY <1>2 DEF Inv, CallType
<1>4. \A c \in Calls : ~calls'[c].open
  BY <1>2 DEF Done
<1> QED
  BY <1>1, <1>3, <1>4 DEF Inv

(* Inv is an inductive invariant of the store's most general client. *)
LEMMA StepKeeps == Inv /\ [Next]_vars => Inv'
<1> SUFFICES ASSUME Inv, [Next]_vars PROVE Inv'
  OBVIOUS
<1>1. ASSUME NEW c \in Calls, Begin(c) PROVE Inv'
  BY <1>1, BeginKeeps
<1>2. ASSUME NEW c \in Calls, Invalidate(c) \/ Capture(c) \/ Adopt(c) PROVE Inv'
  BY <1>2, CallKeeps
<1>3. CASE Administer
  BY <1>3, AdministerKeeps
<1>4. CASE Restart
  BY <1>4, RestartKeeps
<1>5. CASE Persist \/ Tick \/ UNCHANGED vars
  <2>1. StoreInv'
    BY <1>5, QuietInv DEF Inv, Persist, Tick, vars
  <2>2. UNCHANGED calls
    BY <1>5 DEF Persist, Tick, vars
  <2> QED
    BY <2>1, <2>2 DEF Inv, Attached, Contexts
<1> QED
  BY <1>1, <1>2, <1>3, <1>4, <1>5 DEF Next

(* Inv holds in every reachable state. *)
LEMMA Invariance == Spec => []Inv
BY InitHolds, StepKeeps, PTL DEF Spec

-----------------------------------------------------------------------------
(* The store's maps and the calls in flight are well typed, whatever order *)
(* requests, probes, administrators, writes and restarts come in.          *)
THEOREM TypesHold == Spec => []TypeOK
<1>1. Inv => TypeOK
  BY DEF Inv, StoreInv, TypeOK
<1> QED
  BY <1>1, Invariance, PTL

(* No interleaving of late captures, probes, lifetime edits, scope merges, *)
(* manual values, revocations and restarts ever leaves a stored pin that   *)
(* disagrees with the rule in force or outlives what that rule grants.     *)
THEOREM StoredPinsObeyRules == Spec => []PinsObeyRules
<1>1. Inv => PinsObeyRules
  BY DEF Inv, StoreInv
<1> QED
  BY <1>1, Invariance, PTL

-----------------------------------------------------------------------------
(* What a late response may not do *)

(* The three things a captured response can do to the store. *)
LEMMA CaptureCases ==
  ASSUME Inv, NEW c \in Calls, Capture(c)
  PROVE  LET ctx == calls[c].ctx
             used == calls[c].used
         IN  \/ \E v \in Values :
                  /\ CanAdopt(ctx, v) /\ (used = 0 \/ pins[ctx.id] = used)
                  /\ ~(Bound(ctx.id) /\ Pin(ctx.id).state = v) /\ ~Live(ctx)
                  /\ Insert(ctx, v)
             \/ /\ Bound(ctx.id) /\ (used = 0 \/ pins[ctx.id] = used)
                /\ Reaccept(ctx.id)
             \/ UNCHANGED <<objects, pins>>
<1>1. PICK v \in Values : CaptureAutomatic(calls[c].ctx, v, calls[c].used)
  BY DEF Capture
<1> QED
  BY <1>1 DEF CaptureAutomatic, Untouched

(* What Insert and Reaccept leave of every binding. *)
LEMMA InsertEffect ==
  ASSUME Inv, NEW c \in Calls, calls[c].open, NEW v \in Values,
         CanAdopt(calls[c].ctx, v), Insert(calls[c].ctx, v), NEW id \in Ids
  PROVE  /\ id = calls[c].ctx.id => Pin(id)'.state = v
         /\ id # calls[c].ctx.id =>
              /\ objects'[id] = objects[id] /\ pins'[id] \in {0, pins[id]}
              /\ ~Full \/ pins[calls[c].ctx.id] # 0 => pins'[id] = pins[id]
<1> DEFINE ctx == calls[c].ctx
<1>1. Attached(ctx) /\ PinsOK /\ ctx.id \in Ids
  <2>1. Attached(ctx)
    BY OpenCall
  <2> QED
    BY <2>1, StoreTypeIsPinsOK DEF Attached, Contexts, CanAdopt, Inv, StoreInv
<1> HIDE DEF ctx
<1>2. PICK old \in Evicted(ctx.id) :
        pins' = [i \in Ids |-> IF i = ctx.id THEN Len(objects[i]) + 1
                               ELSE IF i = old THEN 0 ELSE pins[i]]
  BY DEF Insert, ctx
<1>3. objects' = [objects EXCEPT ![ctx.id] = Append(@, NewPin(ctx, v))]
  BY DEF Insert, ctx
<1>4. CASE id = ctx.id
  <2>1. objects[id] \in Seq(PinType) /\ NewPin(ctx, v) \in PinType
    <3>1. NewPin(ctx, v) \in PinType
      BY <1>1, NewPinLawful DEF Inv, StoreInv, ctx
    <3> QED
      BY <1>1, <3>1 DEF PinsOK
  <2>2. objects'[id] = Append(objects[id], NewPin(ctx, v)) /\ pins'[id] = Len(objects[id]) + 1
    BY <1>1, <1>2, <1>3, <1>4 DEF PinsOK
  <2>3. Pin(id)' = NewPin(ctx, v)
    BY <2>1, <2>2, AppendProperties DEF Pin
  <2>4. Pin(id)'.state = v
    BY <2>3 DEF NewPin
  <2> QED
    BY <1>4, <2>4 DEF ctx
<1>5. CASE id # ctx.id
  <2>1. objects'[id] = objects[id] /\ pins'[id] \in {0, pins[id]}
    BY <1>1, <1>2, <1>3, <1>5 DEF PinsOK
  <2>2. ASSUME ~Full \/ pins[ctx.id] # 0
        PROVE  pins'[id] = pins[id]
    <3>1. old = None
      BY <1>2, <2>2 DEF Evicted
    <3> QED
      BY <1>2, <1>5, <3>1, IdFields
  <2> QED
    BY <1>5, <2>1, <2>2 DEF ctx
<1> QED
  BY <1>4, <1>5

(* One capture, any binding: the same value afterwards, the same deadline. *)
LEMMA CaptureKeepsDeadline ==
  ASSUME Inv, NEW c \in Calls
  PROVE  KeepsDeadline(c)
<1> SUFFICES ASSUME Capture(c), NEW id \in Ids, Bound(id), pins'[id] # 0,
                    Pin(id)'.state = Pin(id).state
             PROVE  Pin(id)'.expiresAt = Pin(id).expiresAt
  BY DEF KeepsDeadline
<1> DEFINE ctx == calls[c].ctx
<1>1. calls[c].open
  BY DEF Capture
<1>2. ASSUME NEW v \in Values, CanAdopt(ctx, v), Insert(ctx, v),
             ~(Bound(ctx.id) /\ Pin(ctx.id).state = v)
      PROVE  Pin(id)'.expiresAt = Pin(id).expiresAt
  <2>1. id # ctx.id
    BY <1>1, <1>2, InsertEffect
  <2>2. objects'[id] = objects[id] /\ pins'[id] = pins[id]
    BY <1>1, <1>2, <2>1, InsertEffect DEF Bound
  <2> QED
    BY <2>2 DEF Pin
<1>3. ASSUME Bound(ctx.id), Reaccept(ctx.id)
      PROVE  Pin(id)'.expiresAt = Pin(id).expiresAt
  <2>1. ctx.id \in Ids
    BY <1>1, <1>3, OpenCall DEF Contexts, Bound
  <2> QED
    BY <1>3, <2>1, ReacceptEffect DEF Inv
<1>4. CASE UNCHANGED <<objects, pins>>
  BY <1>4 DEF Pin
<1> QED
  BY <1>2, <1>3, <1>4, CaptureCases

(* An ordinary response never gives a value it already holds more time. *)
THEOREM DeadlinesStay == Spec => SameValueKeepsDeadline
<1>1. Inv => \A c \in Calls : KeepsDeadline(c)
  BY CaptureKeepsDeadline
<1> QED
  BY <1>1, Invariance, PTL DEF SameValueKeepsDeadline

(* One return of a call whose pin was replaced. *)
LEMMA CallKeepsNewer ==
  ASSUME Inv, NEW c \in Calls
  PROVE  KeepsNewer(c)
<1> SUFFICES ASSUME calls[c].open, Capture(c) \/ Invalidate(c), calls[c].used # 0,
                    pins[calls[c].ctx.id] # calls[c].used
             PROVE  UNCHANGED <<objects, pins>>
  BY DEF KeepsNewer
<1>1. CASE Capture(c)
  BY <1>1, CaptureCases
<1>2. CASE Invalidate(c)
  BY <1>2 DEF Invalidate, InvalidateUsedPin, MayInvalidate, Untouched
<1> QED
  BY <1>1, <1>2

(* A response to a request sent with a pin that is no longer the stored    *)
(* one changes nothing: === in canAdopt's callers is enough, in any order. *)
THEOREM NewerPinsStay == Spec => LateCallsKeepNewer
<1>1. Inv => \A c \in Calls : KeepsNewer(c)
  BY CallKeepsNewer
<1> QED
  BY <1>1, Invariance, PTL DEF LateCallsKeepNewer

(* One capture, any live pin. *)
LEMMA CaptureKeepsLive ==
  ASSUME Inv, NEW c \in Calls, Capture(c), NEW id \in Ids, Qualified(id),
         Pin(id).expiresAt > now + Margin, ~Full \/ Bound(calls[c].ctx.id)
  PROVE  pins'[id] = pins[id] /\ Pin(id)'.state = Pin(id).state
<1> DEFINE ctx == calls[c].ctx
<1>1. calls[c].open /\ Attached(ctx) /\ Bound(id)
  BY OpenCall DEF Capture, Qualified
<1>2. ASSUME NEW v \in Values, CanAdopt(ctx, v), Insert(ctx, v), ~Live(ctx)
      PROVE  pins'[id] = pins[id] /\ Pin(id)'.state = Pin(id).state
  <2>1. id # ctx.id
    <3>1. ASSUME id = ctx.id PROVE Live(ctx)
      <4>1. Pin(id).rule = rules[id.model] /\ id.model = ctx.model /\ Unchanged(ctx)
        BY <1>1, <1>2, <3>1, IdFields DEF Inv, StoreInv, PinsObeyRules, Attached, CanAdopt
      <4> QED
        BY <3>1, <4>1 DEF Live, Unchanged
    <3> QED
      BY <1>2, <3>1
  <2>2. objects'[id] = objects[id] /\ pins'[id] = pins[id]
    BY <1>1, <1>2, <2>1, InsertEffect DEF Bound
  <2> QED
    BY <2>2 DEF Pin
<1>3. ASSUME Bound(ctx.id), Reaccept(ctx.id)
      PROVE  pins'[id] = pins[id] /\ Pin(id)'.state = Pin(id).state
  <2>1. ctx.id \in Ids
    BY <1>1, <1>3 DEF Attached, Contexts, Bound
  <2> QED
    BY <1>1, <1>3, <2>1, ReacceptEffect DEF Inv
<1>4. CASE UNCHANGED <<objects, pins>>
  BY <1>4 DEF Pin
<1> QED
  BY <1>2, <1>3, <1>4, CaptureCases

(* One probe, a live pin of another binding. *)
LEMMA AdoptKeepsLive ==
  ASSUME Inv, NEW c \in Calls, Adopt(c), NEW id \in Ids, id # calls[c].ctx.id,
         ~Full \/ Bound(calls[c].ctx.id)
  PROVE  pins'[id] = pins[id] /\ Pin(id)'.state = Pin(id).state
<1> DEFINE ctx == calls[c].ctx
<1>1. PICK v \in Values : CanAdopt(ctx, v) /\ Insert(ctx, v)
  BY DEF Adopt, AdoptProbe
<1>2. objects'[id] = objects[id] /\ pins'[id] = pins[id]
  BY <1>1, InsertEffect DEF Adopt, Bound
<1> QED
  BY <1>2 DEF Pin

(* Only a probe, an administrator, a rejection, the clock, or a full store *)
(* that has to make room for another binding ends a live pin.              *)
THEOREM LivePinsStay == Spec => LivePinSurvivesCalls
<1>1. Inv => \A c \in Calls : KeepsLive(c)
  BY CaptureKeepsLive, AdoptKeepsLive DEF KeepsLive
<1> QED
  BY <1>1, Invariance, PTL DEF LivePinSurvivesCalls
=============================================================================
