---------------------------- MODULE AutomaticGate ----------------------------
(***************************************************************************)
(* The automatic gate of lib/automatic.mjs: it holds a request while no    *)
(* live pin exists, runs one probing job per binding, and renews pins      *)
(* before they expire with routing credentials it remembers in memory.     *)
(*                                                                         *)
(* Node runs one handler at a time, from one await to the next.  An action *)
(* below is such a stretch.  When a job settles, its bookkeeping and every *)
(* request waiting on it run in one chain of microtasks, so that a job's   *)
(* end and the answers to its waiters are one step (the waiters are the    *)
(* requests of module TurnState).                                          *)
(***************************************************************************)
EXTENDS StateStore

CONSTANTS
  Routable,      \* callers whose identity headers survive identity()
  MaxJobs,       \* probing jobs at once (2)
  MaxWaiters,    \* held requests at once (8)
  MaxHeldBytes,  \* bytes of held request bodies (64 MiB)
  MaxRenewals,   \* remembered routing identities (128)
  MaxLead,       \* longest head start of a renewal (10 minutes), in ticks
  CooldownTime   \* shortest pause after a failed job (60 s), in ticks

ASSUME GateAssumption ==
  /\ Routable \subseteq Callers
  /\ MaxJobs \in Nat \ {0} /\ MaxWaiters \in Nat /\ MaxHeldBytes \in Nat
  /\ MaxRenewals \in Nat \ {0} /\ MaxLead \in Nat /\ CooldownTime \in Nat

VARIABLES
  mode,        \* the one switch, "auto" or "off" (server.mjs; isEnabled())
  jobs,        \* job key -> job
  renewals,    \* binding id -> remembered routing identity
  cooldowns,   \* job key and client (None: everyone) -> reason and end
  generation,  \* bumped by every cancel()
  waiters,     \* the gate's own count of held requests
  heldBytes,   \* and of the bytes they hold
  closed       \* close() was called

gateVars == <<jobs, renewals, cooldowns, generation, waiters, heldBytes, closed>>

ReleaseReasons == {"disabled", "model_disabled", "model_removed"}
CancelReasons == ReleaseReasons \cup
  {"client_disconnected", "configuration_changed", "service_stopped", "binding_changed"}

Drop(f, keys) == [k \in DOMAIN f \ keys |-> f[k]]
Put(f, k, v) == [x \in DOMAIN f \cup {k} |-> IF x = k THEN v ELSE f[x]]

GateEnabled(m) == ~closed /\ mode = "auto" /\ Enabled(rules[m]) /\ rules[m].pinned # {}

Current(ctx) == GateEnabled(ctx.model) /\ Unchanged(ctx)

Key(ctx) == [id |-> ctx.id, epoch |-> ctx.epoch, rule |-> ctx.rule, gen |-> generation]

Lead(p) == LET third == (p.expiresAt - p.capturedAt) \div 3
           IN  IF third < MaxLead THEN third ELSE MaxLead

(* A revoked pin has expiresAt 0 and an unset lead; it is not renewed.     *)
RenewalDue(id) == now + Lead(Pin(id)) >= Pin(id).expiresAt

-----------------------------------------------------------------------------
(* Remembered routing identities *)

(* Mutant of MayRemember: a cache hit is as good as a success. *)
MayRememberUnconfirmed(ctx, caller, slots, confirmed) ==
  /\ Current(ctx) /\ Live(ctx)
  /\ ctx.id \in DOMAIN slots => slots[ctx.id].ctx.client = ctx.client
  /\ caller \in Routable

(* remember(): whether the slot of ctx's binding is written, slots being    *)
(* the map at that moment.  A model-wide slot needs a confirmed success    *)
(* and is not taken over from another client.                              *)
MayRemember(ctx, caller, slots, confirmed) ==
  /\ Current(ctx) /\ Live(ctx)
  /\ ctx.scope = "model" =>
       /\ confirmed
       /\ ctx.id \in DOMAIN slots => slots[ctx.id].ctx.client = ctx.client
  /\ caller \in Routable

(* The slot moves to the end of the Map; a full Map forgets another one.   *)
Remembered(slots, ctx, caller, retryAt) ==
  LET all == Put(slots, ctx.id, [ctx |-> ctx, caller |-> caller, retryAt |-> retryAt])
  IN  IF Cardinality(DOMAIN all) <= MaxRenewals THEN {all}
      ELSE {Drop(all, {old}) : old \in DOMAIN all \ {ctx.id}}

RetryAt(slots, id) == IF id \in DOMAIN slots THEN slots[id].retryAt ELSE 0

(* It may follow a capture in the same handler, hence the prime.           *)
Remember(ctx, caller, confirmed) ==
  \E c \in {ctx}, who \in {caller}, slots \in {renewals} :
    \/ /\ MayRemember(c, who, slots, confirmed)'
       /\ renewals' \in Remembered(slots, c, who, RetryAt(slots, c.id))
    \/ ~MayRemember(c, who, slots, confirmed)' /\ UNCHANGED renewals

-----------------------------------------------------------------------------
(* Jobs *)

NewJob(ctx, caller, background) ==
  LET base == IF Bound(ctx.id) THEN pins[ctx.id] ELSE 0
  IN  [ctx |-> ctx, caller |-> caller, background |-> background, base |-> base,
       baseExpiresAt |-> IF base = 0 THEN None ELSE Pin(ctx.id).expiresAt,
       basePending |-> IF base = 0 THEN None ELSE Pin(ctx.id).pending,
       phase |-> "probing", aborted |-> FALSE, reason |-> None, waiters |-> 0]

(* Only a job that is not aborted yet takes the reason.                    *)
Aborted(job, reason) ==
  IF job.aborted THEN job ELSE [job EXCEPT !.aborted = TRUE, !.reason = reason]

(* What run() finds when it compares the stored pin with the one the job   *)
(* started from: "same", a usable replacement, or another binding.         *)
Replacement(job) ==
  LET id == job.ctx.id
      stored == IF Bound(id) THEN pins[id] ELSE 0
  IN  IF stored # job.base THEN IF Live(job.ctx) THEN "reused" ELSE "binding_changed"
      ELSE IF stored # 0 /\ (\/ Pin(id).expiresAt # job.baseExpiresAt
                             \/ Pin(id).pending # job.basePending) THEN "binding_changed"
      ELSE "same"

JobCurrent(k) == Current(jobs[k].ctx) /\ k.gen = generation

StopReason(job, otherwise) == IF job.reason = None THEN otherwise ELSE job.reason

(* Mutant of Verdict: only the pin is compared; an abort goes unnoticed. *)
VerdictWithoutAbort(k) ==
  IF Replacement(jobs[k]) # "same" THEN Replacement(jobs[k]) ELSE None

(* The checks run() makes before a probe and again after it: None to go on,*)
(* otherwise the result the job settles with.                              *)
Verdict(k) ==
  LET job == jobs[k]
  IN  IF job.aborted THEN StopReason(job, "cancelled")
      ELSE IF ~JobCurrent(k) THEN StopReason(job, "configuration_changed")
      ELSE IF Replacement(job) # "same" THEN Replacement(job)
      ELSE None

Succeeded(result) == result \in {"found", "reused"}

(* Rejected credentials of a shared binding keep only their owner waiting. *)
CooldownKey(k, result) ==
  [key |-> k, client |-> IF jobs[k].ctx.scope = "model" /\ result \in AuthReasons
                         THEN jobs[k].ctx.client ELSE None]

(* The bookkeeping of a settled job (launch(): then, finally).  It runs    *)
(* after the store took the job's value, if any, hence the primes; job and *)
(* slots are what the job and the slots were before.                       *)
(* pause: the longer of the fixed cooldown and the upstream's Retry-After. *)
(* Left out: of more than 512 cooldowns the oldest are forgotten.          *)
Settled(k, result, pause) ==
  \E job \in {jobs[k]}, slots \in {renewals} :
    LET id == job.ctx.id
        success == Succeeded(result) /\ k.gen = generation /\ Current(job.ctx)
        failure == ~Succeeded(result) /\ result \notin CancelReasons /\ k.gen = generation
        fresh == id \notin DOMAIN slots /\ MayRemember(job.ctx, job.caller, slots, TRUE)'
        pausedSlots == IF id \in DOMAIN slots
                       THEN [slots EXCEPT ![id].retryAt = now + pause] ELSE slots
    IN  /\ jobs' = Drop(jobs, {k})
        /\ \/ /\ success
              /\ renewals' \in IF fresh THEN Remembered(slots, job.ctx, job.caller, 0)
                   ELSE {[i \in DOMAIN slots |-> IF i = id THEN [slots[i] EXCEPT !.retryAt = 0]
                                                 ELSE slots[i]]}
              /\ cooldowns' = Drop(cooldowns, {[key |-> k, client |-> None]})
           \/ /\ failure
              /\ cooldowns' = Put(cooldowns, CooldownKey(k, result),
                                  [reason |-> result, until |-> now + pause])
              /\ renewals' = IF result \in AuthReasons THEN Drop(slots, {id}) ELSE pausedSlots
           \/ ~success /\ ~failure /\ UNCHANGED <<renewals, cooldowns>>

-----------------------------------------------------------------------------
(* Holding and letting go of a request *)

(* The caller's own cooldown is looked up before the binding's, and hides   *)
(* it as long as its entry exists, ended or not.                           *)
CooldownEntry(ctx) ==
  LET own == [key |-> Key(ctx), client |-> ctx.client]
  IN  IF own \in DOMAIN cooldowns THEN own ELSE [key |-> Key(ctx), client |-> None]

CoolingDown(ctx) ==
  CooldownEntry(ctx) \in DOMAIN cooldowns /\ cooldowns[CooldownEntry(ctx)].until > now

(* How ensure() answers before it waits: a refusal, or None to wait.       *)
Refusal(ctx, caller, bytes) ==
  IF ctx.id = None THEN "missing_binding"
  ELSE IF CoolingDown(ctx) THEN cooldowns[CooldownEntry(ctx)].reason
  ELSE IF waiters >= MaxWaiters \/ heldBytes + bytes > MaxHeldBytes THEN "waiting_capacity"
  ELSE IF Key(ctx) \in DOMAIN jobs THEN None
  ELSE IF Cardinality(DOMAIN jobs) >= MaxJobs THEN "probe_capacity"
  ELSE IF caller \notin Routable THEN "routing_identity_unavailable"
  ELSE None

(* Join the job of the binding, or launch one. *)
Wait(ctx, caller, bytes) ==
  LET job == IF Key(ctx) \in DOMAIN jobs THEN jobs[Key(ctx)] ELSE NewJob(ctx, caller, FALSE)
  IN  /\ jobs' = Put(jobs, Key(ctx), [job EXCEPT !.waiters = @ + 1])
      /\ waiters' = waiters + 1
      /\ heldBytes' = heldBytes + bytes

(* Mutant of Leave: the bytes of a request that left stay counted. *)
LeaveBytesBehind(k, bytes) ==
  /\ waiters' = waiters - 1
  /\ jobs' = [jobs EXCEPT ![k].waiters = @ - 1]
  /\ UNCHANGED heldBytes

(* The client of a held request goes away; the last one of a job that is   *)
(* not a renewal takes the job with it, unconditionally.                   *)
Leave(k, bytes) ==
  LET left == [jobs[k] EXCEPT !.waiters = @ - 1]
  IN  /\ waiters' = waiters - 1
      /\ heldBytes' = heldBytes - bytes
      /\ jobs' = [jobs EXCEPT ![k] =
           IF left.waiters = 0 /\ ~left.background
           THEN [left EXCEPT !.aborted = TRUE, !.reason = "client_disconnected"] ELSE left]

-----------------------------------------------------------------------------
(* Cancelling *)

(* Mutant of Cancel: the jobs are not aborted. *)
CancelWithoutAbort(reason) ==
  /\ generation' = generation + 1
  /\ renewals' = <<>> /\ cooldowns' = <<>>
  /\ UNCHANGED <<jobs, waiters, heldBytes>>

Cancel(reason) ==
  /\ generation' = generation + 1
  /\ jobs' = [k \in DOMAIN jobs |-> Aborted(jobs[k], reason)]
  /\ renewals' = <<>>
  /\ IF reason \in {"disabled", "configuration_changed"} THEN cooldowns' = <<>>
     ELSE UNCHANGED cooldowns
  /\ UNCHANGED <<waiters, heldBytes>>

CancelReason(new, m) ==
  IF new[m] = None THEN "model_removed"
  ELSE IF ~new[m].enabled THEN "model_disabled" ELSE "configuration_changed"

NewContext(new, slot) ==
  LET m == slot.ctx.model
  IN  [id |-> BindingId(m, slot.caller, ScopeOf(new[m])), model |-> m,
       client |-> slot.ctx.client, scope |-> ScopeOf(new[m]),
       epoch |-> epochs[m] + 1, rule |-> new[m]]

(* Mutant of CancelModels: the slots of a changed model stay as they are. *)
CancelModelsKeepingSlots(new) ==
  \E changed \in {Changed(new)} :
    /\ jobs' = [k \in DOMAIN jobs |->
         IF k.id.model \in changed THEN Aborted(jobs[k], CancelReason(new, k.id.model)) ELSE jobs[k]]
    /\ UNCHANGED <<renewals, cooldowns, generation, waiters, heldBytes>>

Follows(i, changed, new, ctx) ==
  /\ i.model \in changed
  /\ CancelReason(new, i.model) = "configuration_changed"
  /\ Current(ctx) /\ Live(ctx)

MovedFrom(id, first, moved) == CHOOSE i \in first : moved[i].id = id

SlotsAfter(slots, kept, first, moved) ==
  [id \in kept \cup {moved[i].id : i \in first} |->
     IF id \in kept THEN slots[id]
     ELSE [slots[MovedFrom(id, first, moved)] EXCEPT !.ctx = moved[MovedFrom(id, first, moved)]]]

(* cancelModels() for every model configure() has just changed, hence the  *)
(* prime.  A slot follows its caller to the binding the new rule gives, if *)
(* a live pin survived there and no other slot got there first.            *)
CancelModels(new) ==
  /\ \E changed \in {Changed(new)}, slots \in {renewals},
        moved \in {[i \in DOMAIN renewals |-> NewContext(new, renewals[i])]} :
       LET kept == {i \in DOMAIN slots : i.model \notin changed}
           following == {i \in DOMAIN slots : Follows(i, changed, new, moved[i])'}
       IN  /\ jobs' = [k \in DOMAIN jobs |->
                IF k.id.model \in changed THEN Aborted(jobs[k], CancelReason(new, k.id.model))
                ELSE jobs[k]]
           /\ cooldowns' = Drop(cooldowns, {c \in DOMAIN cooldowns : c.key.id.model \in changed})
           /\ \E first \in SUBSET following :
                /\ \A i, j \in first : moved[i].id = moved[j].id => i = j
                /\ {moved[i].id : i \in first} = {moved[i].id : i \in following}
                /\ renewals' = SlotsAfter(slots, kept, first, moved)
  /\ UNCHANGED <<generation, waiters, heldBytes>>

-----------------------------------------------------------------------------
(* The scheduler's one-second tick: forget what can no longer be renewed,  *)
(* launch what is due while there is room.                                 *)
Renewable(id) == Current(renewals[id].ctx) /\ Qualified(id)

DueSlots ==
  {id \in DOMAIN renewals :
     /\ Renewable(id)
     /\ Key(renewals[id].ctx) \notin DOMAIN jobs
     /\ RenewalDue(id)
     /\ now >= renewals[id].retryAt}

(* Mutant of Room: one place is never used. *)
RoomLessOne ==
  LET running == Cardinality(DOMAIN jobs) + 1
  IN  IF running < MaxJobs THEN MaxJobs - running ELSE 0

Room ==
  LET running == Cardinality(DOMAIN jobs)
  IN  IF running < MaxJobs THEN MaxJobs - running ELSE 0

SchedulerTick ==
  /\ ~closed /\ mode = "auto"
  /\ renewals' = Drop(renewals, {id \in DOMAIN renewals : ~Renewable(id)})
  /\ \E launched \in SUBSET DueSlots :
       LET slotOf(k) == renewals[k.id]
           keys == {Key(renewals[id].ctx) : id \in launched}
       IN  /\ Cardinality(launched) <= Room
           /\ launched # DueSlots => Cardinality(launched) = Room
           /\ jobs' = [k \in DOMAIN jobs \cup keys |->
                IF k \in DOMAIN jobs THEN jobs[k]
                ELSE NewJob(slotOf(k).ctx, slotOf(k).caller, TRUE)]
  /\ UNCHANGED <<cooldowns, generation, waiters, heldBytes, closed>>

GateInit ==
  /\ jobs = <<>> /\ renewals = <<>> /\ cooldowns = <<>>
  /\ generation = 0 /\ waiters = 0 /\ heldBytes = 0 /\ closed = FALSE
=============================================================================
