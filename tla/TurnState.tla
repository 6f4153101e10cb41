------------------------------ MODULE TurnState ------------------------------
(***************************************************************************)
(* The extension as a whole: the requests that pass through the proxy of   *)
(* lib/server.mjs, the gate and the store they use, and the administrator  *)
(* who switches processing on and off, edits rules and resets pins.        *)
(*                                                                         *)
(* A request is held by the gate or not, dispatched to the upstream at     *)
(* most once, answered with headers, chunks and an end, and may lose its   *)
(* client or its upstream at any point.  Requests the proxy cannot inspect *)
(* (too large, encoded, busy, WebSocket) carry no model: they touch none   *)
(* of this state and are left out.                                         *)
(*                                                                         *)
(* A job that was aborted is still there until its probe has returned.     *)
(* The abort ends a sleep, a local probe and an open tunnel at once, but   *)
(* not the DNS lookup a pool probe begins with (proxy-tunnel.mjs), which   *)
(* has no limit of its own: that is how long an aborted job can linger.    *)
(***************************************************************************)
EXTENDS AutomaticGate

CONSTANTS
  Requests,       \* all requests ever made
  Sizes,          \* request body sizes
  Pauses,         \* how long a failed job may pause its binding, in ticks
  MaxTime,        \* bound on the clock
  MaxEpoch,       \* bound on administrative changes of a model's bindings
  MaxGeneration,  \* bound on global cancellations
  MaxBoots        \* bound on restarts

(* How a job may end, and what a refused request is told. *)
Results == CancelReasons \cup {"cancelled", "found", "reused", "http_401", "error"}
Refusals == Results \cup
  {"missing_binding", "waiting_capacity", "probe_capacity", "routing_identity_unavailable"}

ASSUME TurnStateAssumption ==
  /\ None \notin Refusals
  /\ None \notin PinType \cup [value : Values, since : Nat, until : Nat]
  /\ IsFiniteSet(Requests)
  /\ Sizes \subseteq Nat
  /\ Pauses \subseteq Nat /\ \A p \in Pauses : p >= CooldownTime
  /\ {MaxTime, MaxEpoch, MaxGeneration, MaxBoots} \subseteq Nat

VARIABLES
  modeRevision,  \* bumped by every switch
  requests,      \* request -> where it is
  boots,         \* restarts so far
  proven         \* history: for which model and client what ended well

serverVars == <<mode, modeRevision, requests, boots, proven>>
vars == <<storeVars, gateVars, serverVars>>

New == [phase |-> "new"]
Done == [phase |-> "done"]
Blocked(reason) == [phase |-> "blocked", reason |-> reason]

(* promised: history, the switch was turned off while the request waited.  *)
Held(ctx, caller, bytes) ==
  [phase |-> "held", ctx |-> ctx, caller |-> caller, bytes |-> bytes,
   key |-> Key(ctx), promised |-> FALSE]

(* auto: the request was taken under processing.  used: the pin object it  *)
(* was sent with, 0 for none; usedState: that pin's value at dispatch.     *)
Dispatched(ctx, caller, auto, used, usedState) ==
  [phase |-> "open", ctx |-> ctx, caller |-> caller, auto |-> auto,
   revision |-> modeRevision, used |-> used, usedState |-> usedState,
   status |-> None, raw |-> None, failed |-> FALSE]

Init ==
  /\ StoreInit /\ GateInit
  /\ mode \in {"auto", "off"}
  /\ modeRevision = 0 /\ boots = 0 /\ proven = {}
  /\ requests = [r \in Requests |-> New]

-----------------------------------------------------------------------------
(* A request arrives.  gated: a POST to one of the response routes, the    *)
(* only ones the gate holds.                                               *)
Become(r, req) == requests' = [requests EXCEPT ![r] = req]

StoreUntouched == UNCHANGED storeVars
ServerUntouched == UNCHANGED <<mode, modeRevision, boots, proven>>

(* by: "upstream", a probe or a complete response with the client's own    *)
(* credentials; "pin", the client's job ended because another response had *)
(* brought a live pin; "own", it was served from a binding of its own.     *)
Evidence == {"upstream", "pin", "own"}
Confirmed(ctx, by) == [model |-> ctx.model, client |-> ctx.client, by |-> by]

Pass(r, ctx, caller) ==
  /\ Become(r, Dispatched(ctx, caller, mode = "auto", 0, None))
  /\ UNCHANGED <<gateVars, proven>>

CacheHit(r, ctx, caller) ==
  /\ Become(r, Dispatched(ctx, caller, TRUE, LivePin(ctx), Pin(ctx.id).state))
  /\ UNCHANGED <<jobs, cooldowns, generation, waiters, heldBytes, closed>>
  /\ Remember(ctx, caller, FALSE)
  /\ proven' = IF ctx.scope = "model" THEN proven ELSE proven \cup {Confirmed(ctx, "own")}

Refuse(r, ctx, caller, bytes) ==
  /\ Refusal(ctx, caller, bytes) # None
  /\ Become(r, Blocked(Refusal(ctx, caller, bytes)))
  /\ UNCHANGED <<gateVars, proven>>

Hold(r, ctx, caller, bytes) ==
  /\ Refusal(ctx, caller, bytes) = None
  /\ Become(r, Held(ctx, caller, bytes))
  /\ Wait(ctx, caller, bytes)
  /\ UNCHANGED <<renewals, cooldowns, generation, closed, proven>>

Arrive(r) ==
  /\ requests[r] = New
  /\ StoreUntouched /\ UNCHANGED <<mode, modeRevision, boots>>
  /\ \E m \in Models, caller \in Callers, bytes \in Sizes, gated \in BOOLEAN :
       LET ctx == Context(m, caller)
           checked == gated /\ GateEnabled(m)
       IN  \/ ~checked /\ Pass(r, ctx, caller)
           \/ checked /\ Live(ctx) /\ CacheHit(r, ctx, caller)
           \/ checked /\ ~Live(ctx) /\ Refuse(r, ctx, caller, bytes)
           \/ checked /\ ~Live(ctx) /\ Hold(r, ctx, caller, bytes)

(* The client of a held request hangs up.                                  *)
HangUp(r) ==
  /\ requests[r].phase = "held"
  /\ Leave(requests[r].key, requests[r].bytes)
  /\ Become(r, Done)
  /\ StoreUntouched /\ ServerUntouched
  /\ UNCHANGED <<renewals, cooldowns, generation, closed>>

-----------------------------------------------------------------------------
(* A job ends, and with it the wait of its requests.                       *)

Waiting(k) == {r \in Requests : requests[r].phase = "held" /\ requests[r].key = k}

(* Byte by byte. *)
BytesOf(R) == Cardinality(UNION {{r} \X (1 .. requests[r].bytes) : r \in R})

(* What a waiting request gets when its job settles, after the store took  *)
(* the job's value.  A reason that releases takes precedence over success. *)
Settle(k, result, pause) ==
  /\ UNCHANGED <<generation, closed, mode, modeRevision, boots>>
  /\ Settled(k, result, pause)
  /\ \E job \in {jobs[k]}, held \in {Waiting(k)} :
       LET released == job.reason \in ReleaseReasons \/ mode # "auto"
           served == /\ Succeeded(result) /\ k.gen = generation
                     /\ GateEnabled(job.ctx.model) /\ Live(job.ctx)'
           answer(req) ==
             IF released THEN Dispatched(req.ctx, req.caller, FALSE, 0, None)
             ELSE IF served THEN Dispatched(req.ctx, req.caller, TRUE, LivePin(job.ctx)',
                                            Pin(job.ctx.id)'.state)
             ELSE Blocked(IF Succeeded(result) THEN "binding_changed" ELSE result)
       IN  requests' = [r \in Requests |-> IF r \in held THEN answer(requests[r])
                                          ELSE requests[r]]
  /\ waiters' = waiters - Cardinality(Waiting(k))
  /\ heldBytes' = heldBytes - BytesOf(Waiting(k))

(* A probe of job k is over: the store or the job has moved on meanwhile.  *)
GiveUp(k) ==
  /\ Verdict(k) # None
  /\ StoreUntouched
  /\ proven' = IF Succeeded(Verdict(k)) THEN proven \cup {Confirmed(jobs[k].ctx, "pin")}
               ELSE proven
  /\ Settle(k, Verdict(k), 0)

(* Mutant of Find: the value the job started from counts as a new one. *)
FindAgain(k) ==
  \E v \in jobs[k].ctx.rule.pinned :
    /\ Verdict(k) = None
    /\ AdoptProbe(jobs[k].ctx, v)
    /\ proven' = proven \cup {Confirmed(jobs[k].ctx, "upstream")}
    /\ Settle(k, "found", 0)

(* A value of a pinned length, and not the one the job started from.       *)
(* adoptProbe accepts it: its conditions are among those of the verdict.   *)
Find(k) ==
  \E v \in jobs[k].ctx.rule.pinned :
    /\ Verdict(k) = None
    /\ jobs[k].base # 0 => v # objects[jobs[k].ctx.id][jobs[k].base].state
    /\ AdoptProbe(jobs[k].ctx, v)
    /\ proven' = proven \cup {Confirmed(jobs[k].ctx, "upstream")}
    /\ Settle(k, "found", 0)

(* Another length, or the same value again: back off and try once more.    *)
Miss(k) ==
  /\ Verdict(k) = None
  /\ jobs' = [jobs EXCEPT ![k].phase = "sleeping"]
  /\ StoreUntouched /\ ServerUntouched
  /\ UNCHANGED <<renewals, cooldowns, generation, waiters, heldBytes, closed, requests>>

(* Rejected credentials, 429, 5xx, a timeout, a failed generation...       *)
Fail(k) ==
  \E result \in {"http_401", "error"}, pause \in Pauses :
    /\ Verdict(k) = None
    /\ StoreUntouched
    /\ UNCHANGED proven
    /\ Settle(k, result, pause)

ProbeReturns(k) ==
  /\ jobs[k].phase = "probing"
  /\ GiveUp(k) \/ Find(k) \/ Miss(k) \/ Fail(k)

ProbeAgain(k) ==
  /\ Verdict(k) = None
  /\ jobs' = [jobs EXCEPT ![k].phase = "probing"]
  /\ StoreUntouched /\ ServerUntouched
  /\ UNCHANGED <<renewals, cooldowns, generation, waiters, heldBytes, closed, requests>>

(* The backoff is over, or an abort cut it short.                          *)
Wake(k) == jobs[k].phase = "sleeping" /\ (GiveUp(k) \/ ProbeAgain(k))

-----------------------------------------------------------------------------
(* A dispatched request is answered. *)

(* Mutant of Processing: the switch is not looked at again. *)
ProcessingEverAfter(r) == requests[r].auto /\ Unchanged(requests[r].ctx)

(* The response is processed: the switch has not been touched since the    *)
(* request was dispatched, nor the rule or the bindings of its model.      *)
Processing(r) ==
  /\ requests[r].auto /\ mode = "auto"
  /\ requests[r].revision = modeRevision
  /\ Unchanged(requests[r].ctx)

Reject(r, reason) ==
  \/ /\ Processing(r) /\ requests[r].used # 0
     /\ InvalidateUsedPin(requests[r].ctx, requests[r].used, requests[r].usedState, reason)
  \/ ~(Processing(r) /\ requests[r].used # 0) /\ Untouched

RequestStep == UNCHANGED <<now, rules, epochs, saved, gateVars, mode, modeRevision, boots>>

(* Response headers.  raw: the single well-formed state header, if any.    *)
Headers(r) ==
  /\ requests[r].phase = "open"
  /\ \E status \in {"ok", "auth", "error"}, raw \in Values \cup {None} :
       /\ IF status = "auth" THEN Reject(r, "http_401") ELSE Untouched
       /\ requests' = [requests EXCEPT ![r] =
            [@ EXCEPT !.phase = "answering", !.status = status, !.raw = raw]]
  /\ RequestStep /\ UNCHANGED proven

(* A structured rejection of the state somewhere in the body.              *)
Chunk(r) ==
  /\ requests[r].phase = "answering" /\ requests[r].status # "auth"
  /\ Reject(r, "explicit_turn_state_error")
  /\ requests' = [requests EXCEPT ![r].failed = TRUE]
  /\ RequestStep /\ UNCHANGED proven

(* The end of the body; completed: a terminal event of a success was seen. *)
End(r) ==
  LET req == requests[r]
  IN  \E completed \in BOOLEAN :
        LET accepted == Processing(r) /\ req.status = "ok" /\ ~req.failed /\ completed
        IN  /\ req.phase = "answering"
            /\ Become(r, Done)
            /\ UNCHANGED <<now, rules, epochs, saved, mode, modeRevision, boots,
                           jobs, cooldowns, generation, waiters, heldBytes, closed>>
            /\ IF accepted /\ req.raw # None
               THEN CaptureAutomatic(req.ctx, req.raw, req.used) ELSE Untouched
            /\ IF accepted /\ req.ctx.scope = "model"
               THEN Remember(req.ctx, req.caller, TRUE) ELSE UNCHANGED renewals
            /\ proven' = IF accepted THEN proven \cup {Confirmed(req.ctx, "upstream")}
                         ELSE proven

(* The client or the upstream breaks off.                                  *)
Abort(r) ==
  /\ requests[r].phase \in {"open", "answering"}
  /\ Become(r, Done)
  /\ StoreUntouched /\ UNCHANGED gateVars /\ ServerUntouched

-----------------------------------------------------------------------------
(* The administrator, the scheduler, the clock, and restarts *)

Switch(v) ==
  /\ v # mode
  /\ mode' = v /\ modeRevision' = modeRevision + 1
  /\ Cancel(IF v = "off" THEN "disabled" ELSE "configuration_changed")
  /\ requests' = [r \in Requests |->
       IF requests[r].phase = "held" /\ v = "off" THEN [requests[r] EXCEPT !.promised = TRUE]
       ELSE requests[r]]
  /\ proven' = {}
  /\ StoreUntouched /\ UNCHANGED <<closed, boots>>

SaveRules(new) ==
  /\ UNCHANGED <<serverVars, closed>>
  /\ Configure(new)
  /\ CancelModels(new)

ResetPins ==
  /\ \/ \E m \in Models : RefreshModel(m)
     \/ \E id \in Ids : RefreshBinding(id)
     \/ \E id \in Ids, v \in Values : Manual(id, v)
  /\ Cancel("configuration_changed")
  /\ proven' = {}
  /\ UNCHANGED <<closed, mode, modeRevision, requests, boots>>

(* close(): the gate is cancelled; requests under way get a moment to end. *)
Close ==
  /\ ~closed /\ generation < MaxGeneration
  /\ closed' = TRUE
  /\ Cancel("service_stopped")
  /\ StoreUntouched /\ UNCHANGED <<mode, modeRevision, requests, boots>>
  /\ proven' = {}

(* The process ends, at once or after Close, and a new one starts: it has  *)
(* the switch, the rules and the pins on disk, and nothing else.           *)
Restart ==
  /\ boots < MaxBoots
  /\ Load
  /\ jobs' = <<>> /\ renewals' = <<>> /\ cooldowns' = <<>>
  /\ generation' = 0 /\ waiters' = 0 /\ heldBytes' = 0 /\ closed' = FALSE
  /\ modeRevision' = 0 /\ boots' = boots + 1 /\ proven' = {}
  /\ requests' = [r \in Requests |-> IF requests[r] = New THEN New ELSE Done]
  /\ UNCHANGED mode

Bounded ==
  /\ \A m \in Models : epochs'[m] <= MaxEpoch
  /\ generation' <= MaxGeneration

Administer ==
  /\ ~closed
  /\ \/ \E v \in {"auto", "off"} : Switch(v)
     \/ \E new \in [Models -> Rules \cup {None}] : new # rules /\ SaveRules(new)
     \/ ResetPins
  /\ Bounded

Persist == Flush /\ UNCHANGED <<gateVars, serverVars>>

Scheduler == SchedulerTick /\ StoreUntouched /\ UNCHANGED serverVars

Tick == now < MaxTime /\ Advance /\ UNCHANGED <<gateVars, serverVars>>

JobStep(k) == ProbeReturns(k) \/ Wake(k)

RequestSteps(r) == HangUp(r) \/ Headers(r) \/ Chunk(r) \/ End(r) \/ Abort(r)

Next ==
  \/ \E r \in Requests : Arrive(r) \/ RequestSteps(r)
  \/ \E k \in DOMAIN jobs : JobStep(k)
  \/ Administer
  \/ Close \/ Restart
  \/ Persist \/ Scheduler \/ Tick

Spec == Init /\ [][Next]_vars

(* Every probe has a time limit and every backoff a length, so a job's     *)
(* next step comes, and an aborted job's in particular; the scheduler is   *)
(* an interval timer; the clock runs.  Nothing is assumed of clients,      *)
(* upstreams, or the outcome of a probe.                                   *)
Fairness ==
  /\ \A id \in Ids :
       /\ WF_vars(\E k \in DOMAIN jobs : k.id = id /\ JobStep(k))
       /\ WF_vars(\E k \in DOMAIN jobs : k.id = id /\ jobs[k].aborted /\ JobStep(k))
  /\ WF_vars(Scheduler)
  /\ WF_vars(Tick)

FairSpec == Spec /\ Fairness

-----------------------------------------------------------------------------
KeyType == [id : Ids \cup {None}, epoch : Nat, rule : Rules \cup {None}, gen : Nat]

JobType ==
  [ctx : Contexts, caller : Callers, background : BOOLEAN, base : Nat,
   baseExpiresAt : Nat \cup {None}, basePending : BOOLEAN \cup {None},
   phase : {"probing", "sleeping"}, aborted : BOOLEAN,
   reason : CancelReasons \cup {None}, waiters : Nat]

RequestType ==
  {New, Done} \cup [phase : {"blocked"}, reason : Refusals]
  \cup [phase : {"held"}, ctx : Contexts, caller : Callers, bytes : Sizes,
        key : KeyType, promised : BOOLEAN]
  \cup [phase : {"open", "answering"}, ctx : Contexts, caller : Callers,
        auto : BOOLEAN, revision : Nat, used : Nat, usedState : Values \cup {None},
        status : {None, "ok", "auth", "error"}, raw : Values \cup {None},
        failed : BOOLEAN]

(* Type invariant: the shape of every variable of the whole system.        *)
TypeOK ==
  /\ StoreTypeOK
  /\ mode \in {"auto", "off"} /\ closed \in BOOLEAN
  /\ DOMAIN jobs \subseteq KeyType /\ \A k \in DOMAIN jobs : jobs[k] \in JobType
  /\ DOMAIN renewals \subseteq Ids
  /\ \A id \in DOMAIN renewals :
       renewals[id] \in [ctx : Contexts, caller : Callers, retryAt : Nat]
  /\ \A c \in DOMAIN cooldowns : cooldowns[c] \in [reason : Results, until : Nat]
  /\ {generation, waiters, heldBytes, modeRevision, boots} \subseteq Nat
  /\ requests \in [Requests -> RequestType]

(* A job that was not told to stop is working for the rules, bindings,     *)
(* switch and generation in force: whatever makes a job stale also aborts  *)
(* it, in the same step (server.mjs pairs each change with a cancel).      *)
CurrentJobs ==
  \A k \in DOMAIN jobs :
    /\ ~jobs[k].aborted => JobCurrent(k)
    /\ jobs[k].ctx.id = k.id /\ jobs[k].ctx.epoch = k.epoch /\ jobs[k].ctx.rule = k.rule

(* Remembered credentials never outlive the switch, the rule or the        *)
(* bindings they were remembered for, and sit under the binding that their *)
(* owner's requests have now.                                              *)
CurrentSlots ==
  \A id \in DOMAIN renewals :
    /\ Current(renewals[id].ctx)
    /\ id = Context(renewals[id].ctx.model, renewals[id].caller).id
    /\ renewals[id].caller.cred = renewals[id].ctx.client

HeldRequests == {r \in Requests : requests[r].phase = "held"}

(* No request waits for a job that is gone, and the counters that limit    *)
(* waiting are exact after any mixture of hang-ups, cancellations and      *)
(* settled jobs (ensure's finally block): neither leaks nor underflows.    *)
HeldAccounting ==
  /\ \A r \in HeldRequests : requests[r].key \in DOMAIN jobs
  /\ \A k \in DOMAIN jobs : jobs[k].waiters = Cardinality(Waiting(k))
  /\ waiters = Cardinality(HeldRequests) /\ waiters <= MaxWaiters
  /\ heldBytes = BytesOf(HeldRequests) /\ heldBytes <= MaxHeldBytes
  /\ Cardinality(DOMAIN jobs) <= MaxJobs

(* "Only a successful probe or a complete successful response establishes  *)
(* credentials for renewal" (README, v0.8.0), for a model-wide binding.    *)
RenewalKeyProven ==
  \A id \in DOMAIN renewals :
    id.scope = "model" => Confirmed(renewals[id].ctx, "upstream") \in proven

(* A binding is renewed only with the credentials of a client whose own    *)
(* request or own job has ended well since the list was last cleared, or   *)
(* who was served from a binding of its own: a hit in the shared cache     *)
(* never establishes them.                                                 *)
RenewalKeyEarned ==
  \A id \in DOMAIN renewals : \E by \in Evidence : Confirmed(renewals[id].ctx, by) \in proven

StoreChanged == objects' # objects \/ pins' # pins
Administered == epochs' # epochs \/ boots' # boots

(* Administration and restarts apart, a pin is touched only while the      *)
(* switch is on, by the response to a request dispatched since the switch  *)
(* was last moved or by a job of the present generation that nobody told   *)
(* to stop.  What began before the switch went off counts for nothing      *)
(* afterwards, not even when it is on again.                               *)
TouchedWhileOn ==
  [][StoreChanged /\ ~Administered =>
       /\ mode = "auto"
       /\ \/ \E r \in Requests :
               /\ requests[r].phase \in {"open", "answering"} /\ requests'[r] # requests[r]
               /\ requests[r].revision = modeRevision
          \/ \E k \in DOMAIN jobs \ DOMAIN jobs' :
               ~jobs[k].aborted /\ k.gen = generation]_vars

(* Only a response to a request that carried this very pin object, with    *)
(* its present value, revokes it; and 401/403 of one client does not take  *)
(* a shared pin from another.                                              *)
RevocationsJustified ==
  [][\A id \in Ids :
       Bound(id) /\ ~Pin(id).pending /\ pins'[id] = pins[id] /\ Pin(id)'.pending
         /\ ~Administered
       => \E r \in Requests :
            /\ requests[r].phase \in {"open", "answering"} /\ requests'[r] # requests[r]
            /\ requests[r].ctx.id = id /\ requests[r].used = pins[id]
            /\ requests[r].usedState = Pin(id).state
            /\ requests[r].phase = "open" /\ id.scope = "model"
                 => requests[r].ctx.client = Pin(id).client]_vars

(* A pin that requests may still be sent with is replaced only by a job    *)
(* that started from this very pin, not by ordinary responses, however     *)
(* late (README, v0.6.0).                                                  *)
LivePinsRotateByProbe ==
  [][\A id \in Ids :
       Qualified(id) /\ Pin(id).expiresAt > now + Margin /\ ~Administered
         /\ pins'[id] \notin {0, pins[id]}
       => \E k \in DOMAIN jobs \ DOMAIN jobs' :
            k.id = id /\ jobs[k].base = pins[id] /\ ~jobs[k].aborted]_vars

(* How a binding may lose a pin it can still serve to responses and jobs.  *)
(* Administration, the clock, and eviction by a full store (pins' = 0; see *)
(* LivePinSurvivesCalls of StoreCalls) are apart.                          *)
PinsLeaveForCause == RevocationsJustified /\ LivePinsRotateByProbe

(* A request sent with a pin carries the one its own binding has, and that *)
(* pin is live as the request leaves.  One that waited for a pin carries   *)
(* it if it is sent on under processing, and none if it was let go.        *)
SentWithLivePin ==
  [][\A r \in Requests, id \in Ids :
       /\ requests[r].phase \in {"new", "held"} /\ requests'[r].phase = "open"
       /\ requests'[r].ctx.id = id
       => /\ requests'[r].used # 0 =>
               /\ mode = "auto" /\ requests'[r].used = pins'[id]
               /\ Qualified(id)' /\ Pin(id)'.expiresAt > now + Margin
          /\ requests[r].phase = "held" => (requests'[r].auto <=> requests'[r].used # 0)]_vars

(* A request that waits for a job told to stop, for whatever reason (the   *)
(* switch, a rule edit or deletion, a reset, close()), does not wait for   *)
(* ever: it is sent on or refused, if its client has not left before.      *)
WaitsInVain(r) ==
  /\ requests[r].phase = "held"
  /\ requests[r].key \in DOMAIN jobs /\ jobs[requests[r].key].aborted

AbortedJobsRelease ==
  \A r \in Requests : WaitsInVain(r) ~> (requests[r].phase # "held")

(* A binding whose renewal is due gets a job, unless its plan is dropped,  *)
(* paused or the pin replaced first.                                       *)
RenewalWanted(id) == mode = "auto" /\ ~closed /\ id \in DueSlots
DueRenewalStarts == \A id \in Ids : RenewalWanted(id) ~> ~RenewalWanted(id)

(* "Disabling releases connected waiting originals unchanged, including    *)
(* stop/start races" (CHANGELOG 0.5.0).                                    *)
PromisesKept ==
  [][\A r \in Requests :
       requests[r].phase = "held" /\ requests[r].promised
         => requests'[r].phase # "blocked"]_vars

(* No discovery starts while a failure of the same job is cooling down.    *)
CooldownHolds ==
  [][\A k \in DOMAIN jobs' \ DOMAIN jobs :
       LET entry == [key |-> k, client |-> None]
       IN  ~jobs'[k].background /\ entry \in DOMAIN cooldowns
             => cooldowns[entry].until <= now]_vars
-----------------------------------------------------------------------------
(* The whole system keeps the promise of BindingLease: no interleaving of  *)
(* requests, probes, renewals, rule edits and crashes leases a value again *)
(* that its binding already holds, or past its lifetime.                   *)
LeaseOf(p) ==
  IF p = None THEN None ELSE [value |-> p.state, since |-> p.capturedAt, until |-> p.expiresAt]

Lease == INSTANCE BindingLease WITH
  Bindings <- Ids,
  Groups <- {{id \in Ids : id.model = m} : m \in Models},
  Lifetimes <- {rule.ttl : rule \in Rules},
  clock <- now,
  lease <- [id \in Ids |-> LeaseOf(OnDisk(objects, pins)[id])],
  disk <- [id \in Ids |-> LeaseOf(saved[id])]

KeepsLeases == Lease!Spec

=============================================================================
