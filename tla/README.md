# TLA+ verification of Turn State (sub2api-turnstate)

The extension sits between nginx and sub2api. It fixes the value of the
`x-codex-turn-state` header per binding, obtains a missing value by probing the
upstream on its own account while the request that needs it waits, renews values
before their local lifetime ends, and gives the administrator a console. This
directory holds TLA+ models of that program, TLC configurations that check them on
small instances, and proofs of its safety properties for instances of any size.

Line numbers refer to the files under `src/`. `PROJECT.json` maps every
definition that models code to its lines.

## 1. The system

| component | source | state it keeps | operations |
|---|---|---|---|
| binding store | `lib/states.mjs` | rules, epochs per model, pins in insertion order, `states.json` | context, preflight lookup, capture, re-accept, revoke, adopt a probe, manual value, refresh, configure, eviction, delayed write, load |
| automatic gate | `lib/automatic.mjs` | jobs in flight, waiters and held bytes, cooldowns, remembered routing identities (`renewals`), generation, closed | refuse/hold/join, probe, back off, settle, cancel, cancel the jobs of edited models, renewal scheduler, close |
| proxied request | `lib/server.mjs` | one record per request: phase, context, pin it was sent with, evidence so far | arrive, wait, dispatch, headers, chunk, end, abort |
| switch and administration | `lib/server.mjs` | mode, mode revision | set mode, save rules, refresh, manual pin, close |
| probe proxy pool | `lib/proxy-pool.mjs` | nodes, cursor, source profile, encrypted file, generation, round per job, checks | edit, clear, choose source, switch, probe, check, load |
| nginx takeover | `lib/nginx.mjs` | site, snippet, takeover journal, lock, nginx | connect, disconnect, each with its undoing |
| installation | `bin/turnstate.mjs`, `lib/config.mjs`, `lib/domain.mjs` | `config.json`, initial password, unit file and process, the console's site and certificate | install, init, password, start, service-stop, uninstall, domain-enable |
| record journal and pages | `lib/journal.mjs`, `lib/records-page.mjs`, `public/records.js` | ring of recent records, write queue, generations on disk; pager with its fetches | add, rotate, append, reload; serve a page, browse, poll, reset |
| console login | `lib/server.mjs`, `public/app.js` | sessions, login counters | sign in, sign out, expire, limit |
| probe transports | `lib/probe-transport.mjs`, `lib/proxy-probe.mjs`, `lib/proxy-tunnel.mjs` | one probe: stage, timer, listeners, socket, header, body so far, outcome | start, look up, connect, talk to the proxy, start TLS, send, read, abort, deadline, return |
| response inspection | `lib/probe-response.mjs`, `lib/response-meta.mjs`, `lib/request-meta.mjs`, `lib/failure-policy.mjs`, `lib/policy.mjs` | bounded prefixes | classify status, events, errors |
| local account export | `deploy/sync-sub2api-auth.py`, `lib/local-auth.mjs` | `accounts.json`, replaced as a whole; the run of the exporter | query, publish, fail or be killed; resolve |
| migration, exporter's installer | `deploy/migrate-model-sharing.mjs`, `deploy/install-local-auth-reader.py` | files of an installation | run once by an administrator |

How they interact. A request asks the store for its context and the gate for
permission to leave. The gate joins it to a job or starts one; the job probes
(through the pool first, then locally), hands the value to the store, and the
requests that waited leave with the pin. The response comes back to the store as a
capture or a revocation and to the gate as a confirmed identity. Everything here runs
in one Node.js thread: what interleaves is not statements but the code between two
`await`s, callbacks of sockets, timers and HTTP handlers. A context taken before
an `await` may be stale after it; each component has its own counter against that (epoch
and rule object, generation, mode revision, pool generation, pager revision), and
most of what can go wrong is a pair of those counters that do not cover
each other.

What is hard, per component, and what makes the component correct:

* **store**: responses come back out of order, after edits, after renewals, after
  restarts. Correct: a stored pin always obeys the rule in force; a value's deadline is
  never extended by seeing the same value again; a late response never undoes a newer
  pin.
* **gate**: jobs are shared by clients that come and go, and told to stop by four
  kinds of events. Correct: stale jobs are aborted, counters are exact, remembered
  credentials are those of a proven client, the switch really stops processing,
  waiting ends.
* **pool**: one cursor, several jobs, edits in between, answers of yesterday's pool.
  Correct: no answer counts for a pool it was not asked under; each round ends; an enabled
  pool can be used.
* **nginx and installation**: some twenty file operations that may fail half-way or be
  the last ones, commands that call one another. Correct: every partial state can be
  undone; no edit of the administrator and no initial password is lost; requests never
  go to a stopped unit because of the command that stops it.
* **probe transports**: the job is aborted or the deadline passes between an event and the
  code that handles it; peers answer anything or nothing; one signal is listened to by
  any number of probes. Correct: a probe that was cut off waits for no peer, holds nothing
  when it has returned, always returns, and is accepted on the whole evidence only.
* **account export**: written by another process, killed or failing at any time, read
  for each probe, and sent a lookup and three connections later. Correct: what is sent
  has not expired, and is not older than a stated age.
* **journal and pages**: rotation is several renames, writes fail, the ring moves under
  the reader, replies arrive late. Correct: order and bound of the log, stable pages,
  nothing shown after signing out.

The full list of hazards, each at its line and with the properties that cover
it, is in `PROJECT.json`.

## 2. Modules

```
StateStore ──> StoreCalls ──> MCStoreCalls        (store, most general client)
    │               └──> StoreCalls_proofs
    ├──> StateStore_proofs (lemmas)
    └──> AutomaticGate ──> TurnState ──> MCTurnState  (whole request path)
                              ├─ INSTANCE BindingLease (what it promises)
                              └──> TurnState_proofs ──> TurnLease_proofs
                                   (both also use StateStore_proofs)
ProxyPool ──> MCProxyPool
    └──> ProxyPool_proofs
LocalAuth ─────┐
ProbeExchange ─┴──> AccountProbes ──> AccountProbes_proofs
NginxTakeover ──> Installation ──> Installation_proofs
Journal ──> RecordsPager ──> RecordsPager_proofs
```

* **StateStore** is `lib/states.mjs`. The code compares pins with `===`, so a pin is
  an object with an identity: `objects[id]` is the sequence of pin objects a binding has
  had, `pins[id]` the index of the stored one (0 for none). A replaced pin is a new
  index, an overwritten one the same index with other fields. `OnDisk` is what
  `states.json` would contain, `saved` what it contains. The insertion order of the
  Map is not kept: where the code evicts its oldest entry, any may go. `Context`, `LivePin`,
  `Qualified`, `CaptureAutomatic`, `InvalidateUsedPin`, `AdoptProbe`, `Configure`,
  `Refresh...`, `Manual`, `Load` carry the names of their methods.
* **StoreCalls** puts the store under a most general client: calls that take a
  context, stay away as long as they like, and come back. Whatever holds here holds for
  each order in which the server and the gate may call the store; it is the module the
  proofs are about.
* **AutomaticGate** is the state and the helpers of `lib/automatic.mjs`: the key of a job
  (binding, epoch, rule, generation), refusals, waiting, leaving, the verdict on a job
  after each `await`, settling, cooldowns, cancellation, `Remember`, the scheduler.
* **TurnState** composes store, gate, requests, administrator, clock, crash and restart.
  One action stands for the code between two `await`s; `Settle` includes what each
  waiting request does when the shared promise resolves, since nothing can run in
  between. `promised` and `proven` are history variables.
* **BindingLease** is the abstract specification: a binding leases a value from the
  moment it was obtained; traffic never renews the lease of the value it already
  has; rule edits recount a running lease from its start; a new process takes over what
  was written, or part of it. TurnState implements it under the mapping at the
  end of its module (`KeepsLeases`).
* **ProxyPool** is `lib/proxy-pool.mjs` together with the jobs that probe through it. A
  probe in flight remembers what it was sent with (`from`) as history, and whether an
  edit has cut it off.
* **ProbeExchange** is one probe after the other, of either transport, and the connectivity
  checks, which use the second. Each `await` is two steps, the event (`news`) and the
  continuation, so that an abort or the deadline (`JobAborts`, `TimerFires`) can come
  between them. `held` is what the probe has to give back: timer, socket, the listeners
  of tunnel, exchange and body reader. `Verdict` is the order in which the code looks at
  what a body has told it. TurnState and ProxyPool begin where a probe has returned:
  their probes take any time and have any outcome, which `ProbesEnd` and
  `AcceptedOnEvidence` justify.
* **LocalAuth** is the exporter, a process of its own that can fail or be killed at any
  point, and the reader. **AccountProbes** puts both modules under one clock: credentials
  are resolved when a probe starts and leave with its request.
* **NginxTakeover** has one action per file operation of `connectNginx` and
  `disconnectNginx`, with the failure of each, a crash anywhere, and an administrator
  who edits the site. **Installation** has the commands that call them and the
  remaining ones of root, in the same manner; a command that continues with another
  (install with connect, uninstall with disconnect) carries it in `next`.
* **Journal** and **RecordsPager**: the first is `lib/journal.mjs`, call of the file
  system by call; the second the page operator, its HTTP handler and the console's
  pager with fetches that are served at one time and arrive at another.

Data that is abstracted: a state value is a member of `Values`, its length a
member of the set of lengths (values) a rule pins; credentials, sessions and turns are
tokens, since the code only compares digests of them; times are ticks; a line of
the log has length one; a site's text is the edit it contains and whether our
block is in it; an export is its one usable account, or none; the bytes of the proxy
protocols are answers and refusals.

## 3. Runs

"viol." marks a run of one property that TLC finds violated; it documents a
disagreement between the code and its documentation, see section 6.

| run | module | what it shows | bounds |
|---|---|---|---|
| `store_rules` | MCStoreCalls | `PinsObeyRules`, `SameValueKeepsDeadline`, `LivePinSurvivesCalls`, `LateCallsKeepNewer` | 3 calls, 3 API keys with room for 2 pins, 2 values, 2 rules that differ in scope, lifetime and lengths, 1 administrative change per model (and restarts), clock 2 |
| `store_crash` (viol.) | MCStoreCalls | `RevokedStaysRevoked`: a crash before the delayed write brings a revoked pin back | 1 call, 1 value, 1 rule |
| `turn_shared` | MCTurnState | `CurrentJobs`, `HeldAccounting`, `RenewalKeyEarned`, `TouchedWhileOn`, `PinsLeaveForCause`, `SentWithLivePin` | 2 requests of 2 API keys on one model-wide binding, 2 values, 2 jobs, the rule set and deleted, 1 change of rules or reset, 1 global cancellation, clock 3 |
| `turn_lease` | MCTurnState | TurnState implements `BindingLease`; `CurrentSlots`; `AbortedJobsRelease`, `DueRenewalStarts` under fairness | 1 request, 1 key, 2 values, every edit among 4 rules and none, room for 1 job, 1 restart, 1 cancellation, clock 2 |
| `turn_promise` (viol.) | MCTurnState | `PromisesKept`: off and on before an aborted job has ended | 1 request, 3 cancellations |
| `turn_cooldown` (viol.) | MCTurnState | `CooldownHolds`: an expired cooldown hides a running one | 3 requests, 2 keys, pauses 1 and 3 |
| `turn_renewal` (viol.) | MCTurnState | `RenewalKeyProven`: credentials nothing was answered for are kept for renewal | 2 requests, 2 keys of which a probe can carry one |
| `pool_rounds` | MCProxyPool | `RoundsMatchPool`, `PoolUsable`, `LateAnswersDropped`, `OncePerRound`, and `RoundsEnd` under fairness | 2 nodes, 1 job, 4 edits, 1 check at once, 1 restart |
| `probe_exchange` | AccountProbes | `CutIsObeyed`, `NothingHeld`, `AcceptedOnEvidence`, `CredentialsFresh`, and `ProbesEnd` under fairness | any number of probes, one after the other; clock 6, exports good for 2, runs and probes of 1, a token that expires at 6 |
| `records_pages` | RecordsPager | `LogIntact`, `LinesLeaveByRotation`, `HistoryStaysPut`, `NothingShownSignedOut`, and `LoadsEnd` under fairness | 4 records, ring of 3, files of 1 line in 3 generations, queue of 2, page of 1, 1 restart, 3 fetches by hand |
| `nginx_takeover` | Installation | `NoTraceWithoutJournal`, `ManualChangesKept`, `PasswordKept`, `SiteLoads`, `StopsUnrouted` | any number of commands; 3 edits, between commands |
| `nginx_edit` (viol.) | Installation | `ManualChangesKept` when the site is edited while a command runs | 1 edit |

One run of each module also checks its type invariant. `PinsLeaveForCause` is the
conjunction of `RevocationsJustified` and `LivePinsRotateByProbe`, `LogIntact` that of
`OrderKept` and `FileBounded`.

Why the bounds are enough to meet the interesting cases:

* *Store.* Three calls are a request sent with the old pin, the one that replaces it,
  and one that returns after both. Three keys are owners of one model-wide binding, or
  three bindings of which two have room, so that pins are merged and evicted. A clock of
  2 lets a pin of lifetime 1 or 2 expire, be seen again, and expire by a shortened
  lifetime. One administrative change and any number of restarts interleave with all of
  it; restarts and changes commute with more of their kind as far as the invariants go,
  which is what the proofs of section 5 settle for every number.
* *Whole system.* Discovery, dispatch, expiry and renewal take one tick each; the
  lifetime in use is 3 or 2, the lead time at most 1, so that a clock of 3 contains a
  full cycle from discovery to a renewal that is due and used. With one job
  (`turn_lease`) an aborted job that lingers holds the only place; with two keys on one
  binding (`turn_shared`) jobs are joined, and joined after being aborted. A generation
  bound of 1 lets the switch, a pin reset or a shutdown hit each point of a job's life.
  Two things are beyond these bounds. The switch going off and on again while a request
  is open is not met in `turn_shared`, only its going off; `PinsNeedTheSwitch` proves
  `TouchedWhileOn` for any number of moves. And with two requests the refusal at the limit
  of waiting requests is not met, only that the counters are exact up to it;
  `CountersExact` proves the limit for any number.
  Runs without a restart leave what is on disk out of the state (`VIEW InMemory`):
  nothing reads it then. Eviction is left to `store_rules`: the gate does not know why a
  binding has no pin.
* *Pool.* Two nodes allow deletion of the cursor's node, return of a deleted one and
  re-ordering; four edits list two nodes, give a source, switch on, and leave one for
  the time a probe is in flight. One job is enough here: the proofs are for any number.
* *Journal.* With files of one line each append rotates, so all interleavings of the
  three renames with additions, failures and the end of the process occur, and
  records leave through the oldest generation.
* *Nginx and installation.* Commands may be repeated without a bound: the states do not
  grow. Three edits are one before a takeover, one under it, and one after.
* *Probes.* An export may be used at its oldest (two ticks), was made from a query at
  most one tick older, and a probe takes at most one: four ticks between query and
  request is the oldest that `CredentialsFresh` allows, and a clock of 6 contains it,
  followed by the expiry of the token. The number of probes is not bounded.

Symmetry is declared in runs of safety only, over requests, calls, API keys, values or
nodes that no definition tells apart; the liveness runs have none.

All bounds are CONSTANTS named `Max...` or quantified sets, and appear only in the
guards of the environment (arrivals, clock, administrator, restarts), so they stop
outside influence but never a component's own step. Deadlock checking is off where a
bounded environment comes to rest, and on for the probes and the
commands of root, where something can always happen.

## 4. Fairness

* `TurnState!FairSpec`: weak fairness of a binding's job step (and of an aborted job's),
  of the scheduler and of the clock. A probe has a time limit of 15 s, a backoff has a
  length, an abort ends either at once, the scheduler is an interval timer. One
  exception is known: the DNS lookup at the start of a tunnelled probe does not listen
  to the abort (`lib/proxy-tunnel.mjs:15`, `:70`); the resolver's own limit ends it, so the
  step still comes, but late, which is why an aborted job may linger in the model.
  `AbortedJobsRelease` rests on it: whatever told a job to stop, its next step is its last,
  and takes every request that waits for it along.
  Nothing is assumed of clients, upstreams, or of what a probe finds: a job may miss
  for ever, and no property says it succeeds.
* `AccountProbes!Spec`: weak fairness of the probe's own continuations, of its timer and of
  the resolver, which has limits of its own. Nothing is assumed of proxies and sites: that
  every probe returns all the same is what the deadline is for.
* `ProxyPool!FairSpec`: weak fairness of each job's own step, for the same reason.
* `RecordsPager!FairSpec`: each fetch is answered or fails in the end, as HTTP requests of
  a browser do. The writer of the journal needs none.

## 5. Proofs

All are checked by TLAPS, for any sets of models, callers, values, rules and calls and any
bounds allowed by the assumptions.

* `StoreCalls_proofs` (lemmas in `StateStore_proofs`), from `StoreAssumption` (rules are
  what `validateRules` lets through, `None` is none of the values, `MaxPins` is positive) and
  `CallsAssumption`:
  * `TypesHold`: `Spec => []TypeOK`;
  * `StoredPinsObeyRules`: `Spec => []PinsObeyRules`;
  * `DeadlinesStay`: `Spec => SameValueKeepsDeadline`;
  * `NewerPinsStay`: `Spec => LateCallsKeepNewer`;
  * `LivePinsStay`: `Spec => LivePinSurvivesCalls`.

  `PinsObeyRules` is not inductive: a restart brings back what was written under another
  rule, and a call adopts a value under a context taken before an edit. The invariant
  `Inv` adds that each *saved* pin is lawful for the rule it carries with it (so that
  loading may compare and drop), and that the context of an open call was attached to
  its model and scope when it was made. The proof has one lemma per operation of the
  store (`CaptureInv`, `InvalidateInv`, `AdoptInv`, `RefreshInv`, `ManualInv`,
  `ConfigureInv`, `LoadInv`, `QuietInv`), and one per kind of step of the client on top.
  The three action properties follow from `Inv` by cases on what a capture can do
  (`CaptureCases`): insert, re-accept, nothing. `LivePinSurvivesCalls` also covers what
  a probe does to the bindings of others.
* `TurnState_proofs`, from `StoreAssumption`, `GateAssumption` and `TurnStateAssumption`
  (finitely many requests; the marker for "nothing" is no refusal and no record; a
  cooldown lasts at least its minimum):
  * `TurnInvariant`: `Spec => []TurnInv`;
  * `TypesHold`, `JobsStayCurrent`, `SlotsStayCurrent`, `CountersExact`,
    `CredentialsEarned`, `PinsStayLawful`: `Spec => []I` with `I` the invariants `TypeOK`,
    `CurrentJobs`, `CurrentSlots`, `HeldAccounting`, `RenewalKeyEarned`,
    `PinsObeyRules`;
  * `PinsNeedTheSwitch`, `PinsStayForCause`, `SentLive`: the action properties `TouchedWhileOn`,
    `PinsLeaveForCause`, `SentWithLivePin`.

  `TurnInv` is one invariant because the parts need each other. That the counters are exact
  follows from each held request having a job under its own key; that a job that is not
  aborted is current needs its context to be one the store gave out under the rule and
  the epoch in its key; that a remembered slot is current needs each change of rules to
  pass through `CancelModels`, which needs the slot's binding to be the one its
  caller has under the rule before the change; and what a slot may be filled with
  comes from a request whose context was made the same way. There is one lemma per
  effect on the store (from `StateStore_proofs`), per helper of the gate (launching,
  settling, cancelling, remembering), and per action.
* `TurnLease_proofs`, from the same assumptions:
  * `LeasesKept`: `Spec => KeepsLeases`, that TurnState implements BindingLease.

  Each action is shown to be, for the mapped variables, a step of BindingLease or a
  stutter; `LeaseStep` collects them. The invariant it uses is `TurnInv`.
* `ProxyPool_proofs`, from `PoolAssumption` (the bounds are natural numbers, `None` is no
  node and no record):
  * `PoolInvariant`: `Spec => []PoolInv`;
  * `TypesHold`, `PoolStaysUsable`, `RoundsStayCurrent`: `Spec => []TypeOK`, `[]PoolUsable`,
    `[]RoundsMatchPool`;
  * `LateAnswersAreDropped`, `NodesOncePerRound`: `Spec => LateAnswersDropped`,
    `Spec => OncePerRound`.

  Nodes, jobs and clients may be any sets. The lists need lemmas of their own: that the
  enabled nodes in the order of the list are those nodes once each (`EnabledOnce`: ranks
  of places in a list are a bijection), that turning a round keeps its nodes
  (`RotationKeeps`), that imports, additions, removals and swaps keep each node once
  (`ListImported` ...). `PoolUsable` is not inductive, a restart brings back what is on
  disk; `PoolInv` says of the file too that it is usable, and a process that cannot read it
  keeps to the empty pool. `LateAnswersDropped` follows from
  `JobFits`: a probe of this generation was sent under the pool as it is now, since each
  edit counts the generation up; `OncePerRound` from the same and what a round has
  given out.
* `RecordsPager_proofs`, from `JournalAssumption` (limits are positive, `None` is neither a
  number nor the content of a file) and `PagerAssumption` (pages have a positive size):
  * `NeverShownSignedOut`: `Spec => []NothingShownSignedOut`;
  * `LogStaysIntact`, `LinesOnlyRotatedOut`: `Spec => []LogIntact`,
    `Spec => LinesLeaveByRotation`;
  * `HistoryStays`: `Spec => HistoryStaysPut`; `TypesHold`: `Spec => []TypeOK`.

  *Signed out.* The inductive invariant `Superseded` says that, while signed out, no fetch
  under way carries the newest revision: a reply may arrive at any later time, but
  `Reset` has counted the revision up and only `SignIn` and a new load make one current.

  *The log.* `OrderKept` is not inductive: the append needs the whole queue to be behind
  everything on disk, and a rename needs the place it goes to to be vacated (`Vacated`),
  or the failure of an earlier one would let it overwrite a generation. `FileBounded` needs
  the count of the process to be at least the whole lines of the file (`Counted`), which is
  why it resets the count with the last rename and not before. `JournalInv` has these
  and the types.

  *The pages.* Page numbers say nothing by themselves, as the ring moves on under them.
  `RingInv`: the ring rises, and leaves out no record that is `Known` (in the ring, in the
  queue or readable in `records.jsonl`) and not older than all of it. It survives a restart
  because the reloaded lines are the last that can be parsed (`Enumeration`: they come in
  ascending order, each once; ranks of a finite set of numbers, so no induction over
  lists is needed). `PagerInv` says that, while the session lasts, the table `Fits` the
  ring: counted back from the anchor its records are where its page number says, or
  older than all of the ring, and only a last page is short. `FitsAdded` is the heart of it,
  that this stays true when the ring moves on; `PageFollows` shows that a page cut
  from the ring at the same anchor continues one that fits. The continuation is
  stated of replies already under way, so that it also holds of one that arrives after
  a restart.
* `AccountProbes_proofs`, from `AuthAssumption`, `ExchangeAssumption` (`None` is no event, result
  or header) and `ProbesAssumption`, of which `Deadline <= Margin` matters (15 s and 60 s in
  the code: a probe ends before the token it was given may expire):
  * `CredentialsStayFresh`: `Spec => CredentialsFresh`;
  * `TypesHold`, `CutsAreObeyed`, `NothingStaysHeld`, `StatesAcceptedOnEvidence`:
    `Spec => []TypesOK`, `[]CutIsObeyed`, `[]NothingHeld`, `[]AcceptedOnEvidence`.

  For the credentials, the inductive invariant says that an export is no older than the run
  that wrote it (`ExportInv`), that a probe that has not sent its request is within its
  deadline or will not send it (`TimerInv`), and what was true of the credentials at its
  start (`CredentialsInv`). For the exchange, `ExchangeInv` says what is held at each stage
  (`HeldInv`; that a probe which is over holds nothing needs each earlier stage to hold only what
  its own cleanup releases), that a probe cut off while it waits has news to wake it
  (`CutInv`), and that a header which decides and a result are final (`EvidenceInv`). The fairness of
  `Spec` is not used.
* `Installation_proofs`, from `TakeoverAssumption` and `NoneAssumption` (`None` is none of the
  values it stands beside):
  * `NoTraceLeft`, `ManualChangesStay`: `Spec => []NoTraceWithoutJournal`,
    `Spec => []ManualChangesKept`, and `StoppedUnrouted`, `SiteStaysLoadable`:
    `Spec => StopsUnrouted`, `Spec => SiteLoads`, all four if the administrator does not
    edit while a command runs (`~EditsDuringCommands`; TLC finds each of the four violated
    with such edits, `nginx_edit` keeps the one that a document speaks of);
  * `TypesHold`, `PasswordStays`: `Spec => []TypeOK`, `Spec => []PasswordKept`, without that
    condition.

  `NoTraceWithoutJournal` is not inductive: it says nothing of what a command that is
  under way will still do. `TakeoverInv` has a line for each point at which a command
  could be the last: what site, snippet and nginx are then (`ConnectInv`,
  `DisconnectInv`), and that a unit is stopped only once the journal is gone (`StopInv`).
  `ChangesInv` adds that the texts a command may put back contain the last edit, and
  `StateInv` what the commands around the takeover have in hand.
  `PasswordInv` does the same for install. One lemma per group of commands
  (`TakeoverKeeps`, `CommandsKeep`, `DomainKeeps`, `OutsideKeeps`), with a step per action.

Each invariant and action property that a passing run checks is a theorem. What is only
model-checked is liveness, which like `ENABLED` is outside what the prover handles:
`AbortedJobsRelease`, `DueRenewalStarts`, `RoundsEnd`, `ProbesEnd` and `LoadsEnd`. The five
counterexamples of section 6 are TLC's. Induction over data, which the installed provers cannot
instantiate either, is avoided: lists are handled by places, ranks and cardinalities.

## 6. Where the code and its documentation differ

1. `store_crash`, `lib/states.mjs:238`: a refresh answers that the old binding is
   invalid, but writes the file half a second later. After a crash in between the
   revoked value is used again.
2. `turn_promise`, `lib/automatic.mjs:78`: switching off is said to release waiting
   requests unchanged, stop/start races included. A job already aborted for a pin
   reset keeps that first reason, and when the switch is on again before the job has
   ended, the request is refused with 503.
3. `turn_cooldown`, `lib/automatic.mjs:152`: the caller's own cooldown is looked up
   first, and an expired entry is still an entry: it hides the running cooldown
   of the binding, and a probe is sent during it.
4. `turn_renewal`, `lib/automatic.mjs:124`: only a successful probe or a complete response
   is said to establish credentials for renewal. A job that ends because the response of
   another client has brought a live pin (`reused`) establishes those of the client that
   started it, if the binding has none. The first attempt to prove `RenewalKeyProven` failed
   here; what holds is `RenewalKeyEarned`.
5. `nginx_edit`, `lib/nginx.mjs:64`: the site is replaced by a text made from an
   earlier reading without comparing again; an edit saved meanwhile is lost, against
   the name of the test in `test/nginx.test.mjs:36`.

Also noted, without a run: the handler of a failed disconnect puts the block back
before the snippet the block needs (`lib/nginx.mjs:94`); `SiteLoads` names that step as
its exception.

## 7. What is not modelled

* `decide()`, `verifyResponsePin()` and `autoLearn`/`unknownPolicy` of the store: only
  tests call them; the server asks `inspectState` and the policy instead.
* Requests that cannot be inspected (too large, encoded, WebSocket): they carry no
  model and touch none of the shared state.
* The parsers: of request and response bodies, of events cut into chunks, of the proxies'
  replies, of certificates and addresses. The models take what they find as inputs, every
  combination: for requests in TurnState, for probes in ProbeExchange.
* Several probes at once share nothing but the account export: ProbeExchange has one, and
  ProxyPool has the jobs.
* Two clocks: exporter and extension run on one machine, and LocalAuth has one time. The
  run of the exporter is limited by its unit (`TimeoutStartSec`).
* Two commands of root at once. The lock keeps two takeovers apart and is modelled, as is
  a start at any time; but one command is given after the other. A second administrator's
  connect between the end of disconnect and `systemctl stop`, or his domain-enable, which
  takes no lock, beside a takeover, is outside the model.
* A password that was generated and not yet written: a crash between `config.json` and the
  file (`bin/turnstate.mjs:39`) loses it, nobody has seen it, and the password command
  sets another. `PasswordKept` speaks of passwords that were written.
* A power failure: the code does no `fsync`, so after one the files may be older than the order
  of writes says. The crashes of Installation and NginxTakeover are those of the process.
* More than 512 cooldowns at once: the gate then forgets the oldest (`lib/automatic.mjs:131`).
* A login in another tab, which shares the cookie, before this tab's next status request (one
  every three seconds, none while it is hidden), on which it would have noticed that
  its session was gone and started over. If the session went with a restart that also lost
  records, a page of an anchored history may then differ from what it showed before, without
  the 409 that an anchor which is gone would give. `HistoryStaysPut` does not speak of that
  case.
* A record glued to a torn line: it is on disk, and the reader skips it, as the code does;
  `LogIntact` and `LinesLeaveByRotation` are about what is on disk.
* Display: totals, histograms, the list of recent jobs, most of the console.
* Login counters; kind and status filters of the records endpoint, which the console does
  not use.
* The checks of single settings in `lib/config.mjs`; the migration, which is a rule edit on a
  stopped service; the exporter's installer; a console site made by hand.
* Two processes over one data directory: systemd starts one.

## 8. Plan

Done, in this order: store and its most general client; proofs about it; gate and whole
request path with the lease it implements; pool; nginx; journal and pages; the exchange of
a probe; the account export, and both under one clock; installation and removal around
the takeover; proofs of every safety property and of the refinement.

Next, extending the model: login limits and sessions of the console next to
RecordsPager; the response header that TurnState's requests return, as far as the
store's policy rewrites it.

## 9. Running

```
tlc -config turn_shared.cfg MCTurnState.tla
tlc -config nginx_takeover.cfg Installation.tla
tlapm StoreCalls_proofs.tla
```

The largest runs (`turn_lease`, `records_pages`, `turn_shared`, `store_rules`) take a few
minutes with two workers.
