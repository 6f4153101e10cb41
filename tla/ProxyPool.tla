------------------------------ MODULE ProxyPool ------------------------------
(***************************************************************************)
(* The pool of probing nodes (lib/proxy-pool.mjs) and the jobs of the gate *)
(* that probe through it.                                                  *)
(*                                                                         *)
(* A job tries the enabled nodes one after the other, beginning with the   *)
(* stored cursor, and falls back to the local target when they are used    *)
(* up.  Meanwhile the administrator edits the pool, other jobs move the    *)
(* cursor, the exported account comes and goes, and requests are taken     *)
(* back; each edit cancels what is in flight by counting the generation up.*)
(* What a probe's answer means to the gate is in module AutomaticGate: here*)
(* a job ends with a hit, goes on after a miss, or gives up.               *)
(***************************************************************************)
EXTENDS Naturals, SequencesExt

CONSTANTS
  Nodes,       \* node ids ever handed out
  Jobs,        \* jobs that may run at the same time
  Clients,     \* API keys
  None,        \* null
  MaxNodes,    \* MAX_NODES (128)
  MaxChecks,   \* connectivity checks at once (2)
  MaxChanges,  \* bound on edits of the pool
  MaxBoots     \* bound on restarts

Profiles == [source : {"manual", "sub2api"}, client : Clients]

DataType ==
  [enabled : BOOLEAN, nextId : Nodes \cup {None}, nodes : BoundedSeq(Nodes, MaxNodes),
   on : SUBSET Nodes, profile : Profiles \cup {None}]

ScanType == [gen : Nat, offset : Nat, ids : BoundedSeq(Nodes, MaxNodes)]

ASSUME PoolAssumption ==
  /\ None \notin Nodes \cup DataType \cup ScanType
  /\ {MaxNodes, MaxChecks, MaxChanges, MaxBoots} \subseteq Nat

VARIABLES
  data,        \* this.data
  disk,        \* proxy-pool.enc.json, None if there is no file
  invalid,     \* the file could not be decrypted
  available,   \* the local account export resolves
  generation,  \* bumped by every cancel()
  scans,       \* job -> its round of nodes, or None
  jobs,        \* job -> what it is doing
  checking,    \* nodes under a connectivity check
  shown,       \* nodes with a result on the dashboard
  boots        \* restarts so far

vars == <<data, disk, invalid, available, generation, scans, jobs, checking, shown, boots>>

Empty == [enabled |-> FALSE, nextId |-> None, nodes |-> <<>>, on |-> {}, profile |-> None]

Idle == [phase |-> "idle"]
(* tried: history, the nodes tried in generation triedIn.                  *)
Between(client, stopped, tried, triedIn) ==
  [phase |-> "between", client |-> client, stopped |-> stopped,
   tried |-> tried, triedIn |-> triedIn]

LocalJob ==
  [phase : {"between", "local"}, client : Clients, stopped : BOOLEAN,
   tried : SUBSET Nodes, triedIn : Nat]
RemoteJob ==
  [phase : {"remote"}, client : Clients, stopped : BOOLEAN, node : Nodes, gen : Nat,
   cut : BOOLEAN, tried : SUBSET Nodes, triedIn : Nat,
   from : [on : SUBSET Nodes, profile : Profiles \cup {None}]]
JobType == {Idle} \cup LocalJob \cup RemoteJob

Init ==
  /\ data = Empty /\ disk = None /\ invalid = FALSE
  /\ available \in BOOLEAN
  /\ generation = 0 /\ boots = 0
  /\ scans = [j \in Jobs |-> None]
  /\ jobs = [j \in Jobs |-> Idle]
  /\ checking = {} /\ shown = {}

(* The enabled nodes in the order of the list: the k-th of them has the    *)
(* k-th smallest of their places.                                          *)
Places(d) == {i \in DOMAIN d.nodes : d.nodes[i] \in d.on}
Rank(d, i) == Cardinality({h \in Places(d) : h <= i})
EnabledNodes(d) ==
  [k \in 1 .. Cardinality(Places(d)) |-> d.nodes[CHOOSE i \in Places(d) : Rank(d, i) = k]]

FirstEnabled(d) == IF EnabledNodes(d) = <<>> THEN None ELSE Head(EnabledNodes(d))

(* resolvedProfile() returns, rather than throws. *)
Resolves(profile) == profile # None /\ (profile.source = "sub2api" => available)

Ready == ~invalid /\ Resolves(data.profile)

-----------------------------------------------------------------------------
(* Editing the pool *)

(* Mutant of Persist: an unreadable file is overwritten. *)
PersistAnyway(d) == data' = d /\ disk' = d

Persist(d) ==
  /\ ~invalid
  /\ data' = d /\ disk' = d

(* Mutant of CutOff: a probe in flight is not told to stop. *)
CutOffNothing(job) == job

(* The controller of a probe in flight is aborted. *)
CutOff(job) == IF job.phase = "remote" THEN [job EXCEPT !.cut = TRUE] ELSE job

Cancel ==
  /\ generation < MaxChanges
  /\ generation' = generation + 1
  /\ scans' = [j \in Jobs |-> None]
  /\ jobs' = [j \in Jobs |-> CutOff(jobs[j])]

(* Mutant of Mutate: the pool stays on when its last node goes. *)
MutateStayingOn(nodes, on) ==
  /\ Persist([data EXCEPT !.nodes = nodes, !.on = on,
       !.nextId = IF @ \in on THEN @ ELSE FirstEnabled([nodes |-> nodes, on |-> on])])
  /\ Cancel
  /\ UNCHANGED <<invalid, available, checking, shown, boots>>

(* What every edit of the node list ends with. *)
Mutate(nodes, on) ==
  /\ Len(nodes) <= MaxNodes
  /\ Persist([data EXCEPT !.nodes = nodes, !.on = on,
       !.nextId = IF @ \in on THEN @ ELSE FirstEnabled([nodes |-> nodes, on |-> on]),
       !.enabled = @ /\ on # {}])
  /\ Cancel
  /\ UNCHANGED <<invalid, available, checking, shown, boots>>

Listed == ToSet(data.nodes)

(* An id is a random UUID: never one that was used before. *)
Unused == {n \in Nodes : /\ n \notin Listed \cup shown \cup checking
                         /\ \A j \in Jobs : /\ jobs[j].phase = "remote" => jobs[j].node # n
                                            /\ jobs[j].phase # "idle" => n \notin jobs[j].tried}

(* Importing a node that is listed already enables it again. *)
ImportNodes ==
  \E again \in SUBSET Listed, added \in BoundedSeq(Unused, MaxNodes) :
    /\ again # {} \/ added # <<>>
    /\ IsInjective(added)
    /\ Mutate(data.nodes \o added, data.on \cup again \cup ToSet(added))

SaveNode ==
  \E on \in BOOLEAN :
    \/ \E n \in Unused :
         Mutate(Append(data.nodes, n), IF on THEN data.on \cup {n} ELSE data.on)
    \/ \E n \in Listed : Mutate(data.nodes, IF on THEN data.on \cup {n} ELSE data.on \ {n})

DeleteNode ==
  \E i \in DOMAIN data.nodes : Mutate(RemoveAt(data.nodes, i), data.on \ {data.nodes[i]})

(* Moving the first one up, or the last one down, changes nothing but      *)
(* still cancels.                                                          *)
MoveNode ==
  \E i, j \in DOMAIN data.nodes :
    /\ j \in {i - 1, i, i + 1}
    /\ i = j => i \in {1, Len(data.nodes)}
    /\ Mutate([data.nodes EXCEPT ![i] = data.nodes[j], ![j] = data.nodes[i]], data.on)

SetProfile ==
  \E profile \in Profiles \cup {None} :
    /\ profile # None => Resolves(profile)
    /\ Persist([data EXCEPT !.profile = profile, !.enabled = @ /\ profile # None])
    /\ Cancel
    /\ UNCHANGED <<invalid, available, checking, shown, boots>>

SetEnabled ==
  \E enabled \in BOOLEAN :
    /\ enabled => Ready /\ data.on # {}
    /\ Persist([data EXCEPT !.enabled = enabled])
    /\ Cancel
    /\ UNCHANGED <<invalid, available, checking, shown, boots>>

(* The main switch stops the gate's jobs and cancels the pool. *)
SwitchProcessing ==
  /\ generation < MaxChanges
  /\ generation' = generation + 1
  /\ scans' = [j \in Jobs |-> None]
  /\ jobs' = [j \in Jobs |-> IF jobs[j].phase = "idle" THEN Idle
                             ELSE [CutOff(jobs[j]) EXCEPT !.stopped = TRUE]]
  /\ UNCHANGED <<data, disk, invalid, available, checking, shown, boots>>

Edit == ImportNodes \/ SaveNode \/ DeleteNode \/ MoveNode \/ SetProfile \/ SetEnabled

-----------------------------------------------------------------------------
(* Probing *)

Become(j, job) == jobs' = [jobs EXCEPT ![j] = job]

(* The gate launches a job, or stops it (its last client left).            *)
Start(j) ==
  /\ jobs[j] = Idle
  /\ \E client \in Clients : Become(j, Between(client, FALSE, {}, generation))
  /\ UNCHANGED <<data, disk, invalid, available, generation, scans, checking, shown, boots>>

Stop(j) ==
  /\ jobs[j].phase # "idle" /\ ~jobs[j].stopped
  /\ Become(j, [CutOff(jobs[j]) EXCEPT !.stopped = TRUE])
  /\ UNCHANGED <<data, disk, invalid, available, generation, scans, checking, shown, boots>>

(* The job ends, for whatever reason: endJob(). *)
JobOver(j) == Become(j, Idle) /\ scans' = [scans EXCEPT ![j] = None]

Eligible(j) ==
  /\ data.enabled /\ ~invalid /\ Resolves(data.profile)
  /\ jobs[j].client = data.profile.client

Rotated(s, first) ==
  LET i == CHOOSE i \in 1 .. Len(s) : s[i] = first \/ (first \notin ToSet(s) /\ i = 1)
  IN  SubSeq(s, i, Len(s)) \o SubSeq(s, 1, i - 1)

NewScan ==
  [gen |-> generation, offset |-> 0,
   ids |-> IF EnabledNodes(data) = <<>> THEN <<>> ELSE Rotated(EnabledNodes(data), data.nextId)]

Scan(j) == IF scans[j] = None THEN NewScan ELSE scans[j]

Exhausted(scan) == scan.gen # generation \/ scan.offset >= Len(scan.ids)

After(n) ==
  LET ids == EnabledNodes(data)
      i == CHOOSE i \in 1 .. Len(ids) : ids[i] = n
  IN  ids[(i % Len(ids)) + 1]

(* Off, no usable credentials, another client, or all nodes tried: the     *)
(* probe goes to the local target.                                         *)
ProbeLocally(j) ==
  /\ jobs[j].phase = "between" /\ ~jobs[j].stopped
  /\ ~Eligible(j) \/ Exhausted(Scan(j))
  /\ scans' = IF Eligible(j) THEN [scans EXCEPT ![j] = Scan(j)] ELSE scans
  /\ Become(j, [jobs[j] EXCEPT !.phase = "local"])
  /\ UNCHANGED <<data, disk, invalid, available, generation, checking, shown, boots>>

(* Mutant of TryNode: the place in the round is kept. *)
TryNodeAgain(j) ==
  LET scan == Scan(j)
      node == scan.ids[(scan.offset % Len(scan.ids)) + 1]
      job == jobs[j]
  IN  /\ job.phase = "between" /\ ~job.stopped
      /\ Eligible(j) /\ ~Exhausted(scan)
      /\ scans' = [scans EXCEPT ![j] = scan]
      /\ Persist([data EXCEPT !.nextId = After(node)])
      /\ Become(j, [phase |-> "remote", client |-> job.client, stopped |-> FALSE,
              node |-> node, gen |-> generation, cut |-> FALSE,
              tried |-> {node}, triedIn |-> generation,
              from |-> [on |-> data.on, profile |-> data.profile]])
      /\ UNCHANGED <<invalid, available, generation, checking, shown, boots>>

(* The next node of the round is tried; the stored cursor moves past it.   *)
(* If the cursor cannot be written the job fails.                          *)
TryNode(j) ==
  LET scan == Scan(j)
      node == scan.ids[(scan.offset % Len(scan.ids)) + 1]
      job == jobs[j]
  IN  /\ job.phase = "between" /\ ~job.stopped
      /\ Eligible(j) /\ ~Exhausted(scan)
      /\ \/ /\ scans' = [scans EXCEPT ![j] = [scan EXCEPT !.offset = @ + 1]]
            /\ Persist([data EXCEPT !.nextId = After(node)])
            /\ Become(j, [phase |-> "remote", client |-> job.client, stopped |-> FALSE,
                 node |-> node, gen |-> generation, cut |-> FALSE,
                 tried |-> {node} \cup (IF job.triedIn = generation THEN job.tried ELSE {}),
                 triedIn |-> generation,
                 from |-> [on |-> data.on, profile |-> data.profile]])
         \/ JobOver(j) /\ UNCHANGED <<data, disk>>
      /\ UNCHANGED <<invalid, available, generation, checking, shown, boots>>

(* The job is stopped between two probes or while it waits for one. *)
StoppedEnds(j) ==
  /\ jobs[j].phase # "idle" /\ jobs[j].stopped
  /\ JobOver(j)
  /\ UNCHANGED <<data, disk, invalid, available, generation, checking, shown, boots>>

Retry(j) == Become(j, Between(jobs[j].client, FALSE, jobs[j].tried, jobs[j].triedIn))

(* Mutant of Discarded: an answer counts whatever happened to the pool. *)
NothingDiscarded(j) == FALSE

Discarded(j) == jobs[j].gen # generation

(* The transport of a node answers, fails, times out or was cut off: the   *)
(* answer of an earlier generation is dropped and the job tries again;     *)
(* otherwise it is recorded and is a hit, a miss, or an upstream's refusal.*)
RemoteReturns(j) ==
  /\ jobs[j].phase = "remote" /\ ~jobs[j].stopped
  /\ \/ Discarded(j) /\ Retry(j) /\ UNCHANGED <<scans, shown>>
     \/ /\ ~Discarded(j)
        /\ shown' = shown \cup {jobs[j].node}
        /\ \/ JobOver(j)
           \/ Retry(j) /\ UNCHANGED scans
  /\ UNCHANGED <<data, disk, invalid, available, generation, checking, boots>>

LocalReturns(j) ==
  /\ jobs[j].phase = "local" /\ ~jobs[j].stopped
  /\ \/ JobOver(j)
     \/ Retry(j) /\ UNCHANGED scans
  /\ UNCHANGED <<data, disk, invalid, available, generation, checking, shown, boots>>

-----------------------------------------------------------------------------
(* Connectivity checks, the account export, restarts *)

(* Mutant of Check: one check too many. *)
CheckOneMore(n) ==
  /\ n \in Listed /\ n \notin checking
  /\ Cardinality(checking) <= MaxChecks
  /\ checking' = checking \cup {n}
  /\ UNCHANGED <<data, disk, invalid, available, generation, scans, jobs, shown, boots>>

(* A node's connectivity is checked, at most two nodes at a time. *)
Check(n) ==
  /\ n \in Listed /\ n \notin checking
  /\ Cardinality(checking) < MaxChecks
  /\ checking' = checking \cup {n}
  /\ UNCHANGED <<data, disk, invalid, available, generation, scans, jobs, shown, boots>>

CheckReturns(n) ==
  /\ n \in checking
  /\ checking' = checking \ {n}
  /\ shown' = IF n \in Listed THEN shown \cup {n} ELSE shown
  /\ UNCHANGED <<data, disk, invalid, available, generation, scans, jobs, boots>>

Export ==
  /\ available' = ~available
  /\ UNCHANGED <<data, disk, invalid, generation, scans, jobs, checking, shown, boots>>

(* A new process; a file it cannot decrypt disables the pool. *)
Restart ==
  /\ boots < MaxBoots
  /\ boots' = boots + 1
  /\ \/ data' = (IF disk = None THEN Empty ELSE disk) /\ invalid' = FALSE
     \/ disk # None /\ data' = Empty /\ invalid' = TRUE
  /\ generation' = 0
  /\ scans' = [j \in Jobs |-> None]
  /\ jobs' = [j \in Jobs |-> Idle]
  /\ checking' = {} /\ shown' = {}
  /\ UNCHANGED <<disk, available>>

JobStep(j) ==
  ProbeLocally(j) \/ TryNode(j) \/ StoppedEnds(j) \/ RemoteReturns(j) \/ LocalReturns(j)

Next ==
  \/ Edit \/ SwitchProcessing
  \/ \E j \in Jobs : Start(j) \/ Stop(j) \/ JobStep(j)
  \/ \E n \in Nodes : Check(n) \/ CheckReturns(n)
  \/ Export \/ Restart

Spec == Init /\ [][Next]_vars

(* A probe has a deadline and a pause between two probes a length, so a    *)
(* job's next step comes.  Nothing is assumed of the administrator, the    *)
(* clients or what a node answers.                                         *)
FairSpec == Spec /\ \A j \in Jobs : WF_vars(JobStep(j))

-----------------------------------------------------------------------------
(* Type invariant: the pool, its rounds and the jobs that probe. *)
TypeOK ==
  /\ data \in DataType /\ disk \in DataType \cup {None}
  /\ {invalid, available} \subseteq BOOLEAN
  /\ {generation, boots} \subseteq Nat
  /\ scans \in [Jobs -> {None} \cup ScanType]
  /\ jobs \in [Jobs -> JobType]
  /\ checking \subseteq Nodes /\ Cardinality(checking) <= MaxChecks /\ shown \subseteq Nodes

(* After any edits, deletions, failed writes and restarts: an enabled pool *)
(* has a source and a node to use, and the cursor is on an enabled node    *)
(* whenever there is one (mutate's last two lines, configureProfile).  It  *)
(* is what the file says; and a process that cannot read the file keeps to *)
(* the empty pool it began with, so that no edit ends up in its place.     *)
PoolUsable ==
  /\ data.enabled => data.profile # None /\ data.on # {}
  /\ data.on \subseteq Listed /\ IsInjective(data.nodes)
  /\ IF data.on = {} THEN data.nextId = None ELSE data.nextId \in data.on
  /\ ~invalid => data = IF disk = None THEN Empty ELSE disk
  /\ invalid => data = Empty

(* A round in force is a round over exactly the nodes that are enabled now *)
(* (so the lookup in probe() never comes up empty), and a node that a job  *)
(* is waiting for, without having been cut off, is one of them and was     *)
(* given the credentials of the present source.                            *)
RoundsMatchPool ==
  \A j \in Jobs :
    /\ scans[j] # None =>
         /\ scans[j].gen = generation
         /\ IsInjective(scans[j].ids) /\ ToSet(scans[j].ids) = data.on
         /\ scans[j].offset <= Len(scans[j].ids)
    /\ jobs[j].phase = "remote" /\ ~jobs[j].cut =>
         jobs[j].node \in data.on /\ jobs[j].from.profile = data.profile

(* "Closing the pool cancels the probes in flight and drops their late     *)
(* results" (README, v0.9.0), and so does every other edit: a node's       *)
(* answer is recorded, or ends a job, only under the nodes and credentials *)
(* the probe was sent with and while the pool is on.                       *)
LateAnswersDropped ==
  [][\A j \in Jobs :
       jobs[j].phase = "remote" /\ RemoteReturns(j)
         /\ (jobs'[j] = Idle \/ shown' # shown)
       => /\ data.enabled
          /\ jobs[j].from = [on |-> data.on, profile |-> data.profile]]_vars

(* One round per job: a node is tried a second time in a job only if the   *)
(* pool was edited in between ("does not scan the nodes again and again    *)
(* within one task", README, v0.9.0).                                      *)
OncePerRound ==
  [][\A j \in Jobs :
       /\ jobs[j].phase = "between" /\ jobs'[j].phase = "remote"
       /\ jobs[j].triedIn = generation
       => jobs'[j].node \notin jobs[j].tried]_vars

(* A job does not stay with the pool: however often nodes miss, it comes   *)
(* to an end or back to the local target.                                  *)
RoundsEnd == \A j \in Jobs : jobs[j].phase = "between" ~> jobs[j].phase \in {"local", "idle"}
=============================================================================
