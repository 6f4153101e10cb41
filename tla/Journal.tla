------------------------------- MODULE Journal -------------------------------
(***************************************************************************)
(* The event log of lib/journal.mjs: a ring of recent records in memory,   *)
(* and records.jsonl with its older generations records.jsonl.1 ... on     *)
(* disk, written by one chain of asynchronous steps.                       *)
(*                                                                         *)
(* Records are numbered in the order they are added; every line has length *)
(* one.  The calls of the file system are separate steps, between which    *)
(* records are added, and each of them may fail or be the last before the  *)
(* process dies.                                                           *)
(***************************************************************************)
EXTENDS Naturals, FiniteSets, Sequences, SequencesExt

CONSTANTS
  RecentLimit,  \* config.recentLimit
  LogFiles,     \* config.logFiles
  MaxLogBytes,  \* config.maxLogBytes, in lines
  Slack,        \* the 16384 bytes a file may be longer and is still read
  MaxPending,   \* the 512 records that may wait to be written
  None,         \* no file
  MaxEvents,    \* bound: records added
  MaxStarts     \* bound: restarts

ASSUME JournalAssumption ==
  /\ {RecentLimit, LogFiles, MaxLogBytes, MaxPending} \subseteq Nat \ {0}
  /\ {Slack, MaxEvents, MaxStarts} \subseteq Nat
  /\ None \notin Nat \cup Seq([id : Nat, whole : BOOLEAN])

VARIABLES
  added,    \* records added so far, by this process and those before it
  recent,   \* the ring
  queue,    \* records accepted for writing and not yet settled; its head is being written
  stage,    \* where the head's write stands
  slot,     \* while files are shifted: the generation renamed next
  files,    \* generation -> its lines, or None; 0 is records.jsonl
  bytes,    \* the length of records.jsonl as the process counts it
  dropped,  \* records given up by this process
  starts    \* restarts so far

journalVars == <<added, recent, queue, stage, slot, files, bytes, dropped, starts>>

Generations == 0 .. LogFiles

(* A line; of a torn one only a part was written, without its line end.    *)
Line(id, whole) == [id |-> id, whole |-> whole]

Lines(g) == IF files[g] = None THEN <<>> ELSE files[g]

(* The reader splits at line ends: what follows a torn line is glued to it. *)
Parses(s, i) == s[i].whole /\ (i > 1 => s[i - 1].whole)

(* Mutant of Newest: the ring is cut one record late. *)
NewestUnbounded(s) == IF Len(s) > RecentLimit + 1 THEN Tail(s) ELSE s

(* The ring holds the newest RecentLimit records.                          *)
Newest(s) == IF Len(s) > RecentLimit THEN SubSeq(s, Len(s) - RecentLimit + 1, Len(s)) ELSE s

(* A set of line numbers in ascending order.                               *)
InOrder(lines) ==
  CHOOSE order \in [1 .. Cardinality(lines) -> lines] :
    \A i, j \in DOMAIN order : i < j => order[i] < order[j]

(* The constructor: the last lines of records.jsonl that can be parsed, if *)
(* the file is not too long.                                               *)
Reload(s) ==
  LET ended == {i \in DOMAIN s : s[i].whole \/ i = Len(s)}
      last == {i \in ended : Cardinality({j \in ended : j > i}) < RecentLimit}
      order == InOrder({i \in last : Parses(s, i)})
  IN  IF Len(s) > MaxLogBytes + Slack THEN <<>> ELSE [k \in DOMAIN order |-> s[order[k]].id]

JournalInit ==
  /\ added = 0 /\ recent = <<>> /\ queue = <<>>
  /\ stage = "waiting" /\ slot = 0
  /\ files = [g \in Generations |-> None]
  /\ bytes = 0 /\ dropped = 0 /\ starts = 0

(* add: at once into the ring; into the queue unless it is full.           *)
Add ==
  /\ added < MaxEvents
  /\ added' = added + 1
  /\ recent' = Newest(Append(recent, added'))
  /\ IF Len(queue) >= MaxPending
       THEN dropped' = dropped + 1 /\ UNCHANGED queue
       ELSE queue' = Append(queue, added') /\ UNCHANGED dropped
  /\ UNCHANGED <<stage, slot, files, bytes, starts>>

-----------------------------------------------------------------------------
(* The write of the queue's head *)

TooLong == bytes + 1 > MaxLogBytes

Exists(g) == files[g] # None

(* Mutant of RemoveOldest: the length is reset when rotation begins. *)
RemoveOldestCounting ==
  /\ stage = "waiting" /\ queue # <<>> /\ TooLong
  /\ stage' = "shifting" /\ slot' = LogFiles - 1
  /\ files' = [files EXCEPT ![LogFiles] = None]
  /\ bytes' = 0
  /\ UNCHANGED <<added, recent, queue, dropped, starts>>

(* rm of the oldest generation.                                            *)
RemoveOldest ==
  /\ stage = "waiting" /\ queue # <<>> /\ TooLong
  /\ stage' = "shifting" /\ slot' = LogFiles - 1
  /\ files' = [files EXCEPT ![LogFiles] = None]
  /\ UNCHANGED <<added, recent, queue, bytes, dropped, starts>>

(* The renames, oldest first; a missing file is passed over.               *)
Shift ==
  /\ stage = "shifting"
  /\ files' = [files EXCEPT ![slot + 1] = IF Exists(slot) THEN files[slot] ELSE @,
                            ![slot] = None]
  /\ IF slot = 0 THEN stage' = "appending" /\ bytes' = 0 /\ UNCHANGED slot
     ELSE slot' = slot - 1 /\ UNCHANGED <<stage, bytes>>
  /\ UNCHANGED <<added, recent, queue, dropped, starts>>

Settled == queue' = Tail(queue) /\ stage' = "waiting" /\ slot' = 0

Ready == stage = "appending" \/ (stage = "waiting" /\ queue # <<>> /\ ~TooLong)

Extended(line) == [files EXCEPT ![0] = Append(Lines(0), line)]

(* Mutant of AppendLine: writes are not chained, any waiting one may land. *)
AppendUnchained ==
  /\ Ready
  /\ \E i \in DOMAIN queue :
       /\ files' = Extended(Line(queue[i], TRUE))
       /\ queue' = RemoveAt(queue, i)
  /\ bytes' = bytes + 1 /\ stage' = "waiting" /\ slot' = 0
  /\ UNCHANGED <<added, recent, dropped, starts>>

AppendLine ==
  /\ Ready
  /\ files' = Extended(Line(Head(queue), TRUE))
  /\ bytes' = bytes + 1
  /\ Settled
  /\ UNCHANGED <<added, recent, dropped, starts>>

(* Mutant of Fail: a rename that fails is passed over like a missing file. *)
FailPassedOver ==
  /\ stage = "shifting" /\ slot > 0
  /\ slot' = slot - 1
  /\ UNCHANGED <<added, recent, queue, stage, files, bytes, dropped, starts>>

(* A call fails: the record is given up and counted, and the next write    *)
(* begins from the start.  A failed append may leave a part of its line.   *)
Fail ==
  /\ queue # <<>>
  /\ files' \in {files} \cup (IF Ready THEN {Extended(Line(Head(queue), FALSE))} ELSE {})
  /\ dropped' = dropped + 1
  /\ Settled
  /\ UNCHANGED <<added, recent, bytes, starts>>

Write == RemoveOldest \/ Shift \/ AppendLine \/ Fail

(* The process ends, in the middle of an append perhaps, and a new one     *)
(* reads what is there.                                                    *)
RestartJournal ==
  /\ starts < MaxStarts
  /\ files' \in {files} \cup (IF Ready THEN {Extended(Line(Head(queue), FALSE))} ELSE {})
  /\ recent' = Reload(Lines(0)')
  /\ bytes' = Len(Lines(0)')
  /\ queue' = <<>> /\ stage' = "waiting" /\ slot' = 0
  /\ dropped' = 0 /\ starts' = starts + 1
  /\ UNCHANGED added

-----------------------------------------------------------------------------
(* What the log keeps *)

JournalTypeOK ==
  /\ added \in 0 .. MaxEvents /\ starts \in 0 .. MaxStarts
  /\ recent \in Seq(1 .. added) /\ Len(recent) <= RecentLimit
  /\ queue \in Seq(1 .. added) /\ Len(queue) <= MaxPending
  /\ stage \in {"waiting", "shifting", "appending"} /\ slot \in 0 .. LogFiles - 1
  /\ files \in [Generations -> Seq([id : 1 .. added, whole : BOOLEAN]) \cup {None}]
  /\ bytes \in 0 .. MaxEvents /\ dropped \in 0 .. MaxEvents

Rising(ids) == \A i, j \in DOMAIN ids : i < j => ids[i] < ids[j]
Precedes(ids, others) == \A i \in DOMAIN ids, j \in DOMAIN others : ids[i] < others[j]
Ids(g) == [i \in DOMAIN Lines(g) |-> Lines(g)[i].id]

(* Read from the oldest generation on, the log is in the order in which    *)
(* events happened, with none twice, whatever rotation failed half-way,    *)
(* was interrupted by the end of the process, or found files missing.      *)
OrderKept ==
  /\ Rising(queue)
  /\ \A g \in Generations : Rising(Ids(g)) /\ Precedes(Ids(g), queue)
  /\ \A g, h \in Generations : h < g => Precedes(Ids(g), Ids(h))

(* records.jsonl does not outgrow its limit while its rotation fails: only *)
(* parts of lines that failed to be appended go uncounted.                 *)
WholeLines == {i \in DOMAIN Lines(0) : Lines(0)[i].whole}
FileBounded == Cardinality(WholeLines) <= MaxLogBytes

(* What a failed, interrupted or repeated rotation may not touch: the      *)
(* order of the log, and the bound of its current file.                    *)
LogIntact == OrderKept /\ FileBounded

(* A line that is on disk disappears in one way only, with the oldest      *)
(* generation; no failed or interrupted rotation overwrites another one.   *)
OnDisk == UNION {ToSet(Lines(g)) : g \in Generations}
LinesLeaveByRotation ==
  [][OnDisk \subseteq OnDisk' \cup ToSet(Lines(LogFiles))]_journalVars
=============================================================================
