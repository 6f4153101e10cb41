------------------------ MODULE RecordsPager_proofs ------------------------
(***************************************************************************)
(* The event log and its pager, for any ring, page size, queue, number of  *)
(* files, records, fetches and restarts.                                   *)
(*                                                                         *)
(* Nothing is shown after signing out.  The table can be filled only by    *)
(* the reply to the newest fetch.  Signing out moves the revision past     *)
(* every fetch under way, and none is sent before the next sign-in: while  *)
(* signed out, no fetch is the newest.                                     *)
(*                                                                         *)
(* The log keeps its order and its bound.  The queue is rising and behind  *)
(* everything on disk; a generation is renamed only to a place that has    *)
(* been vacated; and the process never counts less than the whole lines of *)
(* the current file, so that it rotates in time.                           *)
(*                                                                         *)
(* A page of the history continues the one in the table.  The ring is in   *)
(* order and leaves out nothing that is known and not older than all of    *)
(* it.  While the session lasts, the table fits the ring: its records are  *)
(* where its page number says, counted back from the anchor, or older than *)
(* all of the ring.  So does the page that is served while the anchor is   *)
(* retained; and two pages that fit the ring at one anchor are in order.   *)
(***************************************************************************)
EXTENDS RecordsPager, FiniteSetTheorems, SequenceTheorems, WellFoundedInduction, TLAPS

Shape(f) ==
  f = [run |-> f.run, page |-> f.page, live |-> f.live, recovery |-> f.recovery,
       anchor |-> f.anchor, reply |-> f.reply]

Superseded ==
  /\ revision \in Nat
  /\ \A f \in fetches : Shape(f) /\ f.run \in Nat /\ f.run <= revision
  /\ ~signedIn => shown = <<>> /\ \A f \in fetches : f.run < revision

(* A fetch that is sent has the fields of a fetch and the next revision.   *)
LEMMA SentShape ==
  ASSUME NEW page, NEW live, NEW recovery, NEW anchor
  PROVE  /\ Shape(Sent(page, live, recovery, anchor))
         /\ Sent(page, live, recovery, anchor).run = revision + 1
  BY DEF Shape, Sent

(* The reply changes nothing else of a fetch.                              *)
LEMMA AnsweredShape ==
  ASSUME NEW f, Shape(f), NEW reply
  PROVE  Shape([f EXCEPT !.reply = reply]) /\ [f EXCEPT !.reply = reply].run = f.run
<1>1. [f EXCEPT !.reply = reply] =
        [run |-> f.run, page |-> f.page, live |-> f.live, recovery |-> f.recovery,
         anchor |-> f.anchor, reply |-> reply]
  BY DEF Shape
<1>2. QED  BY <1>1 DEF Shape

(* A step of the pager keeps Superseded. *)
LEMMA ConsoleStep == Superseded /\ Console => Superseded'
<1> SUFFICES ASSUME Superseded, Console PROVE Superseded'
  OBVIOUS
<1> USE DEF Superseded
<1>1. ASSUME NEW page, NEW live, Load(page, live) PROVE Superseded'
  <2> DEFINE s == Sent(page, live, TRUE, pager.anchor)
  <2>1. Shape(s) /\ s.run = revision + 1
    BY SentShape
  <2>2. fetches' = fetches \cup {s} /\ revision' = revision + 1 /\ signedIn' = signedIn
        /\ signedIn
    BY <1>1 DEF Load
  <2> HIDE DEF s
  <2>3. QED  BY <2>1, <2>2
<1>2. ASSUME NEW f \in fetches, Serve(f) PROVE Superseded'
  <2> DEFINE g == [f EXCEPT !.reply = Answer(f)]
  <2>1. Shape(g) /\ g.run = f.run
    BY AnsweredShape
  <2>2. /\ fetches' = (fetches \ {f}) \cup {g}
        /\ UNCHANGED <<signedIn, shown, revision>>
    BY <1>2 DEF Serve
  <2> HIDE DEF g
  <2>3. QED  BY <2>1, <2>2
<1>3. ASSUME ShowLogin, fetches' \subseteq fetches PROVE Superseded'
  BY <1>3 DEF ShowLogin, Reset
<1>4. ASSUME NEW f \in fetches, Arrive(f) PROVE Superseded'
  <2>1. CASE Denied(f)
    BY <2>1, <1>3 DEF Denied
  <2>2. CASE Show(f)
    BY <2>2 DEF Show, Current, Arrived
  <2>3. CASE Recover(f)
    <3> DEFINE s == Sent(1, TRUE, FALSE, None)
    <3>1. Shape(s) /\ s.run = revision + 1
      BY SentShape
    <3>2. /\ fetches' = (fetches \ {f}) \cup {s} /\ revision' = revision + 1
          /\ signedIn' = signedIn /\ f.run = revision
      BY <2>3 DEF Recover, Current
    <3> HIDE DEF s
    <3>3. signedIn
      BY <3>2
    <3>4. QED  BY <3>1, <3>2, <3>3
  <2>4. CASE KeepPage(f) \/ Discard(f)
    BY <2>4 DEF KeepPage, Discard, Arrived
  <2>5. QED  BY <1>4, <2>1, <2>2, <2>3, <2>4 DEF Arrive
<1>5. CASE Browse
  BY <1>5, <1>1 DEF Browse, Poll, Latest, NextPage, PreviousPage, Go
<1>6. CASE SignIn \/ SessionEnds
  BY <1>6 DEF SignIn, SessionEnds
<1>7. CASE SignOut \/ Noticed
  BY <1>7, <1>3 DEF SignOut, Noticed
<1>8. QED  BY <1>2, <1>4, <1>5, <1>6, <1>7 DEF Console, FetchStep

(* While nobody is signed in, the table is empty (public/records.js reset, *)
(* app.js showLogin).                                                      *)
THEOREM NeverShownSignedOut == Spec => []NothingShownSignedOut
<1>1. Init => Superseded
  BY DEF Init, PagerInit, Superseded
<1>2. Superseded /\ [Next]_vars => Superseded'
  <2> SUFFICES ASSUME Superseded, [Next]_vars PROVE Superseded'
    OBVIOUS
  <2>1. CASE Console
    BY <2>1, ConsoleStep
  <2>2. CASE UNCHANGED <<signedIn, shown, revision, fetches>>
    BY <2>2 DEF Superseded
  <2>3. QED  BY <2>1, <2>2 DEF Next, vars, pagerVars, Restart
<1>3. Superseded => NothingShownSignedOut
  BY DEF Superseded, NothingShownSignedOut
<1>4. QED  BY <1>1, <1>2, <1>3, PTL DEF Spec

-----------------------------------------------------------------------------
(* The journal: what is written, in which order, and how much of it *)

Record == [id : 1 .. added, whole : BOOLEAN]

StateTypes ==
  /\ added \in 0 .. MaxEvents /\ starts \in 0 .. MaxStarts
  /\ stage \in {"waiting", "shifting", "appending"} /\ slot \in 0 .. LogFiles - 1
  /\ stage # "waiting" => queue # <<>>

QueueTypes == queue \in Seq(1 .. added) /\ Len(queue) <= MaxPending

FileTypes == files \in [Generations -> Seq(Record) \cup {None}]

(* Every record is on its way to one place at most, and counted there. *)
Counts ==
  /\ bytes \in Nat /\ dropped \in Nat
  /\ Len(Lines(0)) + Len(queue) <= added
  /\ bytes + Len(queue) <= added
  /\ dropped + Len(queue) <= added

(* A generation is renamed to a place that has been vacated. *)
Vacated == stage = "shifting" => files[slot + 1] = None

(* The process counts at least the whole lines of the current file. *)
Counted ==
  /\ FileBounded
  /\ Cardinality(WholeLines) <= bytes
  /\ stage = "appending" => bytes = 0

JournalInv ==
  StateTypes /\ QueueTypes /\ FileTypes /\ Counts /\ Vacated /\ OrderKept /\ Counted

(* What Lines are, of a file or of none. *)
LEMMA LinesType ==
  ASSUME FileTypes, added \in Nat, NEW g \in Generations
  PROVE  /\ Lines(g) \in Seq(Record)
         /\ Len(Lines(g)) \in Nat /\ DOMAIN Lines(g) = 1 .. Len(Lines(g))
         /\ \A i \in DOMAIN Lines(g) : Lines(g)[i].id \in 1 .. added /\ Lines(g)[i].whole \in BOOLEAN
<1>1. Lines(g) \in Seq(Record)
  BY DEF FileTypes, Lines
<1>2. Len(Lines(g)) \in Nat /\ DOMAIN Lines(g) = 1 .. Len(Lines(g))
  BY <1>1
<1>3. \A i \in DOMAIN Lines(g) : Lines(g)[i] \in Record
  BY <1>1, <1>2, ElementOfSeq
<1>4. QED  BY <1>1, <1>2, <1>3 DEF Record

(* The head of the queue becomes the last line of the current file. *)
LEMMA ExtendedFiles ==
  ASSUME FileTypes, added \in Nat, QueueTypes, queue # <<>>, NEW whole \in BOOLEAN,
         files' = Extended(Line(Head(queue), whole)), added' = added
  PROVE  /\ FileTypes'
         /\ Lines(0)' = Append(Lines(0), Line(Head(queue), whole))
         /\ \A g \in Generations \ {0} : Lines(g)' = Lines(g)
<1> USE JournalAssumption
<1>1. Line(Head(queue), whole) \in Record
  BY DEF QueueTypes, Line, Record
<1>2. 0 \in Generations
  BY DEF Generations
<1>3. Append(Lines(0), Line(Head(queue), whole)) \in Seq(Record)
  BY <1>1, <1>2, LinesType
<1>4. Append(Lines(0), Line(Head(queue), whole)) # None
  <2>1. Record \subseteq [id : Nat, whole : BOOLEAN]
    BY DEF Record
  <2>2. Append(Lines(0), Line(Head(queue), whole)) \in Seq([id : Nat, whole : BOOLEAN])
    <3> DEFINE s == Append(Lines(0), Line(Head(queue), whole))
               big == [id : Nat, whole : BOOLEAN]
    <3>1. s \in Seq(Record) /\ Record \subseteq big
      BY <1>3, <2>1
    <3> HIDE DEF s, big
    <3>2. s \in Seq(big)
      BY <3>1, SeqMonotonic
    <3>3. QED  BY <3>2 DEF s, big
  <2>3. QED  BY <2>2
<1>5. /\ files' \in [Generations -> Seq(Record) \cup {None}]
      /\ files'[0] = Append(Lines(0), Line(Head(queue), whole))
      /\ \A g \in Generations \ {0} : files'[g] = files[g]
  BY <1>2, <1>3 DEF FileTypes, Extended
<1>6. QED
  BY <1>2, <1>4, <1>5 DEF FileTypes, Lines, Record

(* The order of the log, element by element. *)
Ordered ==
  /\ \A i, j \in DOMAIN queue : i < j => queue[i] < queue[j]
  /\ \A g \in Generations : \A i, j \in DOMAIN Lines(g) : i < j => Lines(g)[i].id < Lines(g)[j].id
  /\ \A g \in Generations : \A i \in DOMAIN Lines(g), j \in DOMAIN queue : Lines(g)[i].id < queue[j]
  /\ \A g, h \in Generations : h < g =>
       \A i \in DOMAIN Lines(g), j \in DOMAIN Lines(h) : Lines(g)[i].id < Lines(h)[j].id

(* OrderKept, stated about single lines.                                   *)
LEMMA OrderByElements == (OrderKept <=> Ordered) /\ (OrderKept <=> Ordered)'
BY DEF OrderKept, Ordered, Rising, Precedes, Ids

(* Its head goes from the queue to the end of the current file. *)
LEMMA OrderedExtended ==
  ASSUME StateTypes, FileTypes, QueueTypes, queue # <<>>, Ordered, NEW whole \in BOOLEAN,
         files' = Extended(Line(Head(queue), whole)), added' = added,
         queue' \in {Tail(queue), <<>>}
  PROVE  Ordered'
<1> DEFINE n == Len(Lines(0))
<1>1. added \in Nat /\ 0 \in Generations
  BY JournalAssumption DEF StateTypes, Generations
<1>2. /\ Lines(0)' = Append(Lines(0), Line(Head(queue), whole))
      /\ \A g \in Generations \ {0} : Lines(g)' = Lines(g)
  BY <1>1, ExtendedFiles
<1>3. \A g \in Generations : Len(Lines(g)) \in Nat /\ DOMAIN Lines(g) = 1 .. Len(Lines(g))
  BY <1>1, LinesType
<1>4. /\ DOMAIN (Lines(0)') = 1 .. n + 1
      /\ \A i \in 1 .. n : Lines(0)'[i] = Lines(0)[i]
      /\ Lines(0)'[n + 1].id = queue[1]
  <2>1. Lines(0) \in Seq(Record)
    BY <1>1, LinesType
  <2>2. Head(queue) = queue[1]
    BY DEF QueueTypes
  <2>3. QED  BY <1>2, <2>1, <2>2 DEF Line
<1>5. /\ DOMAIN queue = 1 .. Len(queue) /\ Len(queue) \in Nat \ {0}
      /\ \A k \in DOMAIN queue' : k + 1 \in DOMAIN queue /\ queue'[k] = queue[k + 1] /\ k \in Nat \ {0}
  BY DEF QueueTypes
<1>6. \A g \in Generations : \A i \in DOMAIN (Lines(g)') :
         \/ i \in DOMAIN Lines(g) /\ Lines(g)'[i] = Lines(g)[i] /\ (g = 0 => i <= n)
         \/ g = 0 /\ i = n + 1 /\ Lines(g)'[i].id = queue[1]
  BY <1>1, <1>2, <1>3, <1>4
<1>7. \A i, j \in DOMAIN queue' : i < j => queue'[i] < queue'[j]
  BY <1>5 DEF Ordered
<1>8. \A g \in Generations : \A i, j \in DOMAIN (Lines(g)') : i < j => Lines(g)'[i].id < Lines(g)'[j].id
  BY <1>3, <1>5, <1>6 DEF Ordered
<1>9. \A g \in Generations : \A i \in DOMAIN (Lines(g)'), j \in DOMAIN queue' : Lines(g)'[i].id < queue'[j]
  BY <1>5, <1>6 DEF Ordered
<1>10. \A g, h \in Generations : h < g =>
         \A i \in DOMAIN (Lines(g)'), j \in DOMAIN (Lines(h)') : Lines(g)'[i].id < Lines(h)'[j].id
  BY <1>1, <1>5, <1>6 DEF Ordered, Generations
<1>11. QED  BY <1>7, <1>8, <1>9, <1>10 DEF Ordered

(* A record is added behind all others. *)
LEMMA OrderedAdded ==
  ASSUME StateTypes, FileTypes, QueueTypes, Ordered, files' = files, added' = added + 1,
         queue' \in {queue, Append(queue, added')}
  PROVE  Ordered'
<1>1. added \in Nat
  BY DEF StateTypes
<1>2. \A g \in Generations : Lines(g)' = Lines(g)
  BY DEF Lines
<1>3. \A g \in Generations : \A i \in DOMAIN Lines(g) : Lines(g)[i].id \in 1 .. added
  BY <1>1, LinesType
<1>4. /\ DOMAIN queue = 1 .. Len(queue) /\ Len(queue) \in Nat
      /\ \A k \in DOMAIN queue : queue[k] \in 1 .. added
  <2>1. queue \in Seq(1 .. added) /\ Len(queue) \in Nat /\ DOMAIN queue = 1 .. Len(queue)
    BY DEF QueueTypes
  <2>2. QED  BY <2>1, ElementOfSeq
<1>5. \A k \in DOMAIN queue' :
         \/ k \in DOMAIN queue /\ queue'[k] = queue[k]
         \/ k = Len(queue) + 1 /\ queue'[k] = added + 1
  BY <1>1, <1>4 DEF QueueTypes
<1>6. \A i, j \in DOMAIN queue' : i < j => queue'[i] < queue'[j]
  BY <1>1, <1>4, <1>5 DEF Ordered
<1>7. \A g \in Generations : \A i \in DOMAIN (Lines(g)'), j \in DOMAIN queue' : Lines(g)'[i].id < queue'[j]
  BY <1>1, <1>2, <1>3, <1>5 DEF Ordered
<1>8. QED  BY <1>2, <1>6, <1>7 DEF Ordered

(* Files that are only removed or renamed to the next, vacated place. *)
LEMMA OrderedMoved ==
  ASSUME Ordered, queue' \in {queue, <<>>},
         \A g \in Generations :
            \/ Lines(g)' \in {Lines(g), <<>>}
            \/ g - 1 \in Generations /\ Lines(g)' = Lines(g - 1) /\ Lines(g - 1)' = <<>> /\ Lines(g) = <<>>
  PROVE  Ordered'
<1> USE DEF Generations
<1>1. \A g \in Generations : \A i \in DOMAIN (Lines(g)') :
         \E f \in {g, g - 1} \cap Generations :
            /\ i \in DOMAIN Lines(f) /\ Lines(g)' = Lines(f)
            /\ f # g => Lines(g - 1)' = <<>>
  OBVIOUS
<1>2. \A i, j \in DOMAIN queue' : i < j => queue'[i] < queue'[j]
  BY DEF Ordered
<1>3. \A g \in Generations : \A i, j \in DOMAIN (Lines(g)') : i < j => Lines(g)'[i].id < Lines(g)'[j].id
  BY <1>1 DEF Ordered
<1>4. \A g \in Generations : \A i \in DOMAIN (Lines(g)'), j \in DOMAIN queue' : Lines(g)'[i].id < queue'[j]
  BY <1>1 DEF Ordered
<1>5. ASSUME NEW g \in Generations, NEW h \in Generations, h < g,
             NEW i \in DOMAIN (Lines(g)'), NEW j \in DOMAIN (Lines(h)')
      PROVE  Lines(g)'[i].id < Lines(h)'[j].id
  <2>1. PICK f \in {g, g - 1} \cap Generations :
           i \in DOMAIN Lines(f) /\ Lines(g)' = Lines(f) /\ (f # g => Lines(g - 1)' = <<>>)
    BY <1>1
  <2>2. PICK e \in {h, h - 1} \cap Generations : j \in DOMAIN Lines(e) /\ Lines(h)' = Lines(e)
    BY <1>1
  <2>3. e < f
    <3>1. CASE f = g
      BY <1>5, <3>1
    <3>2. CASE f # g
      <4>1. h # g - 1
        BY <2>1, <3>2
      <4>2. QED  BY <1>5, <2>1, <3>2, <4>1
    <3>3. QED  BY <3>1, <3>2
  <2>4. QED  BY <2>1, <2>2, <2>3 DEF Ordered
<1>6. QED  BY <1>2, <1>3, <1>4, <1>5 DEF Ordered

(* There are no more whole lines than lines. *)
LEMMA WholeCount ==
  ASSUME FileTypes, added \in Nat
  PROVE  /\ WholeLines \subseteq 1 .. Len(Lines(0)) /\ IsFiniteSet(WholeLines)
         /\ Cardinality(WholeLines) \in Nat /\ Cardinality(WholeLines) <= Len(Lines(0))
<1> DEFINE n == Len(Lines(0))
<1>1. n \in Nat /\ WholeLines \subseteq 1 .. n
  BY JournalAssumption, LinesType DEF WholeLines, Generations
<1> HIDE DEF n
<1>2. IsFiniteSet(1 .. n) /\ Cardinality(1 .. n) = n
  BY <1>1, FS_Interval
<1>3. IsFiniteSet(WholeLines) /\ Cardinality(WholeLines) <= Cardinality(1 .. n)
  BY <1>1, <1>2, FS_Subset
<1>4. Cardinality(WholeLines) \in Nat
  BY <1>3, FS_CardinalityType
<1>5. QED  BY <1>1, <1>2, <1>3, <1>4 DEF n

(* How many whole lines the current file has then. *)
LEMMA WholeExtended ==
  ASSUME StateTypes, FileTypes, QueueTypes, queue # <<>>, NEW whole \in BOOLEAN,
         files' = Extended(Line(Head(queue), whole)), added' = added
  PROVE  /\ Cardinality(WholeLines) \in Nat /\ Cardinality(WholeLines) <= Len(Lines(0))
         /\ Cardinality(WholeLines') = IF whole THEN Cardinality(WholeLines) + 1 ELSE Cardinality(WholeLines)
         /\ Len(Lines(0)') = Len(Lines(0)) + 1 /\ Len(Lines(0)) \in Nat
<1> DEFINE n == Len(Lines(0))
<1>1. added \in Nat /\ 0 \in Generations
  BY JournalAssumption DEF StateTypes, Generations
<1>2. Lines(0)' = Append(Lines(0), Line(Head(queue), whole)) /\ Lines(0) \in Seq(Record) /\ n \in Nat
  BY <1>1, ExtendedFiles, LinesType
<1>3. /\ DOMAIN Lines(0) = 1 .. n /\ DOMAIN (Lines(0)') = 1 .. n + 1 /\ Len(Lines(0)') = n + 1
      /\ \A i \in 1 .. n : Lines(0)'[i] = Lines(0)[i]
      /\ Lines(0)'[n + 1].whole = whole
  BY <1>2 DEF Line
<1>4. WholeLines' = IF whole THEN WholeLines \cup {n + 1} ELSE WholeLines
  BY <1>2, <1>3 DEF WholeLines
<1>5. WholeLines \subseteq 1 .. n /\ n + 1 \notin WholeLines
  BY <1>2, <1>3 DEF WholeLines
<1>6. IsFiniteSet(WholeLines) /\ Cardinality(WholeLines) \in Nat /\ Cardinality(WholeLines) <= n
  BY <1>1, WholeCount
<1>7. Cardinality(WholeLines \cup {n + 1}) = Cardinality(WholeLines) + 1
  BY <1>5, <1>6, FS_AddElement
<1>8. QED  BY <1>2, <1>3, <1>4, <1>6, <1>7

(* A record is added. *)
LEMMA AddKeeps == ASSUME JournalInv, Add PROVE JournalInv'
<1> USE JournalAssumption DEF JournalInv
<1>1. added \in Nat /\ added' = added + 1 /\ UNCHANGED <<stage, slot, files, bytes, starts>>
  BY DEF StateTypes, Add
<1>2. \/ queue' = queue /\ dropped' = dropped + 1
      \/ queue' = Append(queue, added') /\ dropped' = dropped /\ Len(queue) < MaxPending
  BY DEF Add, QueueTypes
<1>3. queue \in Seq(1 .. added') /\ Len(queue) \in Nat
  <2>1. queue \in Seq(1 .. added) /\ 1 .. added \subseteq 1 .. added'
    BY <1>1 DEF QueueTypes
  <2> DEFINE old == 1 .. added
             new == 1 .. added'
  <2> HIDE DEF old, new
  <2>2. queue \in Seq(old) /\ old \subseteq new
    BY <2>1 DEF old, new
  <2>3. queue \in Seq(new)
    BY <2>2, SeqMonotonic
  <2>4. QED  BY <2>1, <2>3 DEF new
<1>4. /\ QueueTypes' /\ (queue # <<>> => queue' # <<>>)
      /\ \/ Len(queue') = Len(queue) /\ dropped' = dropped + 1
         \/ Len(queue') = Len(queue) + 1 /\ dropped' = dropped
  <2> DEFINE ids == 1 .. added'
  <2>1. added' \in ids
    BY <1>1
  <2> HIDE DEF ids
  <2>2. queue \in Seq(ids)
    BY <1>3 DEF ids
  <2>3. Append(queue, added') \in Seq(ids) /\ Len(Append(queue, added')) = Len(queue) + 1
        /\ Append(queue, added') # <<>>
    BY <2>1, <2>2, AppendProperties
  <2>4. queue' \in Seq(ids) /\ Len(queue') <= MaxPending
    BY <1>2, <1>3, <2>2, <2>3 DEF QueueTypes
  <2>5. QED  BY <1>2, <2>3, <2>4 DEF QueueTypes, ids
<1>5. StateTypes'
  BY <1>1, <1>4 DEF StateTypes, Add
<1>6. FileTypes'
  <2>1. Record \subseteq Record'
    BY <1>1 DEF Record
  <2> DEFINE old == Record
             new == Record'
  <2>2. \A g \in Generations : files[g] \in Seq(old) \cup {None}
    BY DEF FileTypes
  <2>3. ASSUME NEW lines \in Seq(old) PROVE lines \in Seq(new)
    <3> HIDE DEF old, new
    <3>1. old \subseteq new
      BY <2>1 DEF old, new
    <3>2. QED  BY <2>3, <3>1, SeqMonotonic
  <2>4. \A g \in Generations : files[g] \in Seq(new) \cup {None}
    BY <2>2, <2>3
  <2> HIDE DEF new
  <2>5. files' \in [Generations -> Seq(new) \cup {None}]
    BY <1>1, <2>4 DEF FileTypes
  <2>6. QED  BY <2>5 DEF FileTypes, new
<1>7. Lines(0)' = Lines(0) /\ Len(Lines(0)) \in Nat
  BY <1>1, LinesType DEF Lines, Generations
<1>8. Counts'
  <2>1. /\ bytes \in Nat /\ dropped \in Nat /\ bytes' = bytes
        /\ Len(Lines(0)) + Len(queue) <= added /\ bytes + Len(queue) <= added /\ dropped + Len(queue) <= added
    BY <1>1 DEF Counts
  <2>2. Len(queue') <= Len(queue) + 1 /\ Len(queue') \in Nat
    BY <1>3, <1>4
  <2>3. dropped' \in Nat /\ dropped' + Len(queue') <= added'
    <3>1. CASE Len(queue') = Len(queue) /\ dropped' = dropped + 1
      BY <1>1, <1>3, <2>1, <3>1
    <3>2. CASE Len(queue') = Len(queue) + 1 /\ dropped' = dropped
      BY <1>1, <1>3, <2>1, <3>2
    <3>3. QED  BY <1>4, <3>1, <3>2
  <2>4. Len(Lines(0)') + Len(queue') <= added' /\ bytes' + Len(queue') <= added'
    BY <1>1, <1>3, <1>7, <2>1, <2>2
  <2>5. QED  BY <2>1, <2>3, <2>4 DEF Counts
<1>9. Vacated' /\ Counted'
  BY <1>1, <1>7 DEF Vacated, Counted, FileBounded, WholeLines
<1>10. OrderKept'
  <2>1. Ordered /\ queue' \in {queue, Append(queue, added')}
    BY <1>2, OrderByElements
  <2>2. Ordered'
    BY <1>1, <2>1, OrderedAdded
  <2>3. QED  BY <2>2, OrderByElements
<1>11. QED  BY <1>4, <1>5, <1>6, <1>8, <1>9, <1>10

(* The files after a step of the rotation. *)
LEMMA RotatedFiles ==
  ASSUME StateTypes, FileTypes, Vacated, added' = added, RemoveOldest \/ Shift
  PROVE  /\ FileTypes'
         /\ RemoveOldest => /\ files'[LogFiles] = None
                            /\ \A g \in Generations \ {LogFiles} : files'[g] = files[g]
         /\ Shift => /\ slot \in Generations /\ slot + 1 \in Generations /\ files[slot + 1] = None
                     /\ files'[slot + 1] = files[slot] /\ files'[slot] = None
                     /\ \A g \in Generations \ {slot, slot + 1} : files'[g] = files[g]
<1>1. LogFiles \in Nat \ {0} /\ LogFiles \in Generations /\ slot \in 0 .. LogFiles - 1
  BY JournalAssumption DEF Generations, StateTypes
<1>2. \A g \in Generations : files[g] \in Seq(Record) \cup {None}
  BY DEF FileTypes
<1>3. Record' = Record
  BY DEF Record
<1>4. CASE RemoveOldest
  <2>1. files' = [files EXCEPT ![LogFiles] = None] /\ stage # "shifting"
    BY <1>4 DEF RemoveOldest
  <2>2. ~Shift
    BY <2>1 DEF Shift
  <2>3. QED  BY <1>1, <1>3, <2>1, <2>2 DEF FileTypes
<1>5. CASE Shift
  <2>1. slot \in Generations /\ slot + 1 \in Generations /\ stage = "shifting"
    BY <1>1, <1>5 DEF Generations, Shift
  <2>2. files[slot + 1] = None
    BY <2>1 DEF Vacated
  <2>3. IF Exists(slot) THEN TRUE ELSE files[slot] = None
    BY DEF Exists
  <2>4. files' = [files EXCEPT ![slot + 1] = files[slot], ![slot] = None]
    BY <1>5, <2>1, <2>2, <2>3 DEF Shift, FileTypes
  <2>5. slot # slot + 1 /\ ~RemoveOldest
    BY <1>1, <2>1 DEF RemoveOldest
  <2>6. QED  BY <1>2, <1>3, <2>1, <2>2, <2>4, <2>5 DEF FileTypes
<1>6. QED  BY <1>4, <1>5

(* The oldest generation is removed. *)
LEMMA RemoveKeeps == ASSUME JournalInv, RemoveOldest PROVE JournalInv'
<1> USE DEF JournalInv
<1>1. /\ stage = "waiting" /\ queue # <<>> /\ stage' = "shifting" /\ slot' = LogFiles - 1
      /\ UNCHANGED <<added, recent, queue, bytes, dropped, starts>>
  BY DEF RemoveOldest
<1>2. LogFiles \in Nat \ {0} /\ 0 \in Generations
  BY JournalAssumption DEF Generations
<1>3. /\ FileTypes' /\ files'[LogFiles] = None
      /\ \A g \in Generations \ {LogFiles} : files'[g] = files[g]
  BY <1>1, RotatedFiles
<1>4. Lines(0)' = Lines(0) /\ \A g \in Generations : Lines(g)' \in {Lines(g), <<>>}
  BY <1>2, <1>3 DEF Lines
<1>5. StateTypes' /\ QueueTypes' /\ Vacated'
  BY <1>1, <1>2, <1>3 DEF StateTypes, QueueTypes, Vacated
<1>6. Counts' /\ Counted'
  BY <1>1, <1>4 DEF Counts, Counted, FileBounded, WholeLines
<1>7. OrderKept'
  <2>1. Ordered'
    BY <1>1, <1>4, OrderedMoved, OrderByElements
  <2>2. QED  BY <2>1, OrderByElements
<1>8. QED  BY <1>3, <1>5, <1>6, <1>7

(* A generation, or the current file, is renamed. *)
LEMMA ShiftKeeps == ASSUME JournalInv, Shift PROVE JournalInv'
<1> USE DEF JournalInv
<1>1. /\ stage = "shifting" /\ queue # <<>> /\ slot \in 0 .. LogFiles - 1 /\ LogFiles \in Nat
      /\ IF slot = 0 THEN stage' = "appending" /\ bytes' = 0 /\ slot' = slot
         ELSE slot' = slot - 1 /\ UNCHANGED <<stage, bytes>>
      /\ UNCHANGED <<added, recent, queue, dropped, starts>>
  BY JournalAssumption DEF Shift, StateTypes
<1>2. /\ FileTypes' /\ slot \in Generations /\ slot + 1 \in Generations /\ files[slot + 1] = None
      /\ files'[slot + 1] = files[slot] /\ files'[slot] = None
      /\ \A g \in Generations \ {slot, slot + 1} : files'[g] = files[g]
  BY <1>1, RotatedFiles
<1> PICK k \in Generations : k = slot
  BY <1>2
<1>3. /\ Lines(k + 1)' = Lines(k) /\ Lines(k)' = <<>> /\ Lines(k + 1) = <<>>
      /\ \A g \in Generations \ {k, k + 1} : Lines(g)' = Lines(g)
  BY <1>1, <1>2 DEF Lines
<1>4. StateTypes' /\ QueueTypes'
  BY <1>1 DEF StateTypes, QueueTypes
<1>5. Vacated'
  BY <1>1, <1>2 DEF Vacated
<1>6. OrderKept'
  <2>1. \A g \in Generations :
            \/ Lines(g)' \in {Lines(g), <<>>}
            \/ g - 1 \in Generations /\ Lines(g)' = Lines(g - 1) /\ Lines(g - 1)' = <<>> /\ Lines(g) = <<>>
    <3> SUFFICES ASSUME NEW g \in Generations
                 PROVE  \/ Lines(g)' \in {Lines(g), <<>>}
                        \/ g - 1 \in Generations /\ Lines(g)' = Lines(g - 1) /\ Lines(g - 1)' = <<>> /\ Lines(g) = <<>>
      OBVIOUS
    <3>1. CASE g = k + 1
      <4>1. g - 1 = k
        BY <1>1, <3>1
      <4>2. QED  BY <1>2, <1>3, <3>1, <4>1
    <3>2. CASE g # k + 1
      BY <1>3, <3>2
    <3>3. QED  BY <3>1, <3>2
  <2>2. Ordered'
    BY <1>1, <2>1, OrderedMoved, OrderByElements
  <2>3. QED  BY <2>2, OrderByElements
<1>7. Counts' /\ Counted'
  <2>1. CASE k = 0
    <3>1. Lines(0)' = <<>> /\ bytes' = 0 /\ WholeLines' = {}
      BY <1>1, <1>3, <2>1 DEF WholeLines
    <3>2. Cardinality(WholeLines') = 0 /\ Len(Lines(0)') = 0 /\ Len(Lines(0)) \in Nat
      BY <3>1, <1>2, <2>1, FS_EmptySet, LinesType DEF StateTypes
    <3>3. added \in Nat /\ Len(queue) \in Nat /\ MaxLogBytes \in Nat
      BY JournalAssumption DEF StateTypes, QueueTypes
    <3>4. QED  BY <1>1, <3>1, <3>2, <3>3 DEF Counts, Counted, FileBounded
  <2>2. CASE k # 0
    <3>1. Lines(0)' = Lines(0)
      BY <1>1, <1>3, <2>2 DEF Generations
    <3>2. QED  BY <1>1, <2>2, <3>1 DEF Counts, Counted, FileBounded, WholeLines
  <2>3. QED  BY <2>1, <2>2
<1>8. QED  BY <1>2, <1>4, <1>5, <1>6, <1>7

(* The head of the queue is settled: its line has been appended, whole or  *)
(* in part, or it is given up.                                             *)
LEMMA SettledQueue ==
  ASSUME QueueTypes, added \in Nat, queue # <<>>, queue' = Tail(queue)
  PROVE  queue' \in Seq(1 .. added) /\ Len(queue) \in Nat /\ Len(queue') = Len(queue) - 1
<1> DEFINE ids == 1 .. added
<1>1. queue \in Seq(ids)
  BY DEF QueueTypes
<1> HIDE DEF ids
<1>2. Tail(queue) \in Seq(ids) /\ Len(Tail(queue)) = Len(queue) - 1 /\ Len(queue) \in Nat
  BY <1>1, HeadTailProperties, LenProperties
<1>3. QED  BY <1>2 DEF ids

(* A line is appended whole. *)
LEMMA AppendKeeps == ASSUME JournalInv, AppendLine PROVE JournalInv'
<1> USE DEF JournalInv
<1>1. /\ stage' = "waiting" /\ slot' = 0 /\ queue' = Tail(queue) /\ bytes' = bytes + 1
      /\ files' = Extended(Line(Head(queue), TRUE)) /\ queue # <<>>
      /\ UNCHANGED <<added, recent, dropped, starts>>
  BY DEF AppendLine, Settled, Ready, StateTypes
<1>2. added \in Nat /\ added' = added /\ LogFiles \in Nat \ {0} /\ {MaxLogBytes, MaxPending} \subseteq Nat \ {0}
  BY <1>1, JournalAssumption DEF StateTypes
<1>3. queue' \in Seq(1 .. added) /\ Len(queue) \in Nat /\ Len(queue') = Len(queue) - 1
  BY <1>1, <1>2, SettledQueue
<1>4. StateTypes' /\ QueueTypes' /\ Vacated'
  BY <1>1, <1>2, <1>3 DEF StateTypes, QueueTypes, Vacated
<1>5. FileTypes'
  BY <1>1, <1>2, ExtendedFiles
<1>6. /\ Cardinality(WholeLines) \in Nat /\ Cardinality(WholeLines') = Cardinality(WholeLines) + 1
      /\ Len(Lines(0)') = Len(Lines(0)) + 1 /\ Len(Lines(0)) \in Nat
  BY <1>1, <1>2, WholeExtended
<1>7. Counts'
  BY <1>1, <1>2, <1>3, <1>6 DEF Counts
<1>8. Counted'
  <2>1. Cardinality(WholeLines) <= bytes /\ bytes \in Nat
    BY DEF Counted, Counts
  <2>2. bytes + 1 <= MaxLogBytes
    BY <1>1, <1>2, <2>1 DEF AppendLine, Ready, TooLong, Counted
  <2>3. QED  BY <1>1, <1>2, <1>6, <2>1, <2>2 DEF Counted, FileBounded
<1>9. OrderKept'
  <2>1. Ordered'
    BY <1>1, <1>2, OrderedExtended, OrderByElements
  <2>2. QED  BY <2>1, OrderByElements
<1>10. QED  BY <1>4, <1>5, <1>7, <1>8, <1>9

(* A part of the head's line may be appended, whatever becomes of it. *)
LEMMA TornKeeps ==
  ASSUME JournalInv, queue # <<>>, added' = added, queue' \in {Tail(queue), <<>>},
         files' \in {files} \cup (IF Ready THEN {Extended(Line(Head(queue), FALSE))} ELSE {})
  PROVE  /\ FileTypes' /\ OrderKept'
         /\ Cardinality(WholeLines') = Cardinality(WholeLines)
         /\ Cardinality(WholeLines') \in Nat /\ Cardinality(WholeLines') <= Len(Lines(0)')
         /\ Len(Lines(0)') \in Nat /\ Len(Lines(0)') <= Len(Lines(0)) + 1
<1> USE DEF JournalInv
<1>1. added \in Nat
  BY DEF StateTypes
<1>2. /\ Cardinality(WholeLines) \in Nat /\ Cardinality(WholeLines) <= Len(Lines(0)) /\ Len(Lines(0)) \in Nat
  BY <1>1, WholeCount, LinesType, JournalAssumption DEF Generations
<1>3. CASE files' = files
  <2>1. \A g \in Generations : Lines(g)' = Lines(g)
    BY <1>3 DEF Lines
  <2>2. Lines(0)' = Lines(0) /\ WholeLines' = WholeLines
    BY <1>3 DEF Lines, WholeLines
  <2>3. FileTypes'
    BY <1>3 DEF FileTypes, Record
  <2>4. Ordered'
    <3>1. queue' = Tail(queue) => \A k \in DOMAIN queue' : k + 1 \in DOMAIN queue /\ queue'[k] = queue[k + 1] /\ k \in Nat
      BY DEF QueueTypes
    <3>2. Ordered
      BY OrderByElements
    <3>3. \A i, j \in DOMAIN queue' : i < j => queue'[i] < queue'[j]
      BY <3>1, <3>2 DEF Ordered
    <3>4. \A g \in Generations : \A i \in DOMAIN Lines(g), j \in DOMAIN queue' : Lines(g)[i].id < queue'[j]
      BY <3>1, <3>2 DEF Ordered
    <3>5. QED  BY <2>1, <3>2, <3>3, <3>4 DEF Ordered
  <2>5. QED  BY <1>2, <2>2, <2>3, <2>4, OrderByElements
<1>4. CASE files' = Extended(Line(Head(queue), FALSE))
  <2>1. FileTypes'
    BY <1>1, <1>4, ExtendedFiles
  <2>2. Cardinality(WholeLines') = Cardinality(WholeLines) /\ Len(Lines(0)') = Len(Lines(0)) + 1
    BY <1>4, WholeExtended
  <2>3. Ordered'
    BY <1>4, OrderedExtended, OrderByElements
  <2>4. QED  BY <1>2, <2>1, <2>2, <2>3, OrderByElements
<1>5. QED  BY <1>3, <1>4

(* A call of the file system fails. *)
LEMMA FailKeeps == ASSUME JournalInv, Fail PROVE JournalInv'
<1> USE DEF JournalInv
<1>1. /\ stage' = "waiting" /\ slot' = 0 /\ queue' = Tail(queue) /\ queue # <<>> /\ dropped' = dropped + 1
      /\ files' \in {files} \cup (IF Ready THEN {Extended(Line(Head(queue), FALSE))} ELSE {})
      /\ UNCHANGED <<added, recent, bytes, starts>>
  BY DEF Fail, Settled
<1>2. added \in Nat /\ LogFiles \in Nat \ {0} /\ MaxPending \in Nat
  BY JournalAssumption DEF StateTypes
<1>3. queue' \in Seq(1 .. added) /\ Len(queue) \in Nat /\ Len(queue') = Len(queue) - 1
  BY <1>1, <1>2, SettledQueue
<1>4. StateTypes' /\ QueueTypes' /\ Vacated'
  BY <1>1, <1>2, <1>3 DEF StateTypes, QueueTypes, Vacated
<1>5. /\ FileTypes' /\ OrderKept'
      /\ Cardinality(WholeLines') = Cardinality(WholeLines)
      /\ Len(Lines(0)') \in Nat /\ Len(Lines(0)') <= Len(Lines(0)) + 1
  BY <1>1, TornKeeps
<1>6. Len(Lines(0)) \in Nat
  BY <1>2, LinesType, JournalAssumption DEF Generations
<1>7. Counts'
  BY <1>1, <1>2, <1>3, <1>5, <1>6 DEF Counts
<1>8. Counted'
  BY <1>1, <1>5 DEF Counted, FileBounded
<1>9. QED  BY <1>4, <1>5, <1>7, <1>8

(* The process ends and another one begins. *)
LEMMA RestartKeeps == ASSUME JournalInv, RestartJournal PROVE JournalInv'
<1> USE DEF JournalInv
<1>1. /\ stage' = "waiting" /\ slot' = 0 /\ queue' = <<>> /\ dropped' = 0 /\ bytes' = Len(Lines(0)')
      /\ files' \in {files} \cup (IF Ready THEN {Extended(Line(Head(queue), FALSE))} ELSE {})
      /\ added' = added /\ starts' = starts + 1 /\ starts < MaxStarts
  BY DEF RestartJournal
<1>2. /\ added \in Nat /\ LogFiles \in Nat \ {0} /\ MaxPending \in Nat /\ MaxStarts \in Nat /\ 0 \in Generations
      /\ Len(Lines(0)) \in Nat /\ Len(queue) \in Nat
  BY JournalAssumption, LinesType DEF StateTypes, QueueTypes, Generations
<1>3. StateTypes' /\ QueueTypes' /\ Vacated'
  BY <1>1, <1>2 DEF StateTypes, QueueTypes, Vacated
<1>4. CASE queue # <<>>
  <2>1. /\ FileTypes' /\ OrderKept'
        /\ Cardinality(WholeLines') = Cardinality(WholeLines)
        /\ Cardinality(WholeLines') \in Nat /\ Cardinality(WholeLines') <= Len(Lines(0)')
        /\ Len(Lines(0)') \in Nat /\ Len(Lines(0)') <= Len(Lines(0)) + 1
    BY <1>1, <1>4, TornKeeps
  <2>2. Len(queue) >= 1
    BY <1>4 DEF QueueTypes
  <2>3. Counts'
    BY <1>1, <1>2, <2>1, <2>2 DEF Counts
  <2>4. Counted'
    BY <1>1, <2>1 DEF Counted, FileBounded
  <2>5. QED  BY <1>3, <2>1, <2>3, <2>4
<1>5. CASE queue = <<>>
  <2>1. files' = files
    BY <1>1, <1>5 DEF Ready, StateTypes
  <2>2. /\ \A g \in Generations : Lines(g)' = Lines(g)
        /\ Lines(0)' = Lines(0) /\ WholeLines' = WholeLines
    BY <2>1 DEF Lines, WholeLines
  <2>3. FileTypes'
    BY <1>1, <2>1 DEF FileTypes, Record
  <2>4. OrderKept'
    BY <1>1, <1>5, <2>2, OrderedMoved, OrderByElements
  <2>5. Cardinality(WholeLines) <= Len(Lines(0))
    BY <1>2, WholeCount
  <2>6. Counts' /\ Counted'
    BY <1>1, <1>2, <1>5, <2>2, <2>5 DEF Counts, Counted, FileBounded
  <2>7. QED  BY <1>3, <2>3, <2>4, <2>6
<1>6. QED  BY <1>4, <1>5

(* The journal's invariant holds beside the pager. *)
LEMMA JournalHolds == Spec => []JournalInv
<1>1. Init => JournalInv
  <2> SUFFICES ASSUME Init PROVE JournalInv
    OBVIOUS
  <2> USE DEF Init, JournalInit
  <2>1. \A g \in Generations : Lines(g) = <<>> /\ files[g] = None
    BY DEF Lines
  <2>2. Lines(0) = <<>> /\ WholeLines = {} /\ Cardinality(WholeLines) = 0
    <3>1. Lines(0) = <<>>
      BY <2>1, JournalAssumption DEF Generations
    <3>2. WholeLines = {}
      BY <3>1 DEF WholeLines
    <3>3. QED  BY <3>1, <3>2, FS_EmptySet
  <2>3. StateTypes /\ QueueTypes /\ FileTypes /\ Vacated
    BY JournalAssumption DEF StateTypes, QueueTypes, FileTypes, Vacated
  <2>4. Counts /\ Counted
    BY <2>2, JournalAssumption DEF Counts, Counted, FileBounded
  <2>5. Ordered
    BY <2>1 DEF Ordered
  <2>6. QED  BY <2>3, <2>4, <2>5, OrderByElements DEF JournalInv
<1>2. JournalInv /\ [Next]_vars => JournalInv'
  <2>1. ASSUME JournalInv, UNCHANGED journalVars PROVE JournalInv'
    <3>1. \A g : Lines(g)' = Lines(g)
      BY <2>1 DEF journalVars, Lines
    <3>2. WholeLines' = WholeLines
      BY <3>1 DEF WholeLines
    <3>3. Ordered'
      BY <2>1, <3>1, OrderByElements DEF JournalInv, Ordered, journalVars
    <3>4. QED
      BY <2>1, <3>1, <3>2, <3>3, OrderByElements
         DEF journalVars, JournalInv, StateTypes, QueueTypes, FileTypes, Record, Counts, Vacated, Counted, FileBounded
  <2>2. QED
    BY <2>1, AddKeeps, RemoveKeeps, ShiftKeeps, AppendKeeps, FailKeeps, RestartKeeps DEF Next, Write, Restart, vars
<1>3. QED  BY <1>1, <1>2, PTL DEF Spec

(* Whatever rotation fails, or is interrupted by the end of the process,   *)
(* the log stays in order, without a record twice, and its current file    *)
(* within its limit (journal.mjs, writing chain and rotate).               *)
THEOREM LogStaysIntact == Spec => []LogIntact
<1>1. JournalInv => LogIntact
  BY DEF JournalInv, Counted, LogIntact
<1>2. QED  BY <1>1, JournalHolds, PTL

(* A line on disk stays, perhaps in the next generation, or it is in the   *)
(* oldest one.                                                             *)
LEMMA LinesStay ==
  ASSUME JournalInv, Next
  PROVE  OnDisk \subseteq OnDisk' \cup ToSet(Lines(LogFiles))
<1> USE DEF JournalInv
<1>1. added \in Nat /\ LogFiles \in Nat \ {0} /\ 0 \in Generations
  BY JournalAssumption DEF StateTypes, Generations
<1>2. SUFFICES ASSUME NEW g \in Generations \ {LogFiles}
               PROVE  \E h \in Generations : ToSet(Lines(g)) \subseteq ToSet(Lines(h)')
  BY DEF OnDisk
<1>3. CASE files' = files
  BY <1>3 DEF Lines
<1>4. CASE RemoveOldest
  <2>1. files'[g] = files[g]
    BY <1>4, RotatedFiles DEF RemoveOldest
  <2>2. QED  BY <2>1 DEF Lines
<1>5. CASE Shift
  <2> PICK k : k = slot
    OBVIOUS
  <2>1. /\ k \in Generations /\ k + 1 \in Generations /\ files[k + 1] = None
        /\ files'[k + 1] = files[k]
        /\ \A f \in Generations \ {k, k + 1} : files'[f] = files[f]
    BY <1>5, RotatedFiles DEF Shift
  <2>2. Lines(k + 1) = <<>> /\ Lines(k + 1)' = Lines(k) /\ \A f \in Generations \ {k, k + 1} : Lines(f)' = Lines(f)
    BY <2>1 DEF Lines
  <2>3. ToSet(Lines(k + 1)) = {}
    BY <2>2 DEF ToSet
  <2>4. CASE g = k
    BY <2>1, <2>2, <2>4
  <2>5. CASE g = k + 1
    BY <2>3, <2>5
  <2>6. CASE g \notin {k, k + 1}
    BY <2>2, <2>6
  <2>7. QED  BY <2>4, <2>5, <2>6
<1>6. ASSUME NEW whole \in BOOLEAN, queue # <<>>, added' = added, files' = Extended(Line(Head(queue), whole))
      PROVE  ToSet(Lines(g)) \subseteq ToSet(Lines(g)')
  <2>1. /\ Lines(0)' = Append(Lines(0), Line(Head(queue), whole))
        /\ \A f \in Generations \ {0} : Lines(f)' = Lines(f)
    BY <1>1, <1>6, ExtendedFiles
  <2>2. CASE g = 0
    <3>1. Lines(0) \in Seq(Record)
      BY <1>1, LinesType
    <3>2. \A i \in DOMAIN Lines(0) : i \in DOMAIN (Lines(0)') /\ Lines(0)'[i] = Lines(0)[i]
      BY <2>1, <3>1
    <3>3. QED  BY <2>2, <3>2 DEF ToSet
  <2>3. CASE g # 0
    BY <2>1, <2>3
  <2>4. QED  BY <2>2, <2>3
<1>7. CASE AppendLine
  <2>1. queue # <<>> /\ added' = added /\ files' = Extended(Line(Head(queue), TRUE))
    BY <1>7 DEF AppendLine, Ready, StateTypes
  <2>2. QED  BY <1>6, <2>1
<1>8. CASE Fail \/ RestartJournal
  <2>1. added' = added
        /\ files' \in {files} \cup (IF Ready THEN {Extended(Line(Head(queue), FALSE))} ELSE {})
    BY <1>8 DEF Fail, RestartJournal
  <2>2. Ready => queue # <<>>
    BY DEF Ready, StateTypes
  <2>3. QED  BY <1>3, <1>6, <2>1, <2>2
<1>9. QED
  BY <1>3, <1>4, <1>5, <1>7, <1>8 DEF Next, Write, Restart, Add, journalVars

(* Only the oldest generation is ever given up: no rotation that fails or  *)
(* is interrupted overwrites another one (journal.mjs, rotate).            *)
THEOREM LinesOnlyRotatedOut == Spec => LinesLeaveByRotation
<1>1. JournalInv /\ [Next]_vars => [OnDisk \subseteq OnDisk' \cup ToSet(Lines(LogFiles))]_journalVars
  BY LinesStay DEF vars
<1>2. QED  BY <1>1, JournalHolds, PTL DEF Spec, LinesLeaveByRotation

-----------------------------------------------------------------------------
(* The ring: in order, and without a gap *)

(* Pages of a positive size cover the records and no more. *)
LEMMA PagesCover ==
  ASSUME NEW total \in Nat
  PROVE  /\ Pages(total) \in Nat \ {0}
         /\ total > 0 => Pages(total) <= total /\ (Pages(total) - 1) * PageSize < total
         /\ total = 0 => Pages(total) = 1
<1>1. CASE total = 0
  BY <1>1 DEF Pages
<1>2. CASE total > 0
  <2> PICK p : p = Pages(total)
    OBVIOUS
  <2>1. PageSize \in Nat /\ PageSize > 0
    BY PagerAssumption
  <2>2. p = (total + PageSize - 1) \div PageSize
    BY <1>2 DEF Pages
  <2>3. p \in Nat /\ p * PageSize <= total + PageSize - 1 /\ total + PageSize - 1 < p * PageSize + PageSize
    BY <2>1, <2>2
  <2>4. p > 0
    BY <2>1, <2>3, <1>2
  <2>5. (p - 1) * PageSize = p * PageSize - PageSize
    BY <2>1, <2>3
  <2>6. p <= total
    <3>1. SUFFICES ASSUME p > total PROVE FALSE
      BY <2>3
    <3>2. p - 1 >= total /\ PageSize >= 1 /\ p - 1 \in Nat
      BY <2>1, <2>3, <3>1
    <3>3. (p - 1) * PageSize >= p - 1
      BY <2>1, <2>3, <3>2
    <3>4. QED  BY <2>1, <2>3, <2>5, <3>2, <3>3
  <2>7. QED  BY <1>2, <2>1, <2>3, <2>4, <2>5, <2>6
<1>3. QED  BY <1>1, <1>2

(* Multiples of the page size are a page apart. *)
LEMMA PagesInOrder ==
  ASSUME NEW p \in Nat, NEW q \in Nat, p < q
  PROVE  p * PageSize + PageSize <= q * PageSize
<1>1. PageSize \in Nat
  BY PagerAssumption
<1>2. q * PageSize - (p * PageSize + PageSize) = (q - p - 1) * PageSize
  BY <1>1
<1>3. (q - p - 1) * PageSize >= 0
  BY <1>1
<1>4. QED  BY <1>1, <1>2, <1>3

(* What a sequence is, as a function. *)
LEMMA SequenceShape ==
  ASSUME NEW S, NEW s \in Seq(S)
  PROVE  Len(s) \in Nat /\ DOMAIN s = 1 .. Len(s) /\ \A i \in DOMAIN s : s[i] \in S
<1>1. Len(s) \in Nat /\ DOMAIN s = 1 .. Len(s)
  OBVIOUS
<1>2. QED  BY <1>1, ElementOfSeq

(* And the other way round. *)
LEMMA FunctionSequence ==
  ASSUME NEW S, NEW n \in Nat, NEW f \in [1 .. n -> S]
  PROVE  f \in Seq(S) /\ Len(f) = n
OBVIOUS

(* Any finite set of numbers has an ascending enumeration: each goes to    *)
(* the place that is the number of those up to it.                         *)
LEMMA Enumeration ==
  ASSUME NEW T \in SUBSET Nat, IsFiniteSet(T), NEW order, order = InOrder(T)
  PROVE  /\ order \in [1 .. Cardinality(T) -> T] /\ Cardinality(T) \in Nat
         /\ \A i, j \in DOMAIN order : i < j => order[i] < order[j]
         /\ \A t \in T : \E k \in DOMAIN order : order[k] = t
<1> DEFINE n == Cardinality(T)
           UpTo(t) == {u \in T : u <= t}
           rank == [t \in T |-> Cardinality(UpTo(t))]
<1>1. n \in Nat
  BY FS_CardinalityType
<1>2. \A t \in T : IsFiniteSet(UpTo(t)) /\ Cardinality(UpTo(t)) \in Nat /\ Cardinality(UpTo(t)) <= n
  <2> SUFFICES ASSUME NEW t \in T
               PROVE  IsFiniteSet(UpTo(t)) /\ Cardinality(UpTo(t)) \in Nat /\ Cardinality(UpTo(t)) <= n
    OBVIOUS
  <2>1. UpTo(t) \in SUBSET T
    OBVIOUS
  <2> HIDE DEF UpTo
  <2>2. QED  BY <2>1, FS_Subset, FS_CardinalityType
<1>3. \A t \in T : Cardinality(UpTo(t)) >= 1
  <2> SUFFICES ASSUME NEW t \in T PROVE Cardinality(UpTo(t)) >= 1
    OBVIOUS
  <2>1. t \in UpTo(t)
    <3>1. t \in Nat
      OBVIOUS
    <3>2. t <= t
      BY <3>1
    <3>3. QED  BY <3>2
  <2> HIDE DEF UpTo
  <2>2. Cardinality(UpTo(t)) # 0
    BY <1>2, <2>1, FS_EmptySet
  <2>3. QED  BY <1>2, <2>2
<1>4. \A t, u \in T : t < u => Cardinality(UpTo(t)) < Cardinality(UpTo(u))
  <2> SUFFICES ASSUME NEW t \in T, NEW u \in T, t < u
               PROVE  Cardinality(UpTo(t)) < Cardinality(UpTo(u))
    OBVIOUS
  <2>1. UpTo(t) \in SUBSET UpTo(u) /\ u \in UpTo(u) /\ u \notin UpTo(t)
    <3>1. t \in Nat /\ u \in Nat /\ u <= u /\ ~(u <= t)
      OBVIOUS
    <3>2. \A x \in T : x \in Nat /\ (x <= t => x <= u)
      BY <3>1
    <3>3. QED  BY <3>1, <3>2
  <2> HIDE DEF UpTo
  <2>2. Cardinality(UpTo(t)) <= Cardinality(UpTo(u)) /\ Cardinality(UpTo(t)) # Cardinality(UpTo(u))
    BY <1>2, <2>1, FS_Subset
  <2>3. QED  BY <1>2, <2>2
<1>5. rank \in [T -> 1 .. n] /\ \A t, u \in T : t < u => rank[t] < rank[u]
  <2> HIDE DEF UpTo, n
  <2>1. QED  BY <1>1, <1>2, <1>3, <1>4
<1> HIDE DEF UpTo, rank, n
<1>6. rank \in Injection(T, 1 .. n)
  <2>1. \A t, u \in T : t # u => rank[t] # rank[u]
    <3> SUFFICES ASSUME NEW t \in T, NEW u \in T, t # u PROVE rank[t] # rank[u]
      OBVIOUS
    <3>1. t < u \/ u < t
      OBVIOUS
    <3>2. rank[t] \in Nat /\ rank[u] \in Nat
      BY <1>1, <1>5
    <3>3. QED  BY <1>5, <3>1, <3>2
  <2>2. QED  BY <1>5, <2>1 DEF Injection, IsInjective
<1>7. rank \in Surjection(T, 1 .. n)
  <2>1. IsFiniteSet(1 .. n) /\ Cardinality(1 .. n) = n
    BY <1>1, FS_Interval
  <2>2. Cardinality(T) = Cardinality(1 .. n)
    BY <2>1 DEF n
  <2>3. QED  BY <1>6, <2>1, <2>2, FS_Injection
<1>8. \A k \in 1 .. n : \E t \in T : rank[t] = k
  BY <1>7 DEF Surjection
<1> DEFINE place == [k \in 1 .. n |-> CHOOSE t \in T : rank[t] = k]
<1>9. /\ place \in [1 .. n -> T] /\ \A k \in 1 .. n : rank[place[k]] = k
  BY <1>8
<1>10. \A i, j \in 1 .. n : i < j => place[i] < place[j]
  <2> SUFFICES ASSUME NEW i \in 1 .. n, NEW j \in 1 .. n, i < j PROVE place[i] < place[j]
    OBVIOUS
  <2> HIDE DEF place
  <2>1. place[i] \in T /\ place[j] \in T /\ rank[place[i]] = i /\ rank[place[j]] = j
    BY <1>9
  <2> PICK a, b : a = place[i] /\ b = place[j]
    OBVIOUS
  <2>2. a \in T /\ b \in T /\ a \in Nat /\ b \in Nat /\ rank[a] = i /\ rank[b] = j
    BY <2>1
  <2>3. ~(b < a)
    <3>1. b < a => rank[b] < rank[a]
      BY <1>5, <2>2
    <3>2. QED  BY <1>1, <2>2, <3>1
  <2>4. a # b
    BY <1>1, <2>2
  <2>5. QED  BY <2>2, <2>3, <2>4
<1> HIDE DEF place
<1>11. order \in [1 .. n -> T] /\ \A i, j \in DOMAIN order : i < j => order[i] < order[j]
  <2>1. \E o \in [1 .. n -> T] : \A i, j \in DOMAIN o : i < j => o[i] < o[j]
    BY <1>9, <1>10
  <2>2. order = CHOOSE o \in [1 .. n -> T] : \A i, j \in DOMAIN o : i < j => o[i] < o[j]
    BY DEF InOrder, n
  <2>3. QED  BY <2>1, <2>2
<1>12. order \in Injection(1 .. n, T)
  <2>1. \A i, j \in 1 .. n : i # j => order[i] # order[j]
    <3> SUFFICES ASSUME NEW i \in 1 .. n, NEW j \in 1 .. n, i # j PROVE order[i] # order[j]
      OBVIOUS
    <3>1. i < j \/ j < i
      BY <1>1
    <3>2. order[i] \in Nat /\ order[j] \in Nat
      BY <1>11
    <3>3. QED  BY <1>11, <3>1, <3>2
  <2>2. QED  BY <1>11, <2>1 DEF Injection, IsInjective
<1>13. order \in Surjection(1 .. n, T)
  <2>1. Cardinality(1 .. n) = Cardinality(T)
    <3>1. Cardinality(1 .. n) = n
      BY <1>1, FS_Interval
    <3>2. QED  BY <3>1 DEF n
  <2>2. QED  BY <1>12, <2>1, FS_Injection
<1>14. QED
  <2>1. DOMAIN order = 1 .. n
    BY <1>11
  <2>2. \A t \in T : \E k \in 1 .. n : order[k] = t
    BY <1>13 DEF Surjection
  <2>3. QED  BY <1>1, <1>11, <2>1, <2>2 DEF n

(* What is read back are the newest lines that can be parsed: at most as   *)
(* many as the ring holds, in their order, and none is left out between.   *)
LEMMA Reloaded ==
  ASSUME NEW S, NEW s \in Seq(S), \A i \in DOMAIN s : s[i].id \in Nat,
         \A i, j \in DOMAIN s : i < j => s[i].id < s[j].id,
         NEW ring, ring = Reload(s)
  PROVE  /\ ring \in Seq(Nat) /\ Len(ring) <= RecentLimit
         /\ Rising(ring)
         /\ \A k \in DOMAIN ring : \E i \in DOMAIN s : Parses(s, i) /\ ring[k] = s[i].id
         /\ \A i \in DOMAIN s : ring # <<>> /\ Parses(s, i) /\ s[i].id >= ring[1] =>
              \E k \in DOMAIN ring : ring[k] = s[i].id
<1> DEFINE ended == {i \in DOMAIN s : s[i].whole \/ i = Len(s)}
           After(i) == {j \in ended : j > i}
           last == {i \in ended : Cardinality(After(i)) < RecentLimit}
           T == {i \in last : Parses(s, i)}
           order == InOrder(T)
<1>1. RecentLimit \in Nat /\ RecentLimit > 0
  BY JournalAssumption
<1>2. DOMAIN s = 1 .. Len(s) /\ Len(s) \in Nat /\ \A i \in DOMAIN s : s[i].id \in Nat
  OBVIOUS
<1>3. IsFiniteSet(ended) /\ ended \subseteq DOMAIN s
  <2>1. ended \in SUBSET (1 .. Len(s))
    BY <1>2
  <2>2. IsFiniteSet(1 .. Len(s))
    BY <1>2, FS_Interval
  <2> HIDE DEF ended
  <2>3. QED  BY <1>2, <2>1, <2>2, FS_Subset
<1>4. \A i \in DOMAIN s : IsFiniteSet(After(i)) /\ Cardinality(After(i)) \in Nat
  <2> SUFFICES ASSUME NEW i \in DOMAIN s
               PROVE  IsFiniteSet(After(i)) /\ Cardinality(After(i)) \in Nat
    OBVIOUS
  <2>1. After(i) \in SUBSET ended
    OBVIOUS
  <2> HIDE DEF After, ended
  <2>2. QED  BY <1>3, <2>1, FS_Subset, FS_CardinalityType
<1>5. IsFiniteSet(T) /\ T \in SUBSET Nat /\ T \subseteq ended
  <2>1. T \in SUBSET ended
    OBVIOUS
  <2> HIDE DEF T, ended
  <2>2. IsFiniteSet(T)
    BY <1>3, <2>1, FS_Subset
  <2>3. QED  BY <1>2, <1>3, <2>1, <2>2
<1>6. /\ order \in [1 .. Cardinality(T) -> T] /\ Cardinality(T) \in Nat
      /\ \A i, j \in DOMAIN order : i < j => order[i] < order[j]
      /\ \A t \in T : \E k \in DOMAIN order : order[k] = t
  <2> HIDE DEF T
  <2>1. QED  BY <1>5, Enumeration
<1> DEFINE n == Cardinality(T)
<1>7. n <= RecentLimit
  <2>1. SUFFICES ASSUME n > 0 PROVE n - 1 < RecentLimit
    BY <1>1, <1>6
  <2> PICK i : i = order[1]
    OBVIOUS
  <2>2. i \in T /\ i \in last /\ i \in DOMAIN s /\ Cardinality(After(i)) < RecentLimit
    <3>1. 1 \in 1 .. n
      BY <1>6, <2>1
    <3>2. i \in T
      <4> HIDE DEF order, T
      <4>1. QED  BY <1>6, <3>1
    <3>3. QED  BY <3>2
  <2>3. T \ {i} \in SUBSET After(i)
    <3> SUFFICES ASSUME NEW t \in T, t # i PROVE t \in After(i)
      OBVIOUS
    <3>1. t > i
      <4> HIDE DEF order, T
      <4>1. PICK k \in DOMAIN order : order[k] = t
        BY <1>6
      <4>2. DOMAIN order = 1 .. n
        BY <1>6
      <4>3. 1 < k /\ 1 \in DOMAIN order
        <5>1. k # 1
          BY <4>1
        <5>2. k \in 1 .. n /\ 1 \in 1 .. n
          BY <1>6, <2>1, <4>1, <4>2
        <5>3. QED  BY <1>6, <4>2, <5>1, <5>2
      <4>4. QED  BY <1>6, <4>1, <4>3
    <3>2. t \in ended
      BY <1>5
    <3>3. QED  BY <3>1, <3>2
  <2>4. Cardinality(T \ {i}) = n - 1
    <3> HIDE DEF T
    <3>1. QED  BY <1>5, <2>2, FS_RemoveElement
  <2>5. Cardinality(T \ {i}) <= Cardinality(After(i))
    <3> HIDE DEF T, After
    <3>1. QED  BY <1>4, <2>2, <2>3, FS_Subset
  <2>6. Cardinality(After(i)) \in Nat
    BY <1>4, <2>2
  <2>7. QED
    <3> HIDE DEF T, After
    <3>1. QED  BY <1>1, <1>6, <2>2, <2>4, <2>5, <2>6
<1>8. CASE ring = <<>>
  BY <1>1, <1>8 DEF Rising
<1>9. CASE ring # <<>>
  <2>1. ring = [k \in DOMAIN order |-> s[order[k]].id]
    BY <1>9 DEF Reload
  <2> HIDE DEF order, T
  <2>2. DOMAIN order = 1 .. n /\ \A k \in 1 .. n : order[k] \in T
    BY <1>6
  <2>3. \A i \in T : i \in DOMAIN s /\ s[i].id \in Nat /\ Parses(s, i)
    BY <1>2 DEF T
  <2>4. ring \in Seq(Nat) /\ Len(ring) = n /\ DOMAIN ring = 1 .. n
    <3>1. ring \in [1 .. n -> Nat]
      BY <2>1, <2>2, <2>3
    <3>2. QED  BY <1>6, <3>1
  <2>5. \A k \in 1 .. n : ring[k] = s[order[k]].id
    BY <2>1, <2>2
  <2>6. Rising(ring)
    <3> SUFFICES ASSUME NEW i \in 1 .. n, NEW j \in 1 .. n, i < j PROVE ring[i] < ring[j]
      BY <2>4 DEF Rising
    <3>1. order[i] < order[j] /\ order[i] \in DOMAIN s /\ order[j] \in DOMAIN s
      BY <1>6, <2>2, <2>3
    <3>2. QED  BY <2>5, <3>1
  <2>7. \A k \in DOMAIN ring : \E i \in DOMAIN s : Parses(s, i) /\ ring[k] = s[i].id
    BY <2>2, <2>3, <2>4, <2>5
  <2>8. ASSUME NEW i \in DOMAIN s, Parses(s, i), s[i].id >= ring[1]
        PROVE  \E k \in DOMAIN ring : ring[k] = s[i].id
    <3>1. 1 \in 1 .. n
      BY <1>9, <1>6, <2>4
    <3> PICK first : first = order[1]
      OBVIOUS
    <3>2. first \in T /\ first \in DOMAIN s /\ ring[1] = s[first].id
      BY <2>2, <2>3, <2>5, <3>1
    <3>3. i >= first
      <4>1. ~(i < first)
        BY <1>2, <2>8, <3>2
      <4>2. QED  BY <1>2, <3>2, <4>1
    <3>4. i \in ended
      BY <2>8 DEF Parses
    <3>5. first \in last
      BY <3>2 DEF T
    <3>6. After(i) \in SUBSET After(first)
      BY <1>2, <1>3, <3>2, <3>3
    <3>7. Cardinality(After(i)) <= Cardinality(After(first))
      <4> HIDE DEF After
      <4>1. QED  BY <1>4, <3>2, <3>6, FS_Subset
    <3>8. Cardinality(After(i)) < RecentLimit
      <4>1. Cardinality(After(first)) < RecentLimit
        BY <3>5
      <4> HIDE DEF After
      <4>2. QED  BY <1>1, <1>4, <3>2, <3>7, <4>1
    <3>9. i \in T
      BY <2>8, <3>4, <3>8 DEF T
    <3>10. PICK k \in DOMAIN order : order[k] = i
      BY <1>6, <3>9
    <3>11. QED  BY <2>2, <2>4, <2>5, <3>10
  <2>9. QED  BY <1>7, <2>4, <2>6, <2>7, <2>8
<1>10. QED  BY <1>8, <1>9

-----------------------------------------------------------------------------
(* The ring: the newest of what is known *)

Parsed == {Lines(0)[i].id : i \in {i \in DOMAIN Lines(0) : Parses(Lines(0), i)}}

(* The records this process, or the next one, can still show.              *)
Known == ToSet(recent) \cup ToSet(queue) \cup Parsed

(* The ring is in order, and leaves out nothing that is known and not      *)
(* older than all of it.                                                   *)
RingInv ==
  /\ recent \in Seq(1 .. added) /\ Len(recent) <= RecentLimit
  /\ Rising(recent)
  /\ \A e \in Known : recent # <<>> /\ e >= recent[1] => e \in ToSet(recent)

(* The ring after a restart, from the current file. *)
LEMMA ReloadedRing ==
  ASSUME JournalInv', NEW ring, ring = Reload(Lines(0)')
  PROVE  /\ ring \in Seq(1 .. added') /\ Len(ring) <= RecentLimit /\ Rising(ring)
         /\ \A k \in DOMAIN ring : ring[k] \in Parsed'
         /\ \A e \in Parsed' : ring # <<>> /\ e >= ring[1] => e \in ToSet(ring)
<1> PICK s, top : s = Lines(0)' /\ top = added'
  OBVIOUS
<1>1. top \in Nat /\ s \in Seq(Record') /\ \A i \in DOMAIN s : s[i].id \in 1 .. top
  <2>1. FileTypes' /\ added' \in Nat /\ 0 \in Generations'
    BY JournalAssumption DEF JournalInv, StateTypes, Generations
  <2>2. Lines(0)' \in Seq(Record') /\ \A i \in DOMAIN (Lines(0)') : Lines(0)'[i].id \in 1 .. added'
    <3>1. Lines(0)' \in Seq(Record')
      BY <2>1 DEF FileTypes, Lines, Generations
    <3>2. \A i \in DOMAIN (Lines(0)') : Lines(0)'[i] \in Record'
      BY <3>1, ElementOfSeq
    <3>3. QED  BY <3>1, <3>2 DEF Record
  <2>3. QED  BY <2>1, <2>2 DEF Record
<1>3. \A i, j \in DOMAIN s : i < j => s[i].id < s[j].id
  <2>1. Ordered' /\ 0 \in Generations
    BY OrderByElements, JournalAssumption DEF JournalInv, Generations
  <2>2. \A i, j \in DOMAIN (Lines(0)') : i < j => Lines(0)'[i].id < Lines(0)'[j].id
    BY <2>1 DEF Ordered, Generations
  <2>3. QED  BY <2>2
<1>4. /\ ring \in Seq(Nat) /\ Len(ring) <= RecentLimit /\ Rising(ring)
      /\ \A k \in DOMAIN ring : \E i \in DOMAIN s : Parses(s, i) /\ ring[k] = s[i].id
      /\ \A i \in DOMAIN s : ring # <<>> /\ Parses(s, i) /\ s[i].id >= ring[1] =>
           \E k \in DOMAIN ring : ring[k] = s[i].id
  <2>1. ring = Reload(s)
    OBVIOUS
  <2>2. s \in Seq(Record') /\ \A i \in DOMAIN s : s[i].id \in Nat
    BY <1>1
  <2>3. QED  BY <1>3, <2>1, <2>2, Reloaded
<1>5. Parsed' = {s[i].id : i \in {i \in DOMAIN s : Parses(s, i)}}
  BY DEF Parsed, Parses
<1>6. ring \in Seq(1 .. top)
  <2>1. \A k \in 1 .. Len(ring) : ring[k] \in 1 .. top
    BY <1>1, <1>4
  <2> PICK n, S : n = Len(ring) /\ S = 1 .. top
    OBVIOUS
  <2>2. n \in Nat /\ ring \in [1 .. n -> S]
    BY <1>4, <2>1
  <2>3. ring \in Seq(S)
    BY <2>2, FunctionSequence
  <2>4. QED  BY <2>3
<1>7. QED  BY <1>4, <1>5, <1>6 DEF ToSet

(* What is known has been added. *)
LEMMA KnownAdded ==
  ASSUME JournalInv, RingInv
  PROVE  Known \subseteq 1 .. added /\ added \in Nat
<1>1. added \in Nat
  BY JournalAssumption DEF JournalInv, StateTypes
<1>2. ToSet(recent) \subseteq 1 .. added /\ ToSet(queue) \subseteq 1 .. added
  <2>1. \A s \in Seq(1 .. added) : \A i \in DOMAIN s : s[i] \in 1 .. added
    BY SequenceShape
  <2>2. QED  BY <2>1 DEF RingInv, JournalInv, QueueTypes, ToSet
<1>3. Parsed \subseteq 1 .. added
  <2>1. \A i \in DOMAIN Lines(0) : Lines(0)[i].id \in 1 .. added
    BY <1>1, LinesType, JournalAssumption DEF JournalInv, Generations
  <2>2. QED  BY <2>1 DEF Parsed
<1>4. QED  BY <1>1, <1>2, <1>3 DEF Known

(* The elements of a sequence with one more. *)
LEMMA OneMore ==
  ASSUME NEW S, NEW s \in Seq(S), NEW e
  PROVE  /\ Len(Append(s, e)) = Len(s) + 1
         /\ \A i \in 1 .. Len(s) : Append(s, e)[i] = s[i]
         /\ Append(s, e)[Len(s) + 1] = e
         /\ DOMAIN Append(s, e) = 1 .. Len(s) + 1
  OBVIOUS

(* A line that is appended makes at most itself readable. *)
LEMMA ParsedExtended ==
  ASSUME JournalInv, queue # <<>>, NEW whole \in BOOLEAN,
         files' = Extended(Line(Head(queue), whole)), added' = added
  PROVE  Parsed' \subseteq Parsed \cup (IF whole THEN {Head(queue)} ELSE {})
<1>1. /\ Lines(0)' = Append(Lines(0), Line(Head(queue), whole))
      /\ Lines(0) \in Seq(Record)
  BY ExtendedFiles, LinesType, JournalAssumption
  DEF JournalInv, StateTypes, Generations
<1> PICK s, t : s = Lines(0) /\ t = Lines(0)'
  OBVIOUS
<1>2. /\ s \in Seq(Record) /\ t = Append(s, Line(Head(queue), whole)) /\ Len(s) \in Nat
      /\ DOMAIN s = 1 .. Len(s) /\ DOMAIN t = 1 .. Len(s) + 1
      /\ \A i \in 1 .. Len(s) : t[i] = s[i]
      /\ t[Len(s) + 1] = Line(Head(queue), whole)
  <2>1. s \in Seq(Record) /\ t = Append(s, Line(Head(queue), whole))
    BY <1>1
  <2>2. Len(s) \in Nat /\ DOMAIN s = 1 .. Len(s)
    BY <2>1
  <2>3. QED  BY <2>1, <2>2, OneMore
<1>3. ASSUME NEW i \in DOMAIN t, Parses(t, i)
      PROVE  t[i].id \in Parsed \cup (IF whole THEN {Head(queue)} ELSE {})
  <2>1. CASE i = Len(s) + 1
    BY <1>2, <1>3, <2>1 DEF Parses, Line
  <2>2. CASE i \in 1 .. Len(s)
    <3>1. Parses(s, i)
      BY <1>2, <1>3, <2>2 DEF Parses
    <3>2. QED  BY <1>2, <2>2, <3>1 DEF Parsed
  <2>3. QED  BY <1>2, <2>1, <2>2
<1>4. Parsed' = {t[i].id : i \in {i \in DOMAIN t : Parses(t, i)}}
  BY DEF Parsed, Parses
<1>5. QED  BY <1>3, <1>4

(* The ring after a record: longer by one, or moved on by one. *)
LEMMA AddedRing ==
  ASSUME JournalInv, RingInv, Add
  PROVE  /\ Len(recent) \in Nat /\ DOMAIN recent = 1 .. Len(recent)
         /\ recent' \in Seq(1 .. added') /\ Len(recent') \in Nat
         /\ DOMAIN recent' = 1 .. Len(recent') /\ Len(recent') <= RecentLimit
         /\ recent'[Len(recent')] = added' /\ Len(recent') > 0
         /\ \E gone \in {0, 1} :
              /\ Len(recent) = Len(recent') - 1 + gone
              /\ \A i \in 1 .. Len(recent') - 1 : recent'[i] = recent[i + gone]
         /\ \A i \in DOMAIN recent' :
              recent'[i] = added' \/ \E k \in DOMAIN recent : recent'[i] = recent[k]
<1> PICK n, s, S, r : n = Len(recent) /\ s = Append(recent, added') /\ S = 1 .. added' /\ r = recent'
  OBVIOUS
<1>1. /\ recent' = Newest(s) /\ added' = added + 1 /\ added \in Nat
      /\ RecentLimit \in Nat /\ RecentLimit > 0
  BY JournalAssumption DEF Add, JournalInv, StateTypes
<1>2. recent \in Seq(S)
  <2> PICK T : T = 1 .. added
    OBVIOUS
  <2>1. recent \in Seq(T) /\ T \subseteq S
    BY <1>1 DEF RingInv
  <2>2. QED  BY <2>1, SeqMonotonic
<1>3. n \in Nat /\ DOMAIN recent = 1 .. n /\ n <= RecentLimit
  BY <1>2 DEF RingInv
<1>4. /\ s \in Seq(S) /\ Len(s) = n + 1 /\ s[n + 1] = added'
      /\ \A i \in 1 .. n : s[i] = recent[i]
  <2>1. added' \in S
    BY <1>1
  <2>2. QED  BY <1>2, <2>1, AppendProperties
<1>5. CASE n < RecentLimit
  <2>1. r = s
    BY <1>1, <1>3, <1>4, <1>5 DEF Newest
  <2>2. DOMAIN s = 1 .. n + 1
    BY <1>4
  <2>3. \A i \in 1 .. n + 1 : s[i] = added' \/ \E k \in 1 .. n : s[i] = recent[k]
    <3> SUFFICES ASSUME NEW i \in 1 .. n + 1
                 PROVE  s[i] = added' \/ \E k \in 1 .. n : s[i] = recent[k]
      OBVIOUS
    <3>1. i = n + 1 \/ i \in 1 .. n
      BY <1>3
    <3>2. QED  BY <1>4, <3>1
  <2>4. r \in Seq(S) /\ Len(r) = n + 1 /\ n + 1 <= RecentLimit
    <3>1. n \in Nat /\ RecentLimit \in Nat /\ n < RecentLimit
      BY <1>1, <1>3, <1>5
    <3>2. n + 1 <= RecentLimit
      BY <3>1
    <3>3. r \in Seq(S) /\ Len(r) = n + 1
      BY <1>4, <2>1
    <3>4. QED  BY <3>2, <3>3
  <2>5. n = Len(r) - 1 + 0 /\ \A i \in 1 .. Len(r) - 1 : r[i] = recent[i + 0]
    BY <1>3, <1>4, <2>1, <2>4
  <2>6. \E gone \in {0, 1} : n = Len(r) - 1 + gone /\ \A i \in 1 .. Len(r) - 1 : r[i] = recent[i + gone]
    <3>1. 0 \in {0, 1}
      OBVIOUS
    <3>2. QED  BY <2>5, <3>1
  <2>7. Len(r) \in Nat /\ Len(r) > 0 /\ DOMAIN r = 1 .. Len(r) /\ Len(r) <= RecentLimit
    BY <1>3, <2>1, <2>2, <2>4
  <2>8. r[Len(r)] = added'
    BY <1>4, <2>1, <2>4
  <2>9. \A i \in DOMAIN r : r[i] = added' \/ \E k \in DOMAIN recent : r[i] = recent[k]
    BY <1>3, <2>1, <2>2, <2>3
  <2>10. QED
    BY <1>1, <1>3, <2>4, <2>6, <2>7, <2>8, <2>9
<1>6. CASE n = RecentLimit
  <2>1. recent' = SubSeq(s, 2, n + 1)
    <3>1. Len(s) > RecentLimit /\ Len(s) - RecentLimit + 1 = 2
      BY <1>1, <1>3, <1>4, <1>6
    <3>2. QED  BY <1>1, <1>4, <3>1 DEF Newest
  <2>2. /\ SubSeq(s, 2, n + 1) \in Seq(S)
        /\ Len(SubSeq(s, 2, n + 1)) = n
        /\ \A i \in 1 .. n : SubSeq(s, 2, n + 1)[i] = s[i + 1]
    <3>1. \A i \in 2 .. n + 1 : s[i] \in S
      BY <1>3, <1>4, ElementOfSeq
    <3>2. 2 \in Int /\ n + 1 \in Int /\ 2 <= n + 1 /\ n + 1 - 2 + 1 = n
          /\ \A i \in Int : 2 + i - 1 = i + 1
      BY <1>1, <1>3, <1>6
    <3>3. QED  BY <3>1, <3>2, SubSeqProperties
  <2>3. r \in Seq(S) /\ Len(r) = n /\ DOMAIN r = 1 .. n /\ \A i \in 1 .. n : r[i] = s[i + 1]
    BY <2>1, <2>2
  <2>4. \A i \in 1 .. n - 1 : r[i] = recent[i + 1]
    BY <1>3, <1>4, <2>3
  <2>5. r[n] = added'
    BY <1>1, <1>3, <1>4, <1>6, <2>3
  <2>6. \A i \in 1 .. n : r[i] = added' \/ \E k \in 1 .. n : r[i] = recent[k]
    <3> SUFFICES ASSUME NEW i \in 1 .. n
                 PROVE  r[i] = added' \/ \E k \in 1 .. n : r[i] = recent[k]
      OBVIOUS
    <3>1. i = n \/ (i \in 1 .. n - 1 /\ i + 1 \in 1 .. n)
      BY <1>3
    <3>2. QED  BY <2>4, <2>5, <3>1
  <2>7. n > 0 /\ Len(r) <= RecentLimit /\ Len(r) \in Nat /\ DOMAIN r = 1 .. Len(r)
    BY <1>1, <1>3, <1>6, <2>3
  <2>8. r[Len(r)] = added' /\ Len(r) > 0
    BY <2>3, <2>5, <2>7
  <2>9. n = Len(r) - 1 + 1 /\ \A i \in 1 .. Len(r) - 1 : r[i] = recent[i + 1]
    BY <1>3, <2>3, <2>4
  <2>10. \A i \in DOMAIN r : r[i] = added' \/ \E k \in DOMAIN recent : r[i] = recent[k]
    BY <1>3, <2>3, <2>6
  <2>11. r \in Seq(S)
    BY <2>3
  <2>12. QED
    BY <1>3, <2>7, <2>8, <2>9, <2>10, <2>11
<1>7. QED  BY <1>1, <1>3, <1>5, <1>6

(* Only the record that is added becomes known. *)
LEMMA KnownStays ==
  ASSUME JournalInv, RingInv, JournalInv', [Next]_vars
  PROVE  \A e \in Known' : e \in Known \/ (e = added' /\ added' > added /\ Add)
<1>1. CASE UNCHANGED journalVars
  BY <1>1 DEF Known, Parsed, Parses, Lines, journalVars
<1>2. CASE Add
  <2>1. /\ recent' = Newest(Append(recent, added')) /\ added' = added + 1 /\ files' = files
        /\ queue' \in {queue, Append(queue, added')}
    BY <1>2 DEF Add
  <2>2. Parsed' = Parsed
    BY <2>1 DEF Parsed, Parses, Lines
  <2>3. ToSet(queue') \subseteq ToSet(queue) \cup {added'}
    BY <2>1, OneMore DEF JournalInv, QueueTypes, ToSet
  <2>4. ToSet(recent') \subseteq ToSet(recent) \cup {added'}
    <3>1. \A i \in DOMAIN recent' :
            recent'[i] = added' \/ \E k \in DOMAIN recent : recent'[i] = recent[k]
      BY <1>2, AddedRing
    <3>2. QED  BY <3>1 DEF ToSet
  <2>5. QED  BY <1>2, <2>1, <2>2, <2>3, <2>4 DEF Known, JournalInv, StateTypes
<1>3. ASSUME NEW whole \in BOOLEAN, queue # <<>>, added' = added,
             files' = files \/ files' = Extended(Line(Head(queue), whole))
      PROVE  Parsed' \subseteq Parsed \cup (IF whole THEN {Head(queue)} ELSE {})
  BY <1>3, ParsedExtended DEF Parsed, Parses, Lines
<1>4. queue # <<>> => Head(queue) \in ToSet(queue) /\ ToSet(Tail(queue)) \subseteq ToSet(queue)
  BY DEF JournalInv, QueueTypes, ToSet
<1>5. CASE RemoveOldest
  <2>1. Lines(0)' = Lines(0) /\ recent' = recent /\ queue' = queue
    <3>1. 0 \in Generations /\ LogFiles # 0
      BY JournalAssumption DEF Generations
    <3>2. files'[0] = files[0]
      BY <1>5, <3>1 DEF RemoveOldest, JournalInv, FileTypes
    <3>3. QED  BY <1>5, <3>2 DEF RemoveOldest, Lines
  <2>2. QED  BY <2>1 DEF Known, Parsed, Parses
<1>6. CASE Shift
  <2>1. Lines(0)' \in {Lines(0), <<>>} /\ recent' = recent /\ queue' = queue
    <3> PICK k : k = slot
      OBVIOUS
    <3>1. /\ k \in Nat /\ files'[k + 1] = files[k] /\ files'[k] = None /\ files[k + 1] = None
          /\ \A g \in Generations \ {k, k + 1} : files'[g] = files[g]
      <4>1. /\ StateTypes /\ FileTypes /\ Vacated /\ added' = added /\ slot \in Nat
        BY <1>6, JournalAssumption DEF Shift, JournalInv, StateTypes
      <4>2. QED  BY <1>6, <4>1, RotatedFiles
    <3>2. files'[0] = files[0] \/ files'[0] = None
      BY <3>1, JournalAssumption DEF Generations
    <3>3. QED  BY <1>6, <3>2 DEF Shift, Lines
  <2>2. Parsed' \subseteq Parsed
    BY <2>1 DEF Parsed, Parses
  <2>3. QED  BY <2>1, <2>2 DEF Known
<1>7. CASE AppendLine
  <2>1. queue # <<>> /\ added' = added /\ files' = Extended(Line(Head(queue), TRUE))
        /\ recent' = recent /\ queue' = Tail(queue)
    BY <1>7 DEF AppendLine, Ready, Settled, JournalInv, StateTypes
  <2>2. QED  BY <1>3, <1>4, <2>1 DEF Known
<1>8. Ready => queue # <<>>
  BY DEF Ready, JournalInv, StateTypes
<1>9. CASE Fail
  <2>1. /\ queue # <<>> /\ added' = added /\ recent' = recent /\ queue' = Tail(queue)
        /\ files' = files \/ files' = Extended(Line(Head(queue), FALSE))
    BY <1>9 DEF Fail, Settled
  <2>2. QED  BY <1>3, <1>4, <2>1 DEF Known
<1>10. CASE RestartJournal
  <2>1. /\ added' = added /\ queue' = <<>> /\ recent' = Reload(Lines(0)')
        /\ files' = files \/ (queue # <<>> /\ files' = Extended(Line(Head(queue), FALSE)))
    BY <1>8, <1>10 DEF RestartJournal
  <2>2. Parsed' \subseteq Parsed
    BY <2>1, <1>3 DEF Parsed, Parses, Lines
  <2>3. ToSet(recent') \subseteq Parsed'
    BY <2>1, ReloadedRing DEF ToSet
  <2>4. ToSet(queue') = {}
    BY <2>1 DEF ToSet
  <2>5. QED  BY <2>2, <2>3, <2>4 DEF Known
<1>11. QED
  BY <1>1, <1>2, <1>5, <1>6, <1>7, <1>9, <1>10 DEF Next, Write, Restart, Console, vars, journalVars

(* What is known and not older than the ring is in it, after every step.   *)
LEMMA RingKeeps ==
  ASSUME JournalInv, RingInv, JournalInv', [Next]_vars
  PROVE  RingInv'
<1>1. \A e \in Known' : e \in Known \/ (e = added' /\ added' > added /\ Add)
  BY KnownStays
<1>2. Known \subseteq 1 .. added /\ added \in Nat
  BY KnownAdded
<1>3. CASE Add
  <2> PICK r, t, n, m : r = recent' /\ t = added' /\ n = Len(recent) /\ m = Len(r)
    OBVIOUS
  <2>1. r \in Seq(1 .. t) /\ m <= RecentLimit
    BY <1>3, AddedRing
  <2>2. PICK gone \in {0, 1} :
          n = m - 1 + gone /\ \A i \in 1 .. m - 1 : r[i] = recent[i + gone]
    BY <1>3, AddedRing
  <2>3. /\ n \in Nat /\ DOMAIN recent = 1 .. n /\ m \in Nat /\ m > 0
        /\ DOMAIN r = 1 .. m /\ r[m] = t /\ t = added + 1
    BY <1>3, AddedRing DEF Add
  <2>4. \A i \in 1 .. n : recent[i] \in 1 .. added
    BY <2>3, SequenceShape DEF RingInv
  <2>5. \A i, j \in 1 .. n : i < j => recent[i] < recent[j]
    BY <2>3 DEF RingInv, Rising
  <2>6. \A i \in 1 .. m - 1 : i + gone \in 1 .. n
    BY <2>2, <2>3
  <2>7. Rising(r)
    <3> SUFFICES ASSUME NEW i \in 1 .. m, NEW j \in 1 .. m, i < j PROVE r[i] < r[j]
      BY <2>3 DEF Rising
    <3>1. i \in 1 .. m - 1 /\ i + gone \in 1 .. n /\ r[i] = recent[i + gone]
      BY <2>2, <2>3, <2>6
    <3>2. CASE j = m
      BY <1>2, <2>3, <2>4, <3>1, <3>2
    <3>3. CASE j # m
      <4>1. j \in 1 .. m - 1 /\ j + gone \in 1 .. n /\ r[j] = recent[j + gone]
        BY <2>2, <2>3, <2>6, <3>3
      <4>2. i + gone < j + gone
        BY <2>2, <2>3
      <4>3. QED  BY <2>5, <3>1, <4>1, <4>2
    <3>4. QED  BY <3>2, <3>3
  <2>8. ASSUME NEW e \in Known, e >= r[1] PROVE \E k \in DOMAIN r : r[k] = e
    <3>1. e \in 1 .. added
      BY <1>2
    <3>2. m > 1
      BY <1>2, <2>3, <2>8, <3>1
    <3>3. 1 + gone \in 1 .. n /\ 1 \in 1 .. n /\ r[1] = recent[1 + gone]
      BY <2>2, <2>3, <2>6, <3>2
    <3>4. recent[1 + gone] >= recent[1]
      <4>1. CASE gone = 0
        BY <2>4, <3>3, <4>1
      <4>2. CASE gone = 1
        <5>1. 1 < 1 + gone
          BY <4>2
        <5>2. recent[1] < recent[1 + gone]
          BY <2>5, <3>3, <5>1
        <5>3. QED  BY <2>4, <3>3, <5>2
      <4>3. QED  BY <4>1, <4>2
    <3>5. e >= recent[1]
      BY <2>4, <2>8, <3>1, <3>3, <3>4
    <3>6. PICK k \in 1 .. n : recent[k] = e
      <4>1. recent # <<>>
        BY <2>3, <3>3
      <4>2. QED  BY <2>3, <3>5, <4>1 DEF RingInv, ToSet
    <3>7. k >= 1 + gone
      <4>1. SUFFICES ASSUME k < 1 + gone PROVE FALSE
        BY <2>2, <2>3
      <4>2. recent[k] < recent[1 + gone]
        BY <2>5, <3>3, <4>1
      <4>3. QED  BY <2>4, <2>8, <3>1, <3>3, <3>6, <4>2
    <3>8. k - gone \in 1 .. m - 1 /\ k - gone + gone = k /\ k - gone \in 1 .. m
      BY <2>2, <2>3, <3>7
    <3>9. r[k - gone] = e
      BY <2>2, <3>6, <3>8
    <3>10. QED  BY <2>3, <3>8, <3>9
  <2>9. \A e \in Known' : e >= r[1] => \E k \in DOMAIN r : r[k] = e
    <3>1. m \in DOMAIN r
      BY <2>3
    <3>2. QED  BY <1>1, <2>3, <2>8, <3>1
  <2>10. QED  BY <2>1, <2>7, <2>9 DEF RingInv, ToSet
<1>4. CASE RestartJournal
  <2>1. /\ recent' \in Seq(1 .. added') /\ Len(recent') <= RecentLimit /\ Rising(recent')
        /\ \A k \in DOMAIN recent' : recent'[k] \in Parsed'
        /\ \A e \in Parsed' : recent' # <<>> /\ e >= recent'[1] => e \in ToSet(recent')
    <3>1. recent' = Reload(Lines(0)')
      BY <1>4 DEF RestartJournal
    <3>2. QED  BY <3>1, ReloadedRing
  <2>2. queue' = <<>>
    BY <1>4 DEF RestartJournal
  <2>3. Known' = ToSet(recent') \cup Parsed'
    BY <2>2 DEF Known, ToSet
  <2>4. QED  BY <2>1, <2>3 DEF RingInv, Rising
<1>5. CASE recent' = recent /\ added' = added /\ ~Add
  BY <1>1, <1>5 DEF RingInv, Rising
<1>6. QED
  <2>1. CASE Add \/ RestartJournal
    BY <1>3, <1>4, <2>1
  <2>2. CASE ~Add /\ ~RestartJournal
    <3>1. recent' = recent /\ added' = added
      BY <2>2 DEF Next, Write, Restart, RemoveOldest, Shift, AppendLine, Fail, vars, journalVars
    <3>2. QED  BY <1>5, <2>2, <3>1
  <2>3. QED  BY <2>1, <2>2

-----------------------------------------------------------------------------
(* Pages, by their places in the ring *)

(* The ring up to an anchor, and all of it without one. *)
LEMMA UptoShape ==
  ASSUME RingInv, NEW anchor,
         NEW i \in DOMAIN recent,
         (anchor = None /\ i = Len(recent)) \/ (anchor # None /\ recent[i] = anchor)
  PROVE  Upto(anchor) = SubSeq(recent, 1, i)
<1> PICK n, S : n = Len(recent) /\ S = 1 .. added
  OBVIOUS
<1>1. /\ recent \in Seq(S) /\ n \in Nat /\ DOMAIN recent = 1 .. n
      /\ \A k \in DOMAIN recent : recent[k] \in Nat
  <2>1. recent \in Seq(S)
    BY DEF RingInv
  <2>2. Len(recent) \in Nat /\ DOMAIN recent = 1 .. Len(recent) /\ \A k \in DOMAIN recent : recent[k] \in S
    BY <2>1, SequenceShape
  <2>3. \A x \in S : x \in Nat
    OBVIOUS
  <2>4. QED  BY <2>1, <2>2, <2>3
<1>2. CASE anchor = None /\ i = n
  BY <1>1, <1>2, SubSeqFull DEF Upto
<1>3. CASE anchor # None /\ recent[i] = anchor
  <2>1. {k \in 1 .. n : recent[k] = anchor} = {i}
    <3> SUFFICES ASSUME NEW k \in 1 .. n, recent[k] = anchor, k # i PROVE FALSE
      BY <1>1, <1>3
    <3>1. k < i \/ i < k
      BY <1>1
    <3>2. recent[i] < recent[i]
      BY <1>1, <1>3, <3>1 DEF RingInv, Rising
    <3>3. recent[i] \in Nat
      BY <1>1
    <3>4. QED  BY <3>2, <3>3
  <2>2. SelectInSeq(recent, LAMBDA e : e = anchor) = i
    <3>1. i \in Nat
      BY <1>1
    <3>2. (CHOOSE x \in {i} : \A y \in {i} : x <= y) = i
      BY <3>1
    <3>3. QED  BY <1>1, <2>1, <3>2 DEF SelectInSeq, Min
  <2>3. QED  BY <1>3, <2>2 DEF Upto
<1>4. QED  BY <1>2, <1>3

(* The fields of a page that is served. *)
LEMMA ReplyFields ==
  ASSUME NEW records, NEW page, NEW pages, NEW anchor, NEW reply,
         reply = [status |-> 200, records |-> records, page |-> page, pages |-> pages,
                  anchor |-> anchor]
  PROVE  /\ reply.page = page /\ reply.pages = pages /\ reply.status = 200
         /\ reply.anchor = anchor /\ reply.records = records
OBVIOUS

(* How many records are on the pages before. *)
Start(page) == (page - 1) * PageSize

(* A later page begins where an earlier one has ended. *)
LEMMA StartsInOrder ==
  ASSUME NEW p \in Nat \ {0}, NEW q \in Nat \ {0}
  PROVE  /\ Start(p) \in Nat /\ Start(q) \in Nat
         /\ p < q => Start(p) + PageSize <= Start(q) /\ Start(p) < Start(q)
         /\ q = p + 1 => Start(q) = Start(p) + PageSize
<1> PICK a, b : a = p - 1 /\ b = q - 1
  OBVIOUS
<1>1. a \in Nat /\ b \in Nat /\ PageSize \in Nat /\ PageSize > 0
  BY PagerAssumption
<1>2. a * PageSize \in Nat /\ b * PageSize \in Nat
  BY <1>1
<1>3. a < b => a * PageSize + PageSize <= b * PageSize
  BY <1>1, PagesInOrder
<1>4. b = a + 1 => b * PageSize = a * PageSize + PageSize
  BY <1>1
<1>5. Start(p) = a * PageSize /\ Start(q) = b * PageSize
  BY DEF Start
<1>6. p < q <=> a < b
  OBVIOUS
<1>7. q = p + 1 => b = a + 1
  OBVIOUS
<1> PICK x, y : x = a * PageSize /\ y = b * PageSize
  OBVIOUS
<1>8. x \in Nat /\ y \in Nat /\ (a < b => x + PageSize <= y) /\ (b = a + 1 => y = x + PageSize)
      /\ Start(p) = x /\ Start(q) = y
  BY <1>2, <1>3, <1>4, <1>5
<1>9. QED  BY <1>1, <1>6, <1>7, <1>8

(* A page that counts back from the i-th record of the ring: its records,  *)
(* by their places, and its numbers.                                       *)
CutAt(reply, i) ==
  /\ i \in Nat /\ reply.status = 200 /\ reply.anchor = recent[i]
  /\ reply.pages \in 1 .. RecentLimit /\ reply.page \in 1 .. reply.pages
  /\ Start(reply.page) \in Nat /\ Start(reply.page) < i
  /\ reply.records \in Seq(1 .. added)
  /\ Len(reply.records) =
       IF Start(reply.page) + PageSize <= i THEN PageSize ELSE i - Start(reply.page)
  /\ \A k \in 1 .. Len(reply.records) :
       reply.records[k] = recent[i - (Start(reply.page) + k) + 1]

(* Such is the page that is served, counted from the anchor, or else from  *)
(* the newest record.                                                      *)
LEMMA PageShape ==
  ASSUME RingInv, added \in Nat, NEW asked \in Nat \ {0}, NEW anchor,
         NEW i \in DOMAIN recent,
         (anchor = None /\ i = Len(recent)) \/ (anchor # None /\ recent[i] = anchor),
         NEW reply, reply = Page(asked, anchor)
  PROVE  CutAt(reply, i)
<1> PICK S, up : S = 1 .. added /\ up = Upto(anchor)
  OBVIOUS
<1>1. /\ recent \in Seq(S) /\ Len(recent) \in Nat /\ DOMAIN recent = 1 .. Len(recent)
      /\ \A k \in DOMAIN recent : recent[k] \in S
      /\ Len(recent) <= RecentLimit /\ RecentLimit \in Nat
      /\ PageSize \in Nat /\ PageSize > 0
  <2>1. recent \in Seq(S) /\ Len(recent) <= RecentLimit
    BY DEF RingInv
  <2>2. Len(recent) \in Nat /\ DOMAIN recent = 1 .. Len(recent) /\ \A k \in DOMAIN recent : recent[k] \in S
    BY <2>1, SequenceShape
  <2>3. QED  BY <2>1, <2>2, JournalAssumption, PagerAssumption
<1>2. i \in Nat /\ i > 0 /\ i <= RecentLimit
  BY <1>1
<1>3. up = SubSeq(recent, 1, i)
  BY UptoShape
<1>4. up \in Seq(S) /\ Len(up) = i /\ \A k \in 1 .. i : up[k] = recent[k]
  <2>1. \A k \in 1 .. i : recent[k] \in S
    BY <1>1, <1>2
  <2>2. 1 \in Int /\ i \in Int /\ 1 <= i /\ i - 1 + 1 = i /\ \A k \in Int : 1 + k - 1 = k
    BY <1>2
  <2>3. QED  BY <1>3, <2>1, <2>2, SubSeqProperties
<1>a. PICK matching : matching = Reverse(up)
  OBVIOUS
<1>5. /\ matching \in Seq(S) /\ Len(matching) = i
      /\ \A k \in 1 .. i : matching[k] = recent[i - k + 1]
  <2>1. matching = [k \in 1 .. i |-> up[(i - k) + 1]]
    BY <1>4, <1>a DEF Reverse
  <2>2. \A k \in 1 .. i : (i - k) + 1 \in 1 .. i
    BY <1>2
  <2>3. matching \in [1 .. i -> S]
    BY <1>1, <1>2, <1>4, <2>1, <2>2
  <2>4. matching \in Seq(S) /\ Len(matching) = i
    BY <1>2, <2>3, FunctionSequence
  <2>5. QED  BY <1>4, <2>1, <2>2, <2>4
<1>b. PICK pages : pages = Pages(i)
  OBVIOUS
<1>6. pages \in Nat \ {0} /\ pages <= i /\ Start(pages) < i
  BY <1>2, <1>b, PagesCover DEF Start
<1>7. PICK page : page = IF asked <= pages THEN asked ELSE pages
  OBVIOUS
<1>8. page \in 1 .. pages
  BY <1>6, <1>7
<1>9. PICK begin, last :
        begin = Start(page) /\ last = IF begin + PageSize <= i THEN begin + PageSize ELSE i
  OBVIOUS
<1>10. reply = [status |-> 200, records |-> SubSeq(matching, begin + 1, last),
                page |-> page, pages |-> pages, anchor |-> Head(matching)]
  <2>1. matching # <<>>
    BY <1>2, <1>5
  <2>2. QED  BY <1>5, <1>7, <1>9, <1>a, <1>b, <2>1 DEF Page, Start
<1>11. /\ reply.page = page /\ reply.pages = pages /\ reply.status = 200
       /\ reply.anchor = Head(matching) /\ reply.records = SubSeq(matching, begin + 1, last)
  <2>a. PICK head, cut : head = Head(matching) /\ cut = SubSeq(matching, begin + 1, last)
    OBVIOUS
  <2>1. reply = [status |-> 200, records |-> cut, page |-> page, pages |-> pages, anchor |-> head]
    BY <1>10, <2>a
  <2>2. reply.page = page /\ reply.pages = pages /\ reply.status = 200 /\ reply.anchor = head
        /\ reply.records = cut
    BY <2>1, ReplyFields
  <2>3. QED  BY <2>2, <2>a
<1>12. PICK start : start = Start(reply.page) /\ start = begin
  BY <1>9, <1>11
<1>13. begin \in Nat /\ begin < i
  <2>1. begin = Start(page) /\ Start(page) \in Nat /\ Start(pages) \in Nat
        /\ (page < pages => Start(page) < Start(pages))
    BY <1>6, <1>8, <1>9, StartsInOrder
  <2>2. page = pages \/ page < pages
    BY <1>6, <1>8
  <2>3. QED  BY <1>2, <1>6, <2>1, <2>2
<1>14. Head(matching) = recent[i]
  <2>1. 1 \in 1 .. i /\ i - 1 + 1 = i
    BY <1>2
  <2>2. Head(matching) = matching[1]
    BY <1>2, <1>5
  <2>3. matching[1] = recent[i - 1 + 1]
    BY <1>5, <2>1
  <2>4. QED  BY <2>1, <2>2, <2>3
<1>15. /\ last \in Nat /\ last <= i /\ begin + 1 <= last
       /\ last - begin = IF begin + PageSize <= i THEN PageSize ELSE i - begin
  BY <1>1, <1>2, <1>9, <1>13
<1>16. /\ reply.records \in Seq(S) /\ Len(reply.records) = last - begin
       /\ \A k \in 1 .. last - begin : reply.records[k] = matching[begin + k]
  <2>1. \A k \in begin + 1 .. last : matching[k] \in S
    <3>1. \A k \in begin + 1 .. last : k \in 1 .. i
      BY <1>2, <1>13, <1>15
    <3>2. QED  BY <1>5, <3>1, ElementOfSeq
  <2>2. PICK m : m = begin + 1
    OBVIOUS
  <2>3. m \in Int /\ last \in Int /\ m <= last
    BY <1>13, <1>15, <2>2
  <2>4. \A k \in m .. last : matching[k] \in S
    BY <2>1, <2>2
  <2>5. PICK cut : cut = SubSeq(matching, m, last)
    OBVIOUS
  <2>6. /\ cut \in Seq(S) /\ Len(cut) = last - m + 1
        /\ \A k \in 1 .. last - m + 1 : cut[k] = matching[m + k - 1]
    BY <2>3, <2>4, <2>5, SubSeqProperties
  <2>7. last - m + 1 = last - begin /\ \A k \in 1 .. last - begin : m + k - 1 = begin + k
    BY <1>13, <1>15, <2>2
  <2>8. reply.records = cut
    BY <1>11, <2>2, <2>5
  <2>9. QED  BY <2>6, <2>7, <2>8
<1>17. \A k \in 1 .. last - begin : matching[begin + k] = recent[i - (begin + k) + 1]
  <2>1. \A k \in 1 .. last - begin : begin + k \in 1 .. i
    BY <1>2, <1>13, <1>15
  <2>2. QED  BY <1>5, <2>1
<1>18. reply.pages \in 1 .. RecentLimit /\ reply.page \in 1 .. reply.pages
  BY <1>1, <1>2, <1>6, <1>8, <1>11
<1>19. \A k \in 1 .. Len(reply.records) : reply.records[k] = recent[i - (start + k) + 1]
  BY <1>12, <1>16, <1>17
<1>20. Len(reply.records) = IF start + PageSize <= i THEN PageSize ELSE i - start
  BY <1>12, <1>15, <1>16
<1>21. reply.status = 200 /\ reply.anchor = recent[i] /\ reply.records \in Seq(1 .. added)
  BY <1>11, <1>14, <1>16
<1>22. QED  BY <1>2, <1>12, <1>13, <1>18, <1>19, <1>20, <1>21 DEF CutAt

(* The page of an empty ring. *)
LEMMA EmptyPage ==
  ASSUME recent = <<>>, NEW asked \in Nat \ {0}, NEW reply, reply = Page(asked, None)
  PROVE  /\ reply.status = 200 /\ reply.anchor = None /\ reply.page = 1 /\ reply.pages = 1
         /\ reply.records = <<>>
<1>1. PageSize \in Nat /\ PageSize > 0
  BY PagerAssumption
<1>2. Upto(None) = <<>>
  BY DEF Upto
<1>3. Reverse(<<>>) = <<>>
  BY DEF Reverse
<1>4. Pages(0) = 1
  BY PagesCover
<1>5. SubSeq(<<>>, 1, 0) = <<>>
  BY SubSeqEmpty
<1>6. (1 - 1) * PageSize = 0 /\ ~(0 + PageSize <= 0)
  BY <1>1
<1>7. reply = [status |-> 200, records |-> <<>>, page |-> 1, pages |-> 1, anchor |-> None]
  BY <1>2, <1>3, <1>4, <1>5, <1>6 DEF Page
<1>8. QED  BY <1>7

-----------------------------------------------------------------------------
(* What is in the table, and what is on its way to it *)

(* The records of a page are where its number says, counted back from the  *)
(* anchor; those that have left the ring are older than all of it; and     *)
(* only a page that was the last one is short.                             *)
Fits(anchor, page, ids) ==
  \A i \in DOMAIN recent : recent[i] = anchor =>
    /\ \A k \in 1 .. Len(ids) :
         /\ Start(page) + k <= i => ids[k] = recent[i - (Start(page) + k) + 1]
         /\ Start(page) + k > i => ids[k] < recent[1]
    /\ i > Start(page) + Len(ids) => Len(ids) = PageSize

(* The page that is served continues the one in the table.                 *)
Follows(reply, page, ids) ==
  /\ reply.page = page => IsPrefix(reply.records, ids)
  /\ reply.page > page => Precedes(reply.records, ids)
  /\ reply.page < page => Precedes(ids, reply.records)
  /\ reply.page = page + 1 =>
       \A e \in Known : ~(Precedes(reply.records, <<e>>) /\ Precedes(<<e>>, ids))

PageOK(page, pages, anchor) ==
  page \in 1 .. pages /\ pages \in 1 .. RecentLimit /\ anchor \in (1 .. added) \cup {None}

RecordsOK(ids, anchor) ==
  /\ ids \in Seq(1 .. added) /\ Len(ids) <= PageSize
  /\ anchor # None => ids # <<>>

(* The table: while the session lasts, it fits the ring as it is. *)
TableOK(s, p, ids) ==
  /\ p = [page |-> p.page, pages |-> p.pages, anchor |-> p.anchor, live |-> p.live,
          loading |-> p.loading]
  /\ {p.live, p.loading} \subseteq BOOLEAN
  /\ PageOK(p.page, p.pages, p.anchor) /\ RecordsOK(ids, p.anchor)
  /\ s /\ p.anchor # None => Fits(p.anchor, p.page, ids)

Answered(f) == f.reply # None /\ f.reply.status = 200

(* A fetch, beside the table p, ids of the given run: the table waits for  *)
(* the fetch of that run, which was sent with the table's anchor; while    *)
(* the session lasts, the reply fits the ring as well; and it continues    *)
(* the table also when the session has ended.                              *)
FetchOK(f, run, s, p, ids) ==
  /\ f.run \in Nat \ {0} /\ f.page \in Nat \ {0} /\ f.live \in BOOLEAN
  /\ f.anchor \in (1 .. added) \cup {None} /\ (f.live => f.anchor = None)
  /\ Answered(f) =>
       /\ PageOK(f.reply.page, f.reply.pages, f.reply.anchor)
       /\ RecordsOK(f.reply.records, f.reply.anchor)
  /\ f.run = run => p.loading /\ (f.live \/ f.anchor = p.anchor)
  /\ f.run = run /\ Answered(f) =>
       /\ s /\ f.reply.anchor # None => Fits(f.reply.anchor, f.reply.page, f.reply.records)
       /\ ~f.live /\ p.anchor # None =>
            f.reply.anchor = p.anchor /\ Follows(f.reply, p.page, ids)

PagerInv ==
  /\ Superseded
  /\ {session, signedIn} \subseteq BOOLEAN /\ (~signedIn => pager = NoPage)
  /\ TableOK(session, pager, shown)
  /\ \A f \in fetches : FetchOK(f, revision, session, pager, shown)
  /\ \A f, g \in fetches : f.run = g.run => f = g

(* The ring, as a function of the places 1 .. n. *)
LEMMA RingShape ==
  ASSUME RingInv, added \in Nat
  PROVE  /\ Len(recent) \in Nat /\ DOMAIN recent = 1 .. Len(recent)
         /\ \A i \in 1 .. Len(recent) : recent[i] \in Nat /\ recent[i] \in 1 .. added
         /\ \A i, j \in 1 .. Len(recent) : i < j => recent[i] < recent[j]
         /\ \A i, j \in 1 .. Len(recent) : recent[i] = recent[j] => i = j
<1> PICK S : S = 1 .. added
  OBVIOUS
<1>1. recent \in Seq(S)
  BY DEF RingInv
<1>2. Len(recent) \in Nat /\ DOMAIN recent = 1 .. Len(recent) /\ \A i \in 1 .. Len(recent) : recent[i] \in S
  BY <1>1, SequenceShape
<1>3. \A i \in 1 .. Len(recent) : recent[i] \in Nat /\ recent[i] \in 1 .. added
  BY <1>2
<1>4. \A i, j \in 1 .. Len(recent) : i < j => recent[i] < recent[j]
  BY <1>2 DEF RingInv, Rising
<1>5. ASSUME NEW i \in 1 .. Len(recent), NEW j \in 1 .. Len(recent), recent[i] = recent[j]
      PROVE  i = j
  <2>1. ~(i < j) /\ ~(j < i)
    BY <1>3, <1>4, <1>5
  <2>2. QED  BY <1>2, <2>1
<1>6. QED  BY <1>2, <1>3, <1>4, <1>5

(* A page fits the ring it has been cut from. *)
LEMMA PageFits ==
  ASSUME RingInv, added \in Nat, NEW asked \in Nat \ {0}, NEW anchor,
         NEW i \in DOMAIN recent,
         (anchor = None /\ i = Len(recent)) \/ (anchor # None /\ recent[i] = anchor),
         NEW reply, reply = Page(asked, anchor)
  PROVE  Fits(reply.anchor, reply.page, reply.records)
<1>1. PICK q, L, ids : q = Start(reply.page) /\ L = Len(reply.records) /\ ids = reply.records
  OBVIOUS
<1>2. /\ i \in Nat /\ reply.anchor = recent[i] /\ q \in Nat /\ q < i
      /\ L = IF q + PageSize <= i THEN PageSize ELSE i - q
      /\ \A k \in 1 .. L : ids[k] = recent[i - (q + k) + 1]
  <2>1. /\ i \in Nat /\ reply.anchor = recent[i] /\ q \in Nat /\ q < i
        /\ Len(reply.records) = IF q + PageSize <= i THEN PageSize ELSE i - q
        /\ \A k \in 1 .. Len(reply.records) : reply.records[k] = recent[i - (q + k) + 1]
    <3>1. /\ i \in Nat /\ reply.anchor = recent[i] /\ Start(reply.page) \in Nat /\ Start(reply.page) < i
          /\ Len(reply.records) =
               IF Start(reply.page) + PageSize <= i THEN PageSize ELSE i - Start(reply.page)
          /\ \A k \in 1 .. Len(reply.records) :
               reply.records[k] = recent[i - (Start(reply.page) + k) + 1]
      <4>1. CutAt(reply, i)
        BY PageShape
      <4>2. QED  BY <4>1 DEF CutAt
    <3>2. QED  BY <1>1, <3>1
  <2>2. QED  BY <1>1, <2>1
<1>3. i \in 1 .. Len(recent) /\ DOMAIN recent = 1 .. Len(recent) /\ PageSize \in Nat
      /\ \A h \in 1 .. Len(recent) : recent[h] = recent[i] => h = i
  BY RingShape, PagerAssumption
<1>4. \A k \in 1 .. L : ~(q + k > i)
  BY <1>2, <1>3
<1>5. i > q + L => L = PageSize
  BY <1>2, <1>3
<1>6. SUFFICES ASSUME NEW h \in 1 .. Len(recent), recent[h] = reply.anchor
               PROVE  /\ \A k \in 1 .. L : /\ q + k <= h => ids[k] = recent[h - (q + k) + 1]
                                           /\ q + k > h => ids[k] < recent[1]
                      /\ h > q + L => L = PageSize
  BY <1>1, <1>3 DEF Fits
<1>7. h = i
  BY <1>2, <1>3, <1>6
<1>8. QED  BY <1>2, <1>4, <1>5, <1>7

(* What fits the ring fits it when it has moved on. *)
LEMMA FitsAdded ==
  ASSUME JournalInv, RingInv, RingInv', Add, NEW anchor \in 1 .. added, NEW page \in Nat \ {0},
         NEW ids \in Seq(1 .. added), Fits(anchor, page, ids)
  PROVE  Fits(anchor, page, ids)'
<1>1. PICK r, t, n, m, s, L :
        /\ r = recent' /\ t = added' /\ n = Len(recent) /\ m = Len(r)
        /\ s = Start(page) /\ L = Len(ids)
  OBVIOUS
<1>2. added \in Nat /\ t = added + 1 /\ s \in Nat /\ L \in Nat
  BY <1>1, JournalAssumption, StartsInOrder DEF JournalInv, StateTypes, Add
<1>3. PICK gone \in {0, 1} :
        n = m - 1 + gone /\ \A i \in 1 .. m - 1 : r[i] = recent[i + gone]
  BY <1>1, AddedRing
<1>4. n \in Nat /\ DOMAIN recent = 1 .. n /\ m \in Nat /\ m > 0 /\ DOMAIN r = 1 .. m /\ r[m] = t
  BY <1>1, AddedRing
<1>5. /\ \A i \in 1 .. n : recent[i] \in Nat
      /\ \A i, j \in 1 .. n : i < j => recent[i] < recent[j]
  BY <1>1, <1>2, RingShape
<1>6. \A i \in 1 .. n : recent[i] = anchor =>
        /\ \A k \in 1 .. L : /\ s + k <= i => ids[k] = recent[i - (s + k) + 1]
                             /\ s + k > i => ids[k] < recent[1]
        /\ i > s + L => L = PageSize
  BY <1>1, <1>4 DEF Fits
<1>7. \A k \in 1 .. L : ids[k] \in Nat
  <2>1. \A k \in 1 .. L : ids[k] \in 1 .. added
    BY <1>1, SequenceShape
  <2>2. QED  BY <2>1
<1>8. SUFFICES ASSUME NEW i \in 1 .. m, r[i] = anchor
               PROVE  /\ \A k \in 1 .. L : /\ s + k <= i => ids[k] = r[i - (s + k) + 1]
                                           /\ s + k > i => ids[k] < r[1]
                      /\ i > s + L => L = PageSize
  BY <1>1, <1>4 DEF Fits, Start
<1>9. i \in 1 .. m - 1 /\ i + gone \in 1 .. n /\ recent[i + gone] = anchor
  <2>1. i # m
    BY <1>2, <1>4, <1>8
  <2>2. i \in 1 .. m - 1 /\ i + gone \in 1 .. n
    BY <1>3, <1>4, <2>1
  <2>3. QED  BY <1>3, <1>8, <2>2
<1>a. PICK h : h = i + gone
  OBVIOUS
<1>b. /\ h \in 1 .. n /\ recent[h] = anchor
      /\ \A k \in 1 .. L : /\ s + k <= h => ids[k] = recent[h - (s + k) + 1]
                           /\ s + k > h => ids[k] < recent[1]
      /\ h > s + L => L = PageSize
  <2>1. h \in 1 .. n /\ recent[h] = anchor
    BY <1>9, <1>a
  <2>2. QED  BY <1>6, <2>1
<1>10. r[1] = recent[1 + gone] /\ 1 \in 1 .. n /\ 1 + gone \in 1 .. n
  <2>1. 1 \in 1 .. m - 1
    BY <1>4, <1>9
  <2>2. QED  BY <1>3, <1>4, <2>1
<1>11. gone = 0 => r[1] = recent[1]
  BY <1>10
<1>12. gone = 1 => r[1] > recent[1]
  <2>1. gone = 1 => recent[1] < recent[1 + gone]
    BY <1>5, <1>10
  <2>2. QED  BY <1>5, <1>10, <2>1
<1>13. i > s + L => L = PageSize
  BY <1>2, <1>3, <1>4, <1>9, <1>a, <1>b
<1>14. ASSUME NEW k \in 1 .. L, s + k <= i PROVE ids[k] = r[i - (s + k) + 1]
  <2>1. s + k <= h /\ k \in Nat /\ k > 0
    BY <1>2, <1>3, <1>4, <1>14, <1>a
  <2>2. ids[k] = recent[h - (s + k) + 1]
    BY <1>b, <2>1
  <2>3. PICK j : j = i - (s + k) + 1
    OBVIOUS
  <2>4. j \in 1 .. m - 1 /\ j + gone = h - (s + k) + 1
    BY <1>2, <1>3, <1>4, <1>9, <1>14, <1>a, <2>1, <2>3
  <2>5. r[j] = recent[j + gone]
    BY <1>3, <2>4
  <2>6. QED  BY <2>2, <2>3, <2>4, <2>5
<1>15. ASSUME NEW k \in 1 .. L, s + k > i PROVE ids[k] < r[1]
  <2>1. recent[1] \in Nat /\ r[1] \in Nat /\ ids[k] \in Nat /\ k \in Nat
    BY <1>2, <1>5, <1>7, <1>10
  <2>2. CASE s + k > h
    <3>1. ids[k] < recent[1]
      BY <1>b, <2>2
    <3>2. QED  BY <1>3, <1>11, <1>12, <2>1, <3>1
  <2>3. CASE ~(s + k > h)
    <3>1. gone = 1 /\ s + k <= h /\ h - (s + k) + 1 = 1
      BY <1>2, <1>3, <1>4, <1>9, <1>15, <1>a, <2>1, <2>3
    <3>2. ids[k] = recent[h - (s + k) + 1]
      BY <1>b, <3>1
    <3>3. QED  BY <1>12, <3>1, <3>2
  <2>4. QED  BY <2>2, <2>3
<1>16. QED  BY <1>13, <1>14, <1>15

(* The records at later places are the newer ones, and the other way round. *)
LEMMA PlacesInOrder ==
  ASSUME RingInv, added \in Nat, NEW i \in 1 .. Len(recent), NEW j \in 1 .. Len(recent)
  PROVE  recent[i] < recent[j] <=> i < j
<1>1. /\ recent[i] \in Nat /\ recent[j] \in Nat /\ i \in Nat /\ j \in Nat
      /\ (i < j => recent[i] < recent[j]) /\ (j < i => recent[j] < recent[i])
  BY RingShape
<1>2. CASE i = j
  BY <1>1, <1>2
<1>3. CASE i # j
  BY <1>1, <1>3
<1>4. QED  BY <1>2, <1>3

(* A page that counts back from the anchor continues another one that fits *)
(* the ring with the same anchor.                                          *)
LEMMA PageFollows ==
  ASSUME RingInv, added \in Nat, Known \subseteq 1 .. added, NEW i \in DOMAIN recent,
         NEW page \in Nat \ {0}, NEW ids \in Seq(1 .. added), Len(ids) <= PageSize, ids # <<>>,
         Fits(recent[i], page, ids),
         NEW reply, CutAt(reply, i)
  PROVE  Follows(reply, page, ids)
<1>1. PICK q, s, L, l, records, n :
        /\ q = Start(reply.page) /\ s = Start(page) /\ n = Len(recent)
        /\ L = Len(reply.records) /\ l = Len(ids) /\ records = reply.records
  OBVIOUS
<1>2. PICK S : S = 1 .. added
  OBVIOUS
<1>3. PageSize \in Nat /\ PageSize > 0
  BY PagerAssumption
<1>4. /\ n \in Nat /\ i \in 1 .. n /\ DOMAIN recent = 1 .. n
      /\ \A h \in 1 .. n : recent[h] \in Nat
      /\ \A h, j \in 1 .. n : recent[h] < recent[j] <=> h < j
  <2>1. \A h, j \in 1 .. n : recent[h] < recent[j] <=> h < j
    BY <1>1, PlacesInOrder
  <2>2. QED  BY <1>1, <2>1, RingShape
<1>5. l \in Nat /\ l > 0 /\ l <= PageSize /\ DOMAIN ids = 1 .. l /\ ids \in Seq(S)
      /\ \A k \in 1 .. l : ids[k] \in Nat
  <2>1. ids \in Seq(S) /\ l \in Nat /\ l > 0 /\ l <= PageSize /\ DOMAIN ids = 1 .. l
    BY <1>1, <1>2
  <2>2. \A k \in 1 .. l : ids[k] \in S
    BY <2>1, SequenceShape
  <2>3. \A x \in S : x \in Nat
    BY <1>2
  <2>4. QED  BY <2>1, <2>2, <2>3
<1>6. /\ reply.page \in Nat \ {0} /\ q \in Nat /\ q < i
      /\ records \in Seq(S) /\ L \in Nat /\ DOMAIN records = 1 .. L
      /\ L = IF q + PageSize <= i THEN PageSize ELSE i - q
      /\ \A k \in 1 .. L : records[k] = recent[i - (q + k) + 1]
  <2>1. /\ reply.pages \in 1 .. RecentLimit /\ reply.page \in 1 .. reply.pages
        /\ q \in Nat /\ q < i /\ records \in Seq(S)
        /\ L = IF q + PageSize <= i THEN PageSize ELSE i - q
        /\ \A k \in 1 .. L : records[k] = recent[i - (q + k) + 1]
    BY <1>1, <1>2 DEF CutAt
  <2>2. reply.page \in Nat \ {0}
    BY <2>1, JournalAssumption
  <2>3. L \in Nat /\ DOMAIN records = 1 .. L
    BY <1>1, <2>1, SequenceShape
  <2>4. QED  BY <2>1, <2>2, <2>3
<1>7. /\ \A k \in 1 .. l : /\ s + k <= i => ids[k] = recent[i - (s + k) + 1]
                           /\ s + k > i => ids[k] < recent[1]
      /\ i > s + l => l = PageSize
  BY <1>1 DEF Fits
<1>8. /\ s \in Nat
      /\ reply.page > page => s + PageSize <= q
      /\ reply.page < page => q + PageSize <= s
      /\ reply.page = page + 1 => q = s + PageSize
  BY <1>1, <1>6, StartsInOrder
<1>9. L > 0 /\ L <= PageSize
  BY <1>3, <1>4, <1>6
<1>a. /\ PageSize \in Nat /\ i \in Nat /\ n \in Nat /\ q \in Nat /\ s \in Nat /\ L \in Nat /\ l \in Nat
      /\ PageSize > 0 /\ i > 0 /\ i <= n /\ q < i /\ L > 0 /\ l > 0 /\ L <= PageSize /\ l <= PageSize
      /\ q + L <= i /\ (i > s + l => l = PageSize)
  <2>1. q + L <= i
    BY <1>3, <1>4, <1>6
  <2>2. i \in Nat /\ i > 0 /\ i <= n /\ n \in Nat
    BY <1>4
  <2>3. q \in Nat /\ q < i /\ L \in Nat /\ s \in Nat
    BY <1>6, <1>8
  <2>4. l \in Nat /\ l > 0 /\ l <= PageSize /\ (i > s + l => l = PageSize)
    BY <1>5, <1>7
  <2>5. QED  BY <1>3, <1>9, <2>1, <2>2, <2>3, <2>4
<1>10. ASSUME reply.page = page PROVE IsPrefix(records, ids)
  <2>1. q = s
    BY <1>1, <1>10
  <2>2. L <= l
    BY <1>3, <1>4, <1>5, <1>6, <1>7, <2>1
  <2>3. \A k \in 1 .. L : records[k] = ids[k]
    <3> SUFFICES ASSUME NEW k \in 1 .. L PROVE records[k] = ids[k]
      OBVIOUS
    <3>1. k \in 1 .. l /\ s + k <= i
      BY <1>3, <1>4, <1>5, <1>6, <2>1, <2>2
    <3>2. QED  BY <1>6, <1>7, <2>1, <3>1
  <2>4. SubSeq(records, 1, L) = SubSeq(ids, 1, L)
    BY <1>5, <1>6, <2>2, <2>3
  <2>5. QED  BY <1>1, <2>2, <2>4 DEF IsPrefix
<1>11. ASSUME reply.page > page PROVE Precedes(records, ids)
  <2> SUFFICES ASSUME NEW a \in 1 .. L, NEW b \in 1 .. l PROVE records[a] < ids[b]
    BY <1>5, <1>6 DEF Precedes
  <2>1. PICK h, j : h = i - (q + a) + 1 /\ j = i - (s + b) + 1
    OBVIOUS
  <2>a. s + PageSize <= q
    BY <1>8, <1>11
  <2>2. h \in 1 .. n /\ j \in 1 .. n /\ h < j /\ s + b <= i
    BY <1>a, <2>1, <2>a
  <2>3. QED  BY <1>4, <1>6, <1>7, <2>1, <2>2
<1>12. ASSUME reply.page < page PROVE Precedes(ids, records)
  <2> SUFFICES ASSUME NEW a \in 1 .. L, NEW b \in 1 .. l PROVE ids[b] < records[a]
    BY <1>5, <1>6 DEF Precedes
  <2>1. PICK h, j : h = i - (q + a) + 1 /\ j = i - (s + b) + 1
    OBVIOUS
  <2>a. q + PageSize <= s
    BY <1>8, <1>12
  <2>2. h \in 1 .. n /\ j < h /\ 1 \in 1 .. n
    BY <1>a, <2>1, <2>a
  <2>3. records[a] = recent[h] /\ recent[h] \in Nat /\ ids[b] \in Nat /\ recent[1] \in Nat
    BY <1>4, <1>5, <1>6, <2>1, <2>2
  <2>4. CASE s + b <= i
    <3>1. j \in 1 .. n
      BY <1>a, <2>1, <2>4
    <3>a. ids[b] = recent[j]
      BY <1>7, <2>1, <2>4
    <3>2. QED  BY <1>4, <2>2, <2>3, <3>1, <3>a
  <2>5. CASE s + b > i
    <3>1. ids[b] < recent[1]
      BY <1>7, <2>5
    <3>2. ~(recent[h] < recent[1])
      BY <1>4, <2>2
    <3>3. QED  BY <2>3, <3>1, <3>2
  <2>6. QED  BY <1>5, <1>4, <1>8, <2>4, <2>5
<1>13. ASSUME reply.page = page + 1, NEW e \in Known, e \in Nat,
              Precedes(records, <<e>>), Precedes(<<e>>, ids)
       PROVE  FALSE
  <2>1. q = s + PageSize
    BY <1>8, <1>13
  <2>2. l = PageSize /\ s + l <= i
    BY <1>a, <2>1
  <2>3. PICK h : h = i - q
    OBVIOUS
  <2>4. h \in 1 .. n /\ h + 1 \in 1 .. n /\ 1 \in 1 .. n
    BY <1>a, <2>1, <2>3
  <2>5. records[1] = recent[h]
    <3>1. i - (q + 1) + 1 = h /\ 1 \in 1 .. L
      BY <1>4, <1>6, <1>9, <2>3
    <3>2. QED  BY <1>6, <3>1
  <2>6. ids[l] = recent[h + 1]
    <3>1. i - (s + l) + 1 = h + 1 /\ l \in 1 .. l
      BY <1>4, <1>5, <1>6, <1>8, <2>1, <2>2, <2>3
    <3>2. QED  BY <1>7, <2>2, <3>1
  <2>7. records[1] < e /\ e < ids[l]
    <3>1. 1 \in DOMAIN <<e>> /\ <<e>>[1] = e /\ 1 \in DOMAIN records /\ l \in DOMAIN ids
      BY <1>5, <1>6, <1>9
    <3>2. QED  BY <1>13, <3>1 DEF Precedes
  <2>8. PICK g \in 1 .. n : recent[g] = e
    <3>1. recent # <<>>
      BY <1>4
    <3>2. ~(recent[h] < recent[1])
      BY <1>4, <2>4
    <3>3. e >= recent[1]
      BY <1>4, <1>13, <2>4, <2>5, <2>7, <3>2
    <3>4. QED  BY <1>4, <1>13, <3>1, <3>3 DEF RingInv, ToSet
  <2>9. h < g /\ g < h + 1
    BY <1>4, <2>4, <2>5, <2>6, <2>7, <2>8
  <2>10. QED  BY <2>4, <2>9
<1>14. ASSUME NEW e \in Known PROVE e \in Nat
  <2>1. e \in 1 .. added
    OBVIOUS
  <2>2. QED  BY <2>1
<1>15. QED
  BY <1>1, <1>10, <1>11, <1>12, <1>13, <1>14 DEF Follows

(* A fetch that is not the newest asks nothing of the table. *)
LEMMA FetchAside ==
  ASSUME NEW f, NEW run, NEW s, NEW p, NEW ids, FetchOK(f, run, s, p, ids),
         NEW later, f.run # later, NEW t, NEW q, NEW others
  PROVE  FetchOK(f, later, t, q, others)
BY DEF FetchOK

(* A fetch that has been sent, before its answer. *)
LEMMA SentOK ==
  ASSUME revision \in Nat, NEW page \in Nat \ {0}, NEW live \in BOOLEAN, NEW recovery,
         NEW anchor \in (1 .. added) \cup {None},
         NEW s, NEW p, NEW ids, p.loading, live \/ anchor = p.anchor
  PROVE  FetchOK(Sent(page, live, recovery, anchor), revision + 1, s, p, ids)
<1> PICK f : f = Sent(page, live, recovery, anchor)
  OBVIOUS
<1>1. /\ f.run = revision + 1 /\ f.page = page /\ f.live = live /\ f.reply = None
      /\ f.anchor = IF live THEN None ELSE anchor
  BY DEF Sent
<1>2. ~Answered(f)
  BY <1>1 DEF Answered
<1>3. f.anchor \in (1 .. added) \cup {None} /\ (f.live => f.anchor = None)
      /\ f.run \in Nat \ {0} /\ f.page \in Nat \ {0} /\ f.live \in BOOLEAN
      /\ (f.live \/ f.anchor = p.anchor)
  BY <1>1
<1>4. QED  BY <1>2, <1>3 DEF FetchOK

(* What the server answers while the anchor is in the ring. *)
LEMMA ServedPage ==
  ASSUME RingInv, added \in Nat, NEW asked \in Nat \ {0},
         NEW anchor \in (1 .. added) \cup {None}, ~Expired(anchor),
         NEW reply, reply = Page(asked, anchor)
  PROVE  /\ PageOK(reply.page, reply.pages, reply.anchor)
         /\ RecordsOK(reply.records, reply.anchor)
         /\ reply.anchor # None => Fits(reply.anchor, reply.page, reply.records)
         /\ anchor # None => \E i \in DOMAIN recent : recent[i] = anchor /\ CutAt(reply, i)
<1>1. RecentLimit \in Nat /\ RecentLimit > 0 /\ PageSize \in Nat /\ PageSize > 0
  BY JournalAssumption, PagerAssumption
<1>2. CASE recent = <<>>
  <2>1. anchor = None
    BY <1>2 DEF Expired, ToSet
  <2>2. reply.anchor = None /\ reply.page = 1 /\ reply.pages = 1 /\ reply.records = <<>>
    BY <1>2, <2>1, EmptyPage
  <2>3. <<>> \in Seq(1 .. added) /\ Len(<<>>) = 0
    OBVIOUS
  <2>4. 1 \in 1 .. 1 /\ 1 \in 1 .. RecentLimit
    BY <1>1
  <2>5. PageOK(reply.page, reply.pages, reply.anchor)
    BY <2>2, <2>4 DEF PageOK
  <2>6. RecordsOK(reply.records, reply.anchor)
    BY <1>1, <2>2, <2>3 DEF RecordsOK
  <2>7. QED  BY <2>1, <2>2, <2>5, <2>6
<1>3. CASE recent # <<>>
  <2>1. /\ Len(recent) \in Nat /\ DOMAIN recent = 1 .. Len(recent) /\ Len(recent) > 0
        /\ \A i \in 1 .. Len(recent) : recent[i] \in 1 .. added
    <3>1. Len(recent) > 0
      BY <1>3 DEF RingInv
    <3>2. QED  BY <3>1, RingShape
  <2>2. PICK i \in DOMAIN recent :
          (anchor = None /\ i = Len(recent)) \/ (anchor # None /\ recent[i] = anchor)
    <3>1. CASE anchor = None
      BY <2>1, <3>1
    <3>2. CASE anchor # None
      BY <3>2 DEF Expired, ToSet
    <3>3. QED  BY <3>1, <3>2
  <2>3. CutAt(reply, i)
    BY <2>2, PageShape
  <2>4. Fits(reply.anchor, reply.page, reply.records)
    BY <2>2, PageFits
  <2>5. reply.anchor \in 1 .. added
    BY <2>1, <2>3 DEF CutAt
  <2>6. PageOK(reply.page, reply.pages, reply.anchor)
    BY <2>3, <2>5 DEF CutAt, PageOK
  <2>7. RecordsOK(reply.records, reply.anchor)
    <3>1. PICK start, size : start = Start(reply.page) /\ size = Len(reply.records)
      OBVIOUS
    <3>2. /\ i \in Nat /\ start \in Nat /\ start < i /\ reply.records \in Seq(1 .. added)
          /\ size = IF start + PageSize <= i THEN PageSize ELSE i - start
      BY <2>3, <3>1 DEF CutAt
    <3>3. size > 0 /\ size <= PageSize
      BY <1>1, <3>2
    <3>4. reply.records # <<>>
      BY <3>1, <3>3
    <3>5. QED  BY <3>1, <3>2, <3>3, <3>4 DEF RecordsOK
  <2>8. QED  BY <2>2, <2>3, <2>4, <2>6, <2>7
<1>4. QED  BY <1>2, <1>3

(* The answer to a fetch, whatever it is, leaves the fetch in order. *)
LEMMA AnswerOK ==
  ASSUME RingInv, added \in Nat, Known \subseteq 1 .. added,
         NEW f, Shape(f), f.reply = None,
         NEW p, NEW ids, TableOK(session, p, ids),
         NEW run, FetchOK(f, run, session, p, ids)
  PROVE  FetchOK([f EXCEPT !.reply = Answer(f)], run, session, p, ids)
<1>1. PICK reply, g : reply = Answer(f) /\ g = [f EXCEPT !.reply = reply]
  OBVIOUS
<1>2. /\ g.run = f.run /\ g.page = f.page /\ g.live = f.live /\ g.anchor = f.anchor
      /\ g.reply = reply
  <2>1. g = [run |-> f.run, page |-> f.page, live |-> f.live, recovery |-> f.recovery,
             anchor |-> f.anchor, reply |-> reply]
    BY <1>1 DEF Shape
  <2>2. QED  BY <2>1
<1>3. CASE ~Answered(g)
  BY <1>1, <1>2, <1>3 DEF FetchOK
<1>4. CASE Answered(g)
  <2>1. session /\ ~Expired(f.anchor) /\ reply = Page(f.page, f.anchor)
    BY <1>1, <1>2, <1>4 DEF Answer, Answered
  <2>2. f.page \in Nat \ {0} /\ f.anchor \in (1 .. added) \cup {None}
    BY DEF FetchOK
  <2>3. /\ PageOK(reply.page, reply.pages, reply.anchor) /\ RecordsOK(reply.records, reply.anchor)
        /\ reply.anchor # None => Fits(reply.anchor, reply.page, reply.records)
        /\ f.anchor # None => \E i \in DOMAIN recent : recent[i] = f.anchor /\ CutAt(reply, i)
    BY <2>1, <2>2, ServedPage
  <2>4. ASSUME f.run = run, ~f.live, p.anchor # None
        PROVE  reply.anchor = p.anchor /\ Follows(reply, p.page, ids)
    <3>1. f.anchor = p.anchor
      BY <2>4 DEF FetchOK
    <3>2. PICK i \in DOMAIN recent : recent[i] = p.anchor /\ CutAt(reply, i)
      BY <2>3, <2>4, <3>1
    <3>3. Fits(recent[i], p.page, ids) /\ ids \in Seq(1 .. added) /\ Len(ids) <= PageSize /\ ids # <<>>
      BY <2>1, <2>4, <3>2 DEF TableOK, RecordsOK
    <3>4. p.page \in Nat \ {0}
      BY JournalAssumption DEF TableOK, PageOK
    <3>5. Follows(reply, p.page, ids)
      BY <3>2, <3>3, <3>4, PageFollows
    <3>6. reply.anchor = recent[i]
      BY <3>2 DEF CutAt
    <3>7. QED  BY <3>2, <3>5, <3>6
  <2>5. /\ g.run \in Nat \ {0} /\ g.page \in Nat \ {0} /\ g.live \in BOOLEAN
        /\ g.anchor \in (1 .. added) \cup {None} /\ (g.live => g.anchor = None)
        /\ g.run = run => p.loading /\ (g.live \/ g.anchor = p.anchor)
    BY <1>2 DEF FetchOK
  <2>6. /\ PageOK(g.reply.page, g.reply.pages, g.reply.anchor)
        /\ RecordsOK(g.reply.records, g.reply.anchor)
        /\ g.reply.anchor # None => Fits(g.reply.anchor, g.reply.page, g.reply.records)
        /\ g.run = run /\ ~g.live /\ p.anchor # None =>
             g.reply.anchor = p.anchor /\ Follows(g.reply, p.page, ids)
    BY <1>2, <2>3, <2>4
  <2>7. QED  BY <1>1, <2>5, <2>6 DEF FetchOK
<1>5. QED  BY <1>1, <1>3, <1>4

(* A step that leaves the ring alone leaves what is said of it. *)
LEMMA RingStill ==
  ASSUME UNCHANGED journalVars, NEW f, NEW run, NEW s, NEW p, NEW ids
  PROVE  /\ TableOK(s, p, ids)' <=> TableOK(s, p, ids)
         /\ FetchOK(f, run, s, p, ids)' <=> FetchOK(f, run, s, p, ids)
<1>1. UNCHANGED <<recent, added, queue, files>>
  BY DEF journalVars
<1>2. Known' = Known
  BY <1>1 DEF Known, Parsed, Parses, Lines
<1>3. QED
  BY <1>1, <1>2 DEF TableOK, FetchOK, PageOK, RecordsOK, Fits, Follows, Start, Answered

-----------------------------------------------------------------------------
(* The steps of the pager *)


(* The table of somebody who has just signed in or out. *)
LEMMA EmptyTable == ASSUME NEW s PROVE TableOK(s, NoPage, <<>>)
<1>1. RecentLimit \in Nat /\ RecentLimit > 0 /\ PageSize \in Nat
  BY JournalAssumption, PagerAssumption
<1>2. PICK p : p = NoPage
  OBVIOUS
<1>3. /\ p.page = 1 /\ p.pages = 1 /\ p.anchor = None /\ p.live = TRUE /\ p.loading = FALSE
      /\ p = [page |-> p.page, pages |-> p.pages, anchor |-> p.anchor, live |-> p.live,
              loading |-> p.loading]
  BY <1>2 DEF NoPage
<1>4. 1 \in 1 .. 1 /\ 1 \in 1 .. RecentLimit
  BY <1>1
<1>5. <<>> \in Seq(1 .. added) /\ Len(<<>>) <= PageSize
  BY <1>1
<1>6. PageOK(p.page, p.pages, p.anchor)
  BY <1>3, <1>4 DEF PageOK
<1>7. RecordsOK(<<>>, p.anchor)
  BY <1>3, <1>5 DEF RecordsOK
<1>8. {p.live, p.loading} \subseteq BOOLEAN
  BY <1>3
<1>9. QED  BY <1>2, <1>3, <1>6, <1>7, <1>8 DEF TableOK

(* A load that begins or ends leaves the table as it is. *)
LEMMA TableLoading ==
  ASSUME NEW s, NEW p, NEW ids, TableOK(s, p, ids), NEW loading \in BOOLEAN,
         NEW q, q = [p EXCEPT !.loading = loading]
  PROVE  /\ TableOK(s, q, ids) /\ q.loading = loading
         /\ q.anchor = p.anchor /\ q.page = p.page /\ q.live = p.live
<1>1. q = [page |-> p.page, pages |-> p.pages, anchor |-> p.anchor, live |-> p.live,
           loading |-> loading]
  BY DEF TableOK
<1>2. /\ q.page = p.page /\ q.pages = p.pages /\ q.anchor = p.anchor /\ q.live = p.live
      /\ q.loading = loading
  BY <1>1
<1>3. QED  BY <1>1, <1>2 DEF TableOK

(* Nor does giving the anchor up disturb it. *)
LEMMA TableNewest ==
  ASSUME NEW s, NEW p, NEW ids, TableOK(s, p, ids), NEW q, q = [p EXCEPT !.anchor = None]
  PROVE  TableOK(s, q, ids) /\ q.loading = p.loading /\ q.anchor = None
<1>1. q = [page |-> p.page, pages |-> p.pages, anchor |-> None, live |-> p.live,
           loading |-> p.loading]
  BY DEF TableOK
<1>2. /\ q.page = p.page /\ q.pages = p.pages /\ q.anchor = None /\ q.live = p.live
      /\ q.loading = p.loading
  BY <1>1
<1>3. QED  BY <1>1, <1>2 DEF TableOK, PageOK, RecordsOK

(* The invariant after a step of the pager, from its parts.                *)
LEMMA Reassembled ==
  ASSUME UNCHANGED journalVars, Superseded',
         NEW s, NEW i, NEW p, NEW ids, NEW run, NEW F,
         s = session', i = signedIn', p = pager', ids = shown', run = revision', F = fetches',
         {s, i} \subseteq BOOLEAN, ~i => p = NoPage,
         TableOK(s, p, ids), \A f \in F : FetchOK(f, run, s, p, ids),
         \A f, g \in F : f.run = g.run => f = g
  PROVE  PagerInv'
<1>1. TableOK(s, p, ids)'
  BY RingStill
<1>2. \A f \in F : FetchOK(f, run, s, p, ids)'
  BY RingStill
<1>3. NoPage' = NoPage
  BY DEF NoPage
<1>4. QED  BY <1>1, <1>2, <1>3 DEF PagerInv

(* A fetch is sent. *)
LEMMA LoadKeeps ==
  ASSUME PagerInv, Superseded', UNCHANGED journalVars,
         NEW page \in Nat \ {0}, NEW live \in BOOLEAN, Load(page, live)
  PROVE  PagerInv'
<1>1. PICK s, i, p, ids, run, F :
        s = session' /\ i = signedIn' /\ p = pager' /\ ids = shown' /\ run = revision' /\ F = fetches'
  OBVIOUS
<1>2. PICK new : new = Sent(page, live, TRUE, pager.anchor)
  OBVIOUS
<1>3. /\ s = session /\ i = signedIn /\ i /\ ids = shown /\ run = revision + 1
      /\ F = fetches \cup {new} /\ p = [pager EXCEPT !.loading = TRUE]
  BY <1>1, <1>2 DEF Load
<1>4. TableOK(s, p, ids) /\ p.loading /\ p.anchor = pager.anchor
  <2>1. TableOK(s, pager, ids) /\ TRUE \in BOOLEAN
    BY <1>3 DEF PagerInv
  <2>2. PICK old, yes : old = pager /\ yes = TRUE
    OBVIOUS
  <2>3. yes \in BOOLEAN /\ TableOK(s, old, ids) /\ p = [old EXCEPT !.loading = yes]
    BY <1>3, <2>1, <2>2
  <2>4. TableOK(s, p, ids) /\ p.loading = yes /\ p.anchor = old.anchor
    BY <2>3, TableLoading
  <2>5. TableOK(s, p, ids) /\ p.loading = TRUE /\ p.anchor = pager.anchor
    BY <2>2, <2>4
  <2>6. QED  BY <2>5
<1>5. revision \in Nat /\ \A f \in fetches : f.run \in Nat /\ f.run <= revision
  BY DEF PagerInv, Superseded
<1>6. new.run = revision + 1
  BY <1>2, SentShape
<1>7. FetchOK(new, run, s, p, ids)
  <2>1. pager.anchor \in (1 .. added) \cup {None}
    BY DEF PagerInv, TableOK, PageOK
  <2>2. QED  BY <1>2, <1>3, <1>4, <1>5, <2>1, SentOK
<1>8. \A f \in fetches : f.run # revision + 1
  BY <1>5
<1>9. \A f \in fetches : FetchOK(f, run, s, p, ids)
  BY <1>3, <1>8, FetchAside DEF PagerInv
<1>10. \A f, g \in F : f.run = g.run => f = g
  BY <1>3, <1>6, <1>8 DEF PagerInv
<1>11. {s, i} \subseteq BOOLEAN /\ (~i => p = NoPage)
  BY <1>3 DEF PagerInv
<1>12. \A f \in F : FetchOK(f, run, s, p, ids)
  BY <1>3, <1>7, <1>9
<1>13. QED  BY <1>1, <1>4, <1>10, <1>11, <1>12, Reassembled

(* The server answers. *)
LEMMA ServeKeeps ==
  ASSUME JournalInv, RingInv, PagerInv, Superseded', UNCHANGED journalVars,
         NEW f \in fetches, Serve(f)
  PROVE  PagerInv'
<1>1. PICK s, i, p, ids, run, F :
        s = session' /\ i = signedIn' /\ p = pager' /\ ids = shown' /\ run = revision' /\ F = fetches'
  OBVIOUS
<1>2. PICK new : new = [f EXCEPT !.reply = Answer(f)]
  OBVIOUS
<1>3. /\ s = session /\ i = signedIn /\ p = pager /\ ids = shown /\ run = revision
      /\ F = (fetches \ {f}) \cup {new} /\ f.reply = None
  BY <1>1, <1>2 DEF Serve
<1>4. Shape(f)
  BY DEF PagerInv, Superseded
<1>5. new.run = f.run
  BY <1>2, <1>4, AnsweredShape
<1>6. FetchOK(new, run, s, p, ids)
  <2>1. added \in Nat /\ Known \subseteq 1 .. added
    BY KnownAdded
  <2>2. TableOK(session, p, ids) /\ FetchOK(f, run, session, p, ids)
    BY <1>3 DEF PagerInv
  <2>3. QED  BY <1>2, <1>3, <1>4, <2>1, <2>2, AnswerOK
<1>7. /\ \A g \in fetches : FetchOK(g, run, s, p, ids)
      /\ \A g, h \in fetches : g.run = h.run => g = h
      /\ {s, i} \subseteq BOOLEAN /\ (~i => p = NoPage) /\ TableOK(s, p, ids)
  BY <1>3 DEF PagerInv
<1>8. \A g, h \in F : g.run = h.run => g = h
  BY <1>3, <1>5, <1>7
<1>9. \A g \in F : FetchOK(g, run, s, p, ids)
  BY <1>3, <1>6, <1>7
<1>10. QED
  BY <1>1, <1>7, <1>8, <1>9, Reassembled

(* The console returns to the login form. *)
LEMMA LoginKeeps ==
  ASSUME PagerInv, Superseded', UNCHANGED journalVars, ShowLogin,
         session' = session, fetches' \subseteq fetches
  PROVE  PagerInv'
<1>1. PICK s, i, p, ids, run, F :
        s = session' /\ i = signedIn' /\ p = pager' /\ ids = shown' /\ run = revision' /\ F = fetches'
  OBVIOUS
<1>2. s = session /\ i = FALSE /\ p = NoPage /\ ids = <<>> /\ run = revision + 1 /\ F \subseteq fetches
  BY <1>1 DEF ShowLogin, Reset
<1>3. TableOK(s, p, ids)
  BY <1>2, EmptyTable
<1>4. \A f \in fetches : f.run # run
  BY <1>2 DEF PagerInv, Superseded
<1>5. \A f \in F : FetchOK(f, run, s, p, ids)
  BY <1>2, <1>4, FetchAside DEF PagerInv
<1>6. (\A f, g \in F : f.run = g.run => f = g) /\ {s, i} \subseteq BOOLEAN
  BY <1>2 DEF PagerInv
<1>7. QED  BY <1>1, <1>2, <1>3, <1>5, <1>6, Reassembled

(* A reply, or an error, arrives. *)
LEMMA ArriveKeeps ==
  ASSUME PagerInv, Superseded', UNCHANGED journalVars, NEW f \in fetches, Arrive(f)
  PROVE  PagerInv'
<1>1. PICK s, i, p, ids, run, F :
        s = session' /\ i = signedIn' /\ p = pager' /\ ids = shown' /\ run = revision' /\ F = fetches'
  OBVIOUS
<1>2. /\ \A g \in fetches : FetchOK(g, revision, session, pager, shown)
      /\ \A g, h \in fetches : g.run = h.run => g = h
      /\ {session, signedIn} \subseteq BOOLEAN /\ (~signedIn => pager = NoPage)
      /\ TableOK(session, pager, shown)
  BY DEF PagerInv
<1>3. revision \in Nat /\ (\A g \in fetches : g.run <= revision /\ g.run \in Nat)
      /\ (f.run = revision => signedIn)
  BY DEF PagerInv, Superseded
<1>4. CASE Denied(f)
  BY <1>4, LoginKeeps DEF Denied
<1>5. CASE Show(f)
  <2>1. /\ f.run = revision /\ Answered(f)
        /\ p = [page |-> f.reply.page, pages |-> f.reply.pages, anchor |-> f.reply.anchor,
                live |-> f.live, loading |-> FALSE]
        /\ ids = f.reply.records /\ s = session /\ i = signedIn /\ run = revision /\ F = fetches \ {f}
    BY <1>1, <1>5 DEF Show, Current, Replied, Arrived, Answered
  <2>2. /\ p.page = f.reply.page /\ p.pages = f.reply.pages /\ p.anchor = f.reply.anchor
        /\ p.live = f.live /\ p.loading = FALSE
    BY <2>1
  <2>3. /\ PageOK(f.reply.page, f.reply.pages, f.reply.anchor)
        /\ RecordsOK(f.reply.records, f.reply.anchor) /\ f.live \in BOOLEAN
        /\ session /\ f.reply.anchor # None =>
             Fits(f.reply.anchor, f.reply.page, f.reply.records)
    BY <1>2, <2>1 DEF FetchOK
  <2>4. {p.live, p.loading} \subseteq BOOLEAN
    BY <2>2, <2>3
  <2>5. TableOK(s, p, ids)
    BY <2>1, <2>2, <2>3, <2>4 DEF TableOK
  <2>6. \A g \in F : g.run # run
    BY <1>2, <2>1
  <2>7. \A g \in F : FetchOK(g, run, s, p, ids)
    BY <1>2, <2>1, <2>6, FetchAside
  <2>8. {s, i} \subseteq BOOLEAN /\ (~i => p = NoPage) /\ \A g, h \in F : g.run = h.run => g = h
    BY <1>2, <1>3, <2>1
  <2>9. QED  BY <1>1, <2>5, <2>7, <2>8, Reassembled
<1>6. CASE Recover(f)
  <2>1. PICK new : new = Sent(1, TRUE, FALSE, None)
    OBVIOUS
  <2>2. /\ f.run = revision /\ p = [pager EXCEPT !.anchor = None] /\ run = revision + 1
        /\ F = (fetches \ {f}) \cup {new} /\ s = session /\ i = signedIn /\ ids = shown
    BY <1>1, <1>6, <2>1 DEF Recover, Current
  <2>3. TableOK(s, p, ids) /\ p.loading = pager.loading /\ p.anchor = None
    BY <1>2, <2>2, TableNewest
  <2>4. pager.loading
    BY <1>2, <2>2 DEF FetchOK
  <2>5. new.run = revision + 1
    BY <2>1, SentShape
  <2>6. FetchOK(new, run, s, p, ids)
    <3>1. 1 \in Nat \ {0} /\ TRUE \in BOOLEAN /\ None \in (1 .. added) \cup {None} /\ p.loading
      BY <2>3, <2>4
    <3>2. QED  BY <1>3, <2>1, <2>2, <3>1, SentOK
  <2>7. \A g \in fetches : g.run # run
    BY <1>3, <2>2
  <2>8. \A g \in fetches : FetchOK(g, run, s, p, ids)
    BY <1>2, <2>7, FetchAside
  <2>9. {s, i} \subseteq BOOLEAN /\ (~i => p = NoPage)
    BY <1>2, <1>3, <2>2
  <2>10. \A g, h \in F : g.run = h.run => g = h
    BY <1>2, <2>2, <2>5, <2>7
  <2>11. \A g \in F : FetchOK(g, run, s, p, ids)
    BY <2>2, <2>6, <2>8
  <2>12. QED  BY <1>1, <2>3, <2>9, <2>10, <2>11, Reassembled
<1>7. CASE KeepPage(f)
  <2>1. /\ f.run = revision /\ p = [pager EXCEPT !.loading = FALSE] /\ run = revision
        /\ F = fetches \ {f} /\ s = session /\ i = signedIn /\ ids = shown
    BY <1>1, <1>7 DEF KeepPage, Current, Arrived
  <2>2. TableOK(s, p, ids)
    BY <1>2, <2>1, TableLoading
  <2>3. \A g \in F : g.run # run
    BY <1>2, <2>1
  <2>4. \A g \in F : FetchOK(g, run, s, p, ids)
    BY <1>2, <2>1, <2>3, FetchAside
  <2>5. {s, i} \subseteq BOOLEAN /\ (~i => p = NoPage) /\ \A g, h \in F : g.run = h.run => g = h
    BY <1>2, <1>3, <2>1
  <2>6. QED  BY <1>1, <2>2, <2>4, <2>5, Reassembled
<1>8. CASE Discard(f)
  <2>1. /\ p = pager /\ run = revision /\ F = fetches \ {f} /\ s = session /\ i = signedIn
        /\ ids = shown
    BY <1>1, <1>8 DEF Discard, Arrived
  <2>2. \A g \in F : g \in fetches
    BY <2>1
  <2>3. /\ TableOK(s, p, ids) /\ {s, i} \subseteq BOOLEAN /\ (~i => p = NoPage)
        /\ \A g \in F : FetchOK(g, run, s, p, ids)
        /\ \A g, h \in F : g.run = h.run => g = h
    BY <1>2, <2>1, <2>2
  <2>4. QED  BY <1>1, <2>3, Reassembled
<1>9. QED  BY <1>4, <1>5, <1>6, <1>7, <1>8 DEF Arrive

(* A step of the pager or of the session. *)
LEMMA ConsoleKeeps ==
  ASSUME JournalInv, RingInv, PagerInv, Console, UNCHANGED journalVars
  PROVE  PagerInv'
<1>1. Superseded'
  BY ConsoleStep DEF PagerInv
<1>2. pager.page \in Nat /\ pager.pages \in Nat /\ pager.page > 0
  <2>1. RecentLimit \in Nat
    BY JournalAssumption
  <2>2. QED  BY <2>1 DEF PagerInv, TableOK, PageOK
<1>3. CASE Browse
  <2>1. PICK page \in Nat \ {0}, live \in BOOLEAN : Load(page, live)
    <3>1. CASE Poll \/ Latest
      <4>1. 1 \in Nat \ {0} /\ TRUE \in BOOLEAN
        OBVIOUS
      <4>2. Load(1, TRUE)
        BY <3>1 DEF Poll, Latest
      <4>3. QED  BY <4>1, <4>2
    <3>2. CASE NextPage
      <4>1. pager.page + 1 \in Nat \ {0} /\ FALSE \in BOOLEAN
        BY <1>2
      <4>2. Load(pager.page + 1, FALSE)
        BY <3>2 DEF NextPage
      <4>3. QED  BY <4>1, <4>2
    <3>3. CASE PreviousPage
      <4>1. pager.page - 1 \in Nat \ {0} /\ (pager.page = 2) \in BOOLEAN
        BY <1>2, <3>3 DEF PreviousPage
      <4>2. QED  BY <3>3, <4>1 DEF PreviousPage
    <3>4. CASE Go
      <4>1. PICK p \in 1 .. pager.pages : Load(p, p = 1)
        BY <3>4 DEF Go
      <4>2. p \in Nat \ {0} /\ (p = 1) \in BOOLEAN
        BY <1>2
      <4>3. QED  BY <4>1, <4>2
    <3>5. QED  BY <1>3, <3>1, <3>2, <3>3, <3>4 DEF Browse
  <2>2. QED  BY <1>1, <2>1, LoadKeeps
<1>4. CASE FetchStep
  BY <1>1, <1>4, ServeKeeps, ArriveKeeps DEF FetchStep
<1>5. CASE SignOut \/ Noticed
  <2>1. ShowLogin /\ session' = session /\ fetches' = fetches
    BY <1>5 DEF SignOut, Noticed
  <2>2. QED  BY <1>1, <2>1, LoginKeeps
<1> PICK s, i, p, ids, run, F :
      s = session' /\ i = signedIn' /\ p = pager' /\ ids = shown' /\ run = revision' /\ F = fetches'
  OBVIOUS
<1>6. CASE SignIn
  <2>1. ~signedIn /\ s \in {TRUE, session} /\ i = TRUE /\ p = pager /\ ids = shown
        /\ run = revision /\ F = fetches
    BY <1>6 DEF SignIn
  <2>2. pager = NoPage /\ shown = <<>> /\ \A f \in fetches : f.run # revision
    BY <2>1 DEF PagerInv, Superseded
  <2>3. /\ s \in {TRUE, session} /\ i = TRUE /\ p = NoPage /\ ids = <<>>
        /\ run = revision /\ F = fetches /\ \A f \in fetches : f.run # run
    BY <2>1, <2>2
  <2>4. TableOK(s, p, ids)
    BY <2>3, EmptyTable
  <2>5. \A f \in F : FetchOK(f, run, s, p, ids)
    BY <2>3, FetchAside DEF PagerInv
  <2>6. {s, i} \subseteq BOOLEAN /\ (~i => p = NoPage) /\ \A f, g \in F : f.run = g.run => f = g
    BY <2>3 DEF PagerInv
  <2>7. QED  BY <1>1, <2>4, <2>5, <2>6, Reassembled
<1>7. CASE SessionEnds
  <2>1. s = FALSE /\ i = signedIn /\ p = pager /\ ids = shown /\ run = revision /\ F = fetches
    BY <1>7 DEF SessionEnds
  <2>2. TableOK(s, p, ids)
    BY <2>1 DEF PagerInv, TableOK
  <2>3. \A f \in F : FetchOK(f, run, s, p, ids)
    BY <2>1 DEF PagerInv, FetchOK
  <2>4. {s, i} \subseteq BOOLEAN /\ (~i => p = NoPage) /\ \A f, g \in F : f.run = g.run => f = g
    <3>1. /\ {session, signedIn} \subseteq BOOLEAN /\ (~signedIn => pager = NoPage)
          /\ \A f, g \in fetches : f.run = g.run => f = g
      BY DEF PagerInv
    <3>2. FALSE \in BOOLEAN
      OBVIOUS
    <3>3. {s, i} \subseteq BOOLEAN
      BY <2>1, <3>1, <3>2
    <3>4. (~i => p = NoPage) /\ \A f, g \in F : f.run = g.run => f = g
      BY <2>1, <3>1
    <3>5. QED  BY <3>3, <3>4
  <2>5. QED  BY <1>1, <2>2, <2>3, <2>4, Reassembled
<1>8. QED  BY <1>3, <1>4, <1>5, <1>6, <1>7 DEF Console

(* What is known later is known already, or is newer than any page. *)
LEMMA FollowsStill ==
  ASSUME JournalInv, RingInv, JournalInv', [Next]_vars,
         NEW reply, NEW page, NEW ids \in Seq(1 .. added), ids # <<>>, Follows(reply, page, ids)
  PROVE  Follows(reply, page, ids)'
<1>1. ASSUME NEW e \in Known', Precedes(<<e>>, ids)
      PROVE  e \in Known
  <2>1. e \in Known \/ (e = added' /\ added' > added /\ added' \in Nat /\ added \in Nat)
    BY KnownStays, JournalAssumption DEF JournalInv, StateTypes
  <2>2. PICK S : S = 1 .. added
    OBVIOUS
  <2>3. 1 \in DOMAIN ids /\ ids[1] \in 1 .. added
    <3>1. ids \in Seq(S) /\ Len(ids) > 0
      BY <2>2
    <3>2. Len(ids) \in Nat /\ DOMAIN ids = 1 .. Len(ids) /\ \A k \in DOMAIN ids : ids[k] \in S
      BY <3>1, SequenceShape
    <3>3. 1 \in DOMAIN ids
      BY <3>1, <3>2
    <3>4. QED  BY <2>2, <3>2, <3>3
  <2>4. e < ids[1]
    <3>1. 1 \in DOMAIN <<e>> /\ <<e>>[1] = e
      OBVIOUS
    <3>2. QED  BY <1>1, <2>3, <3>1 DEF Precedes
  <2>5. QED  BY <2>1, <2>3, <2>4
<1>2. QED  BY <1>1 DEF Follows

(* A record is added beside the pager. *)
LEMMA AddedBeside ==
  ASSUME JournalInv, RingInv, JournalInv', RingInv', [Next]_vars, Add, NEW s, NEW p, NEW ids,
         TableOK(s, p, ids)
  PROVE  /\ TableOK(s, p, ids)'
         /\ \A f, run : FetchOK(f, run, s, p, ids) => FetchOK(f, run, s, p, ids)'
<1>1. PICK t, S, T : t = added' /\ S = 1 .. added /\ T = 1 .. t
  OBVIOUS
<1>2. added \in Nat /\ t = added + 1 /\ S \subseteq T
  BY <1>1, JournalAssumption DEF JournalInv, StateTypes, Add
<1>3. ASSUME NEW page, NEW pages, NEW anchor, PageOK(page, pages, anchor)
      PROVE  PageOK(page, pages, anchor)' /\ page \in Nat \ {0}
  <2>1. anchor \in T \cup {None}
    BY <1>1, <1>2, <1>3 DEF PageOK
  <2>2. RecentLimit \in Nat
    BY JournalAssumption
  <2>3. QED  BY <1>1, <1>3, <2>1, <2>2 DEF PageOK
<1>4. ASSUME NEW others, NEW anchor, RecordsOK(others, anchor)
      PROVE  RecordsOK(others, anchor)'
  <2>1. others \in Seq(S)
    BY <1>1, <1>4 DEF RecordsOK
  <2>2. others \in Seq(T)
    BY <1>2, <2>1, SeqMonotonic
  <2>3. QED  BY <1>1, <1>4, <2>2 DEF RecordsOK
<1>5. ASSUME NEW page, NEW pages, NEW anchor, NEW others, PageOK(page, pages, anchor),
             RecordsOK(others, anchor), anchor # None, Fits(anchor, page, others)
      PROVE  Fits(anchor, page, others)'
  <2>1. anchor \in 1 .. added /\ page \in Nat \ {0} /\ others \in Seq(1 .. added)
    BY <1>3, <1>5 DEF PageOK, RecordsOK
  <2>2. QED  BY <1>5, <2>1, FitsAdded
<1>6. TableOK(s, p, ids)'
  BY <1>3, <1>4, <1>5 DEF TableOK
<1>7. ASSUME NEW f, NEW run, FetchOK(f, run, s, p, ids)
      PROVE  FetchOK(f, run, s, p, ids)'
  <2>1. f.anchor \in (1 .. t) \cup {None}
    BY <1>1, <1>2, <1>7 DEF FetchOK
  <2>2. ASSUME Answered(f)
        PROVE  /\ PageOK(f.reply.page, f.reply.pages, f.reply.anchor)'
               /\ RecordsOK(f.reply.records, f.reply.anchor)'
    BY <1>3, <1>4, <1>7, <2>2 DEF FetchOK
  <2>3. ASSUME Answered(f), f.run = run, s, f.reply.anchor # None
        PROVE  Fits(f.reply.anchor, f.reply.page, f.reply.records)'
    BY <1>5, <1>7, <2>3 DEF FetchOK
  <2>4. ASSUME Answered(f), f.run = run, ~f.live, p.anchor # None
        PROVE  f.reply.anchor = p.anchor /\ Follows(f.reply, p.page, ids)'
    <3>1. f.reply.anchor = p.anchor /\ Follows(f.reply, p.page, ids)
      BY <1>7, <2>4 DEF FetchOK
    <3>2. ids \in Seq(1 .. added) /\ ids # <<>>
      BY <2>4 DEF TableOK, RecordsOK
    <3>3. Follows(f.reply, p.page, ids)'
      BY <3>1, <3>2, FollowsStill
    <3>4. QED  BY <3>1, <3>3
  <2>5. Answered(f)' = Answered(f)
    BY DEF Answered
  <2>6. QED  BY <1>1, <1>7, <2>1, <2>2, <2>3, <2>4, <2>5 DEF FetchOK
<1>8. QED  BY <1>6, <1>7

(* The pager's invariant, beside the journal's and the ring's. *)
LEMMA PagerKeeps ==
  ASSUME JournalInv, RingInv, PagerInv, JournalInv', RingInv', [Next]_vars
  PROVE  PagerInv'
<1>1. CASE Console /\ UNCHANGED journalVars
  BY <1>1, ConsoleKeeps
<1> PICK s, i, p, ids, run, F :
      s = session' /\ i = signedIn' /\ p = pager' /\ ids = shown' /\ run = revision' /\ F = fetches'
  OBVIOUS
<1>2. CASE /\ UNCHANGED <<signedIn, pager, shown, revision, fetches>> /\ session' \in {session, FALSE}
          /\ ~(Console /\ UNCHANGED journalVars)
  <2>1. Superseded' /\ NoPage' = NoPage
    BY <1>2 DEF PagerInv, Superseded, NoPage
  <2>2. i = signedIn /\ p = pager /\ ids = shown /\ run = revision /\ F = fetches
    BY <1>2
  <2>3. /\ {session', signedIn'} \subseteq BOOLEAN /\ (~signedIn' => pager' = NoPage)
        /\ \A f, g \in fetches' : f.run = g.run => f = g
    <3>1. /\ {session, signedIn} \subseteq BOOLEAN /\ (~signedIn => pager = NoPage)
          /\ \A f, g \in fetches : f.run = g.run => f = g
      BY DEF PagerInv
    <3>2. session' \in BOOLEAN /\ signedIn' = signedIn
      BY <1>2, <3>1
    <3>3. QED  BY <1>2, <3>1, <3>2
  <2>4. SUFFICES TableOK(s, p, ids)' /\ \A f \in F : FetchOK(f, run, s, p, ids)'
    BY <2>1, <2>3 DEF PagerInv
  <2>5. TableOK(session, p, ids) /\ \A f \in F : FetchOK(f, run, session, p, ids)
    BY <2>2 DEF PagerInv
  <2>6. CASE UNCHANGED journalVars /\ session' = session
    <3>1. s = session
      BY <2>6
    <3>2. QED  BY <2>5, <2>6, <3>1, RingStill
  <2>7. CASE Add /\ session' = session
    <3>1. s = session
      BY <2>7
    <3>2. TableOK(s, p, ids) /\ \A f \in F : FetchOK(f, run, s, p, ids)
      BY <2>5, <3>1
    <3>3. QED  BY <2>7, <3>2, AddedBeside
  <2>8. CASE recent' = recent /\ added' = added /\ session' = session /\ ~Add
    <3>1. s = session
      BY <2>8
    <3>2. TableOK(s, p, ids) /\ \A f \in F : FetchOK(f, run, s, p, ids)
      BY <2>5, <3>1
    <3>3. \A reply, page, others : Follows(reply, page, others) => Follows(reply, page, others)'
      <4>1. \A e \in Known' : e \in Known
        BY <2>8, KnownStays
      <4>2. QED  BY <4>1 DEF Follows
    <3>4. TableOK(s, p, ids)'
      BY <2>8, <3>2 DEF TableOK, PageOK, RecordsOK, Fits
    <3>5. ASSUME NEW f \in F PROVE FetchOK(f, run, s, p, ids)'
      BY <2>8, <3>2, <3>3 DEF FetchOK, PageOK, RecordsOK, Fits, Answered
    <3>6. QED  BY <3>4, <3>5
  <2>9. CASE RestartJournal /\ session' = FALSE
    <3>1. ~s /\ added' = added
      BY <2>9 DEF RestartJournal
    <3>2. TableOK(s, p, ids)'
      BY <2>5, <3>1 DEF TableOK, PageOK, RecordsOK
    <3>3. ASSUME NEW f \in F PROVE FetchOK(f, run, s, p, ids)'
      <4>1. FetchOK(f, run, session, p, ids)
        BY <2>5
      <4>2. ASSUME f.run = run, Answered(f), ~f.live, p.anchor # None
            PROVE  f.reply.anchor = p.anchor /\ Follows(f.reply, p.page, ids)'
        <5>1. f.reply.anchor = p.anchor /\ Follows(f.reply, p.page, ids)
          BY <4>1, <4>2 DEF FetchOK
        <5>2. ids \in Seq(1 .. added) /\ ids # <<>>
          BY <2>5, <4>2 DEF TableOK, RecordsOK
        <5>3. Follows(f.reply, p.page, ids)'
          BY <5>1, <5>2, FollowsStill
        <5>4. QED  BY <5>1, <5>3
      <4>3. QED  BY <3>1, <4>1, <4>2 DEF FetchOK, PageOK, RecordsOK, Answered
    <3>4. QED  BY <3>2, <3>3
  <2>10. \/ UNCHANGED journalVars /\ session' = session
         \/ Add /\ session' = session
         \/ recent' = recent /\ added' = added /\ session' = session /\ ~Add
         \/ RestartJournal /\ session' = FALSE
    BY <1>2 DEF Next, Write, Restart, RemoveOldest, Shift, AppendLine, Fail, vars, pagerVars
  <2>11. QED  BY <2>6, <2>7, <2>8, <2>9, <2>10
<1>3. QED  BY <1>1, <1>2 DEF Next, Restart, vars, pagerVars

(* Together they hold throughout. *)
LEMMA PagerHolds == Spec => [](JournalInv /\ RingInv /\ PagerInv)
<1>1. Init => RingInv /\ PagerInv
  <2> SUFFICES ASSUME Init PROVE RingInv /\ PagerInv
    OBVIOUS
  <2>1. recent = <<>> /\ added = 0
    BY DEF Init, JournalInit
  <2>2. RingInv
    <3>1. <<>> \in Seq(1 .. added) /\ Len(<<>>) <= RecentLimit /\ Rising(<<>>)
      BY JournalAssumption DEF Rising
    <3>2. QED  BY <2>1, <3>1 DEF RingInv
  <2>3. session = FALSE /\ signedIn = FALSE /\ pager = NoPage /\ shown = <<>>
        /\ revision = 0 /\ fetches = {}
    BY DEF Init, PagerInit
  <2>4. TableOK(session, pager, shown)
    BY <2>3, EmptyTable
  <2>5. Superseded /\ {session, signedIn} \subseteq BOOLEAN
    BY <2>3 DEF Superseded
  <2>6. QED  BY <2>2, <2>3, <2>4, <2>5 DEF PagerInv
<1>2. RingInv /\ PagerInv /\ JournalInv /\ JournalInv' /\ [Next]_vars => (RingInv /\ PagerInv)'
  <2> SUFFICES ASSUME RingInv, PagerInv, JournalInv, JournalInv', [Next]_vars
               PROVE  RingInv' /\ PagerInv'
    OBVIOUS
  <2>1. RingInv'
    BY RingKeeps
  <2>2. QED  BY <2>1, PagerKeeps
<1>3. QED  BY <1>1, <1>2, JournalHolds, PTL DEF Spec

(* The pager's and the journal's types (records-page.mjs page numbers,     *)
(* records.js state, journal.mjs fields).                                  *)
THEOREM TypesHold == Spec => []TypeOK
<1>1. JournalInv /\ RingInv /\ PagerInv => TypeOK
  <2> SUFFICES ASSUME JournalInv, RingInv, PagerInv PROVE TypeOK
    OBVIOUS
  <2>1. added \in 0 .. MaxEvents /\ MaxEvents \in Nat /\ Len(queue) \in Nat
    BY JournalAssumption DEF JournalInv, StateTypes, QueueTypes
  <2>2. bytes \in 0 .. MaxEvents /\ dropped \in 0 .. MaxEvents
    BY <2>1 DEF JournalInv, Counts
  <2>3. JournalTypeOK
    BY <2>2 DEF JournalTypeOK, JournalInv, StateTypes, QueueTypes, FileTypes, Record, RingInv
  <2>4. TableOK(session, pager, shown) /\ {session, signedIn} \subseteq BOOLEAN
    BY DEF PagerInv
  <2>5. {session, signedIn, pager.live, pager.loading} \subseteq BOOLEAN
    BY <2>4 DEF TableOK
  <2>6. \A f \in fetches : f.run \in 1 .. revision
    <3>1. revision \in Nat
      BY DEF PagerInv, Superseded
    <3>2. \A f \in fetches : f.run \in Nat \ {0} /\ f.run <= revision
      BY DEF PagerInv, Superseded, FetchOK
    <3>3. QED  BY <3>1, <3>2
  <2>7. QED
    BY <2>3, <2>4, <2>5, <2>6 DEF TypeOK, TableOK, PageOK, RecordsOK, PagerInv, Superseded
<1>2. QED  BY <1>1, PagerHolds, PTL

(* Turning to another page of the history shows what was there before the  *)
(* newer records came, with none repeated and, on the next page, none left *)
(* out that is retained (records-page.mjs anchor, records.js load).        *)
THEOREM HistoryStays == Spec => HistoryStaysPut
<1> DEFINE Turned ==
      (pager.anchor # None /\ ~pager'.live /\ ~pager'.loading) =>
         /\ pager'.anchor = pager.anchor
         /\ pager'.page = pager.page => IsPrefix(shown', shown)
         /\ pager'.page > pager.page => Precedes(shown', shown)
         /\ pager'.page < pager.page => Precedes(shown, shown')
         /\ pager'.page = pager.page + 1 =>
              \A e \in ToSet(recent) : ~(Precedes(shown', <<e>>) /\ Precedes(<<e>>, shown))
<1>1. ASSUME JournalInv, RingInv, PagerInv, [Next]_vars
      PROVE  Turned
  <2> PICK s, i, p, ids, run, F :
        s = session' /\ i = signedIn' /\ p = pager' /\ ids = shown' /\ run = revision' /\ F = fetches'
    OBVIOUS
  <2>1. TableOK(session, pager, shown) /\ \A f \in fetches : FetchOK(f, revision, session, pager, shown)
    BY <1>1 DEF PagerInv
  <2>2. pager.page \in Nat
    <3>1. RecentLimit \in Nat
      BY JournalAssumption
    <3>2. QED  BY <2>1, <3>1 DEF TableOK, PageOK
  <2>3. CASE p.page = pager.page /\ p.anchor = pager.anchor /\ ids = shown
    <3>1. IsPrefix(shown, shown)
      <4>1. Len(shown) \in Nat
        BY <2>1, SequenceShape DEF TableOK, RecordsOK
      <4>2. QED  BY <4>1 DEF IsPrefix
    <3>2. /\ ~(p.page > pager.page) /\ ~(p.page < pager.page)
          /\ p.page # pager.page + 1
      BY <2>2, <2>3
    <3>3. QED  BY <2>3, <3>1, <3>2
  <2>4. CASE p.loading \/ p.live
    BY <2>4
  <2>5. CASE \E f \in fetches : Show(f)
    <3>1. PICK f \in fetches : Show(f)
      BY <2>5
    <3>2. /\ p = [page |-> f.reply.page, pages |-> f.reply.pages, anchor |-> f.reply.anchor,
                  live |-> f.live, loading |-> FALSE]
          /\ ids = f.reply.records /\ f.run = revision /\ Answered(f)
      BY <3>1 DEF Show, Current, Replied, Answered
    <3>3. p.page = f.reply.page /\ p.anchor = f.reply.anchor /\ p.live = f.live
      BY <3>2
    <3>4. SUFFICES ASSUME pager.anchor # None, ~f.live PROVE Turned
      BY <3>3
    <3>5. f.reply.anchor = pager.anchor /\ Follows(f.reply, pager.page, shown)
      BY <2>1, <3>2, <3>4 DEF FetchOK
    <3>6. \A e \in ToSet(recent) : e \in Known
      BY DEF Known
    <3>7. QED  BY <3>2, <3>3, <3>5, <3>6 DEF Follows
  <2>6. \/ p.page = pager.page /\ p.anchor = pager.anchor /\ ids = shown
        \/ p.loading \/ p.live
        \/ \E f \in fetches : Show(f)
    <3>1. CASE UNCHANGED <<pager, shown>>
      BY <3>1
    <3>2. ASSUME NEW page, NEW live, Load(page, live) PROVE p.loading
      <4>1. p = [pager EXCEPT !.loading = TRUE]
        BY <3>2 DEF Load
      <4>2. PICK yes : yes = TRUE
        OBVIOUS
      <4>3. p.loading = yes
        BY <2>1, <4>1, <4>2, TableLoading
      <4>4. QED  BY <4>2, <4>3
    <3>3. CASE ShowLogin
      BY <3>3 DEF ShowLogin, Reset, NoPage
    <3>4. ASSUME NEW f \in fetches, Recover(f) PROVE p.loading
      <4>1. p = [pager EXCEPT !.anchor = None] /\ f.run = revision
        BY <3>4 DEF Recover, Current
      <4>2. pager.loading /\ p.loading = pager.loading
        BY <2>1, <4>1, TableNewest DEF FetchOK
      <4>3. QED  BY <4>2
    <3>5. ASSUME NEW f \in fetches, KeepPage(f)
          PROVE  p.page = pager.page /\ p.anchor = pager.anchor /\ ids = shown
      <4>1. p = [pager EXCEPT !.loading = FALSE] /\ ids = shown
        BY <3>5 DEF KeepPage
      <4>2. PICK no : no = FALSE
        OBVIOUS
      <4>3. p.page = pager.page /\ p.anchor = pager.anchor
        BY <2>1, <4>1, <4>2, TableLoading
      <4>4. QED  BY <4>1, <4>3
    <3>6. CASE Console
      <4>1. CASE Browse
        BY <3>2, <4>1 DEF Browse, Poll, Latest, NextPage, PreviousPage, Go
      <4>2. CASE FetchStep
        <5>1. PICK f \in fetches : Serve(f) \/ Arrive(f)
          BY <4>2 DEF FetchStep
        <5>2. CASE Serve(f) \/ Discard(f)
          BY <3>1, <5>2 DEF Serve, Discard
        <5>3. CASE Denied(f)
          BY <3>3, <5>3 DEF Denied
        <5>4. CASE Show(f) \/ Recover(f) \/ KeepPage(f)
          BY <3>4, <3>5, <5>4
        <5>5. QED  BY <5>1, <5>2, <5>3, <5>4 DEF Arrive
      <4>3. CASE SignOut \/ Noticed
        BY <3>3, <4>3 DEF SignOut, Noticed
      <4>4. CASE SignIn \/ SessionEnds
        BY <3>1, <4>4 DEF SignIn, SessionEnds
      <4>5. QED  BY <3>6, <4>1, <4>2, <4>3, <4>4 DEF Console
    <3>7. QED  BY <1>1, <3>1, <3>6 DEF Next, Restart, vars, pagerVars
  <2>7. QED  BY <2>3, <2>4, <2>5, <2>6
<1>2. JournalInv /\ RingInv /\ PagerInv /\ [Next]_vars => [Turned]_vars
  BY <1>1
<1> HIDE DEF Turned
<1>3. Spec => [][Turned]_vars
  BY <1>2, PagerHolds, PTL DEF Spec
<1>4. QED  BY <1>3 DEF HistoryStaysPut, Turned
=============================================================================
