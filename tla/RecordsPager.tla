---------------------------- MODULE RecordsPager ----------------------------
(***************************************************************************)
(* Browsing the event log: the page operator of lib/records-page.mjs, the  *)
(* GET /api/records handler of lib/server.mjs, and the console's pager,    *)
(* public/records.js, over the ring of Journal.                            *)
(*                                                                         *)
(* The console asks for pages by fetches that are answered by the server   *)
(* at one time and arrive at another, while records are added, the         *)
(* process is restarted and the administrator signs out and in.            *)
(***************************************************************************)
EXTENDS Journal

CONSTANTS
  PageSize,   \* records per page
  MaxLoads    \* bound: fetches sent at a click or by the poll

ASSUME PagerAssumption == PageSize \in Nat \ {0} /\ MaxLoads \in Nat

VARIABLES
  session,    \* the server knows the console's session
  signedIn,   \* the console believes so (app.js: authenticated)
  pager,      \* the pager's state
  shown,      \* the records in the table
  revision,   \* the pager's revision
  fetches     \* fetches under way, each with its reply or None

pagerVars == <<session, signedIn, pager, shown, revision, fetches>>
vars == <<journalVars, pagerVars>>

-----------------------------------------------------------------------------
(* recordsPage *)

Pages(total) == IF total = 0 THEN 1 ELSE (total + PageSize - 1) \div PageSize

(* Mutant of Upto: the anchor is checked but not used. *)
UptoNewest(anchor) == recent

(* The records a page is cut from: all, or those up to the anchor.         *)
Upto(anchor) ==
  IF anchor = None THEN recent ELSE SubSeq(recent, 1, SelectInSeq(recent, LAMBDA e : e = anchor))

Page(asked, anchor) ==
  LET matching == Reverse(Upto(anchor))
      page == IF asked <= Pages(Len(matching)) THEN asked ELSE Pages(Len(matching))
      start == (page - 1) * PageSize
      last == IF start + PageSize <= Len(matching) THEN start + PageSize ELSE Len(matching)
  IN  [status |-> 200, records |-> SubSeq(matching, start + 1, last), page |-> page,
       pages |-> Pages(Len(matching)),
       anchor |-> IF matching = <<>> THEN None ELSE Head(matching)]

Expired(anchor) == anchor # None /\ anchor \notin ToSet(recent)

(* What GET /api/records answers.                                          *)
Answer(f) ==
  IF ~session THEN [status |-> 401]
  ELSE IF Expired(f.anchor) THEN [status |-> 409]
  ELSE Page(f.page, f.anchor)

-----------------------------------------------------------------------------
(* The pager *)

NoPage == [page |-> 1, pages |-> 1, anchor |-> None, live |-> TRUE, loading |-> FALSE]

PagerInit ==
  /\ session = FALSE /\ signedIn = FALSE
  /\ pager = NoPage /\ shown = <<>> /\ revision = 0 /\ fetches = {}

(* load(page, live, allowRecovery), with the anchor in state then.         *)
Sent(page, live, recovery, anchor) ==
  [run |-> revision + 1, page |-> page, live |-> live, recovery |-> recovery,
   anchor |-> IF live THEN None ELSE anchor, reply |-> None]

(* A click, or the poll every three seconds.  The buttons, and load        *)
(* itself, do nothing while a fetch is under way.                          *)
Load(page, live) ==
  /\ signedIn /\ ~pager.loading /\ revision < MaxLoads
  /\ revision' = revision + 1
  /\ fetches' = fetches \cup {Sent(page, live, TRUE, pager.anchor)}
  /\ pager' = [pager EXCEPT !.loading = TRUE]
  /\ UNCHANGED <<session, signedIn, shown>>

Poll == pager.live /\ Load(1, TRUE)
Latest == Load(1, TRUE)
NextPage == pager.page < pager.pages /\ Load(pager.page + 1, FALSE)
PreviousPage == pager.page > 1 /\ Load(pager.page - 1, pager.page = 2)
Go == \E p \in 1 .. pager.pages : Load(p, p = 1)

Browse == Poll \/ Latest \/ NextPage \/ PreviousPage \/ Go

Serve(f) ==
  /\ f \in fetches /\ f.reply = None
  /\ fetches' = (fetches \ {f}) \cup {[f EXCEPT !.reply = Answer(f)]}
  /\ UNCHANGED <<session, signedIn, pager, shown, revision>>

(* Mutant of Reset: a load under way still counts as under way. *)
ResetWhileLoading ==
  /\ revision' = revision + 1
  /\ pager' = [NoPage EXCEPT !.loading = pager.loading] /\ shown' = <<>>

Reset == revision' = revision + 1 /\ pager' = NoPage /\ shown' = <<>>

(* showLogin, on any 401 and after signing out.                            *)
ShowLogin == signedIn' = FALSE /\ Reset

(* Mutant of Current: whatever arrives is shown. *)
CurrentAlways(f) == TRUE

Current(f) == f.run = revision

Arrived(f) == fetches' = fetches \ {f} /\ UNCHANGED <<session, signedIn>>

Replied(f, status) == f.reply # None /\ f.reply.status = status

Show(f) ==
  /\ Current(f) /\ Replied(f, 200)
  /\ pager' = [page |-> f.reply.page, pages |-> f.reply.pages, anchor |-> f.reply.anchor,
               live |-> f.live, loading |-> FALSE]
  /\ shown' = f.reply.records
  /\ Arrived(f) /\ UNCHANGED revision

(* A history that is gone: back to the newest page, once.                  *)
Recover(f) ==
  /\ Current(f) /\ Replied(f, 409) /\ f.recovery
  /\ pager' = [pager EXCEPT !.anchor = None]
  /\ revision' = revision + 1
  /\ fetches' = (fetches \ {f}) \cup {Sent(1, TRUE, FALSE, None)}
  /\ UNCHANGED <<session, signedIn, shown>>

(* Another error, a broken connection: the page stays as it was.           *)
KeepPage(f) ==
  /\ Current(f)
  /\ pager' = [pager EXCEPT !.loading = FALSE]
  /\ Arrived(f) /\ UNCHANGED <<shown, revision>>

(* A reply, or an error, to a fetch that has been superseded.              *)
Discard(f) == ~Current(f) /\ Arrived(f) /\ UNCHANGED <<pager, shown, revision>>

(* Every 401 signs the console out, even a late one (app.js: api).         *)
Denied(f) ==
  /\ Replied(f, 401)
  /\ ShowLogin
  /\ fetches' = fetches \ {f} /\ UNCHANGED session

Arrive(f) == Denied(f) \/ Show(f) \/ Recover(f) \/ KeepPage(f) \/ Discard(f)

(* The console's other requests find the session gone.                     *)
Noticed == signedIn /\ ~session /\ ShowLogin /\ UNCHANGED <<session, fetches>>

(* A login; or a status reply, which opens the console again, though it    *)
(* may be a late one of a session that is gone (app.js: refresh).  Left    *)
(* out: a login in another tab, by the cookie they share, before this one  *)
(* has noticed that its session was gone.                                  *)
SignIn ==
  /\ ~signedIn /\ revision < MaxLoads
  /\ session' \in {TRUE, session} /\ signedIn' = TRUE
  /\ UNCHANGED <<pager, shown, revision, fetches>>

(* The console's logout, whether or not the server hears of it.            *)
SignOut == signedIn /\ revision < MaxLoads /\ ShowLogin /\ UNCHANGED <<session, fetches>>

(* It has heard of it, or the session's eight hours are over.              *)
SessionEnds ==
  /\ session /\ session' = FALSE
  /\ UNCHANGED <<signedIn, pager, shown, revision, fetches>>

(* Sessions are kept in memory only.                                       *)
Restart ==
  /\ RestartJournal
  /\ session' = FALSE
  /\ UNCHANGED <<signedIn, pager, shown, revision, fetches>>

FetchStep == \E f \in fetches : Serve(f) \/ Arrive(f)

Console == Browse \/ FetchStep \/ SignIn \/ SignOut \/ SessionEnds \/ Noticed

Next ==
  \/ (Add \/ Write) /\ UNCHANGED pagerVars
  \/ Console /\ UNCHANGED journalVars
  \/ Restart

Init == JournalInit /\ PagerInit

Spec == Init /\ [][Next]_vars

(* Every fetch is answered or fails in the end.                            *)
FairSpec == Spec /\ WF_vars(FetchStep /\ UNCHANGED journalVars)

-----------------------------------------------------------------------------
(* Properties *)

TypeOK ==
  /\ JournalTypeOK
  /\ {session, signedIn, pager.live, pager.loading} \subseteq BOOLEAN
  /\ pager.anchor \in (1 .. added) \cup {None}
  /\ pager.page \in 1 .. pager.pages /\ pager.pages \in 1 .. RecentLimit
  /\ shown \in Seq(1 .. added) /\ Len(shown) <= PageSize
  /\ revision \in Nat
  /\ \A f \in fetches : f.run \in 1 .. revision

(* Turning to an older page, while records come and go, keeps the anchor:  *)
(* a page read again shows what it showed, less what the ring has dropped; *)
(* another one repeats no record of it and follows in order; the page      *)
(* after it skips nothing that is still retained (README, 0.6.1: the       *)
(* newest records do not change an anchored page).                         *)
HistoryStaysPut ==
  [][(pager.anchor # None /\ ~pager'.live /\ ~pager'.loading) =>
       /\ pager'.anchor = pager.anchor
       /\ pager'.page = pager.page => IsPrefix(shown', shown)
       /\ pager'.page > pager.page => Precedes(shown', shown)
       /\ pager'.page < pager.page => Precedes(shown, shown')
       /\ pager'.page = pager.page + 1 =>
            \A e \in ToSet(recent) : ~(Precedes(shown', <<e>>) /\ Precedes(<<e>>, shown))]_vars

(* Signing out empties the table for good: no reply to a fetch sent before *)
(* fills it again ("logout invalidates pending page responses",            *)
(* CHANGELOG 0.6.1).                                                       *)
NothingShownSignedOut == ~signedIn => shown = <<>>

(* The table never stays busy, whichever replies arrive late or are lost.  *)
LoadsEnd == pager.loading ~> ~pager.loading
=============================================================================
