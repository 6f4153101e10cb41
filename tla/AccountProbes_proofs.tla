------------------------ MODULE AccountProbes_proofs ------------------------
(***************************************************************************)
(* Two arguments about probes, for any lifetimes of tokens, exports,       *)
(* exporter's runs and probes, and any interleaving.                       *)
(*                                                                         *)
(* Credentials: a probe that has not sent its request is within its        *)
(* deadline, or its timer has fired and it will not send one.  So what was *)
(* true of the credentials when it started is, a deadline later, still     *)
(* good enough.                                                            *)
(*                                                                         *)
(* The exchange: each stage has its own set of things held, a probe that   *)
(* was cut off while it waited always has news, and a result is final.     *)
(***************************************************************************)
EXTENDS AccountProbes, TLAPS

Unsent == {"lookup", "opened"} \cup Tunnelling

(* An export is no older than the run that wrote it may have been.         *)
ExportInv ==
  /\ now \in Nat
  /\ run # NoAccount =>
       /\ run.seen \in Nat /\ run.seen <= now /\ now <= run.seen + RunLimit
       /\ run.expires # NoAccount => run.expires \in Nat
  /\ exported # NoAccount =>
       /\ {exported.at, exported.seen, exported.expires} \subseteq Nat
       /\ exported.seen <= exported.at /\ exported.at <= now
       /\ exported.at <= exported.seen + RunLimit

(* A running timer is within its deadline, and it runs, or has fired, as   *)
(* long as the request has not been sent.                                  *)
TimerInv ==
  /\ began \in Nat
  /\ "timer" \in held => stage # "over" /\ now <= began + Deadline
  /\ stage \in Unsent /\ ~timedOut => "timer" \in held

(* What Usable said of the credentials when the probe was started. *)
CredentialsInv ==
  using # NoAccount =>
    /\ {using.seen, using.expires} \subseteq Nat
    /\ using.expires > began + Margin
    /\ began <= using.seen + RunLimit + MaxAge

Inv == ExportInv /\ TimerInv /\ CredentialsInv

(* The exporter's steps. *)
LEMMA ExportKeeps == Inv /\ Export => Inv'
<1> SUFFICES ASSUME Inv, Export PROVE Inv'
  OBVIOUS
<1> USE AuthAssumption DEF Inv, ExportInv
<1>1. UNCHANGED <<now, stage, timedOut, held, using, began>>
  BY DEF Export, exchangeVars, Query, Publish, RunFails
<1>2. TimerInv' /\ CredentialsInv'
  BY <1>1 DEF TimerInv, CredentialsInv
<1>3. CASE Query
  BY <1>2, <1>3 DEF Query
<1>4. CASE Publish
  BY <1>2, <1>4 DEF Publish
<1>5. CASE RunFails
  BY <1>2, <1>5 DEF RunFails
<1>6. QED  BY <1>3, <1>4, <1>5 DEF Export

(* The clock waits for a timer that is due, and for the end of a run.      *)
LEMMA TickKeeps == Inv /\ Tick => Inv'
<1> SUFFICES ASSUME Inv, Tick PROVE Inv'
  OBVIOUS
<1> USE AuthAssumption, ProbesAssumption DEF Inv, Tick, exchangeVars
<1>1. ExportInv'
  BY DEF ExportInv, RunInTime
<1>2. TimerInv'
  BY DEF ExportInv, TimerInv
<1>3. CredentialsInv'
  BY DEF CredentialsInv
<1>4. QED  BY <1>1, <1>2, <1>3

(* A probe starts with credentials that are usable now. *)
LEMMA ProbeKeeps == ASSUME Inv, NEW r, Probe(r) PROVE Inv'
<1> USE AuthAssumption, ProbesAssumption DEF Inv, Probe, authVars
<1>1. ExportInv'
  BY DEF ExportInv
<1>2. TimerInv'
  BY DEF ExportInv, TimerInv, Start
<1>3. CredentialsInv'
  BY DEF ExportInv, CredentialsInv, Usable
<1>4. QED  BY <1>1, <1>2, <1>3

(* What a step of the exchange does to the timer. *)
LEMMA ExchangeTimer ==
  ASSUME TimerInv, Exchange
  PROVE  /\ "timer" \in held' => "timer" \in held /\ stage' # "over"
         /\ stage' \in Unsent /\ ~timedOut' => "timer" \in held'
<1> USE DEF TimerInv, Unsent, Tunnelling
<1>1. CASE NextJob
  BY <1>1 DEF NextJob
<1>2. CASE JobAborts
  BY <1>2 DEF JobAborts, Interrupt, Finish
<1>3. CASE TimerFires
  BY <1>3 DEF TimerFires, Interrupt, Finish
<1>4. CASE LookupAnswers \/ PeerAnswers
  BY <1>4 DEF LookupAnswers, PeerAnswers
<1>5. CASE TunnelGoesOn \/ TunnelOpens
  BY <1>5 DEF TunnelGoesOn, TunnelOpens, Throw
<1>6. CASE SendRequest
  BY <1>6 DEF SendRequest, Finish
<1>7. CASE Return
  BY <1>7 DEF Return
<1>8. CASE ResponseBegins
  BY <1>8 DEF ResponseBegins, Finish
<1>9. ASSUME NEW atEnd, ResponseReads(atEnd)
      PROVE  /\ "timer" \in held' => "timer" \in held /\ stage' # "over"
             /\ stage' \in Unsent /\ ~timedOut' => "timer" \in held'
  BY <1>9 DEF ResponseReads, Finish
<1>10. CASE ResponseBreaks
  BY <1>10 DEF ResponseBreaks, Finish
<1>11. QED
  BY <1>1, <1>2, <1>3, <1>4, <1>5, <1>6, <1>7, <1>8, <1>9, <1>10 DEF Exchange, Continuation

(* Steps of a probe. *)
LEMMA ProbeStepKeeps == Inv /\ ProbeStep => Inv'
<1> SUFFICES ASSUME Inv, ProbeStep PROVE Inv'
  OBVIOUS
<1> USE DEF Inv, ProbeStep, Kept, authVars
<1>1. ExportInv'
  BY DEF ExportInv
<1>2. TimerInv'
  BY ExchangeTimer DEF TimerInv
<1>3. CredentialsInv'
  BY DEF CredentialsInv
<1>4. QED  BY <1>1, <1>2, <1>3

(* The inductive invariant holds throughout. *)
LEMMA InvHolds == Spec => []Inv
<1> USE AuthAssumption, ProbesAssumption
<1>1. Init => Inv
  BY DEF Init, AuthInit, ExchangeInit, Inv, ExportInv, TimerInv, CredentialsInv, Unsent, Tunnelling
<1>2. Inv /\ [Next]_vars => Inv'
  <2>1. Inv /\ UNCHANGED vars => Inv'
    BY DEF vars, authVars, exchangeVars, Inv, ExportInv, TimerInv, CredentialsInv
  <2>2. QED
    BY <2>1, ExportKeeps, TickKeeps, ProbeKeeps, ProbeStepKeeps DEF Next
<1>3. QED  BY <1>1, <1>2, PTL DEF Spec

(* Requests are sent by SendRequest, within the deadline. *)
LEMMA SentWithin ==
  ASSUME Inv, Next, stage # "exchange", stage' = "exchange", using' # NoAccount
  PROVE  /\ stage = "opened" /\ ~timedOut
         /\ using' = using
<1>1. ASSUME NEW r, Probe(r) PROVE FALSE
  BY <1>1 DEF Probe, Start
<1>2. ASSUME Export \/ Tick PROVE FALSE
  BY <1>2 DEF Export, Tick, exchangeVars
<1>3. ProbeStep
  BY <1>1, <1>2 DEF Next
<1>4. using' = using
  BY <1>3 DEF ProbeStep, Kept
<1>5. ASSUME ~SendRequest PROVE FALSE
  <2> USE DEF Interrupt, Finish, Throw
  <2>1. ~(NextJob \/ JobAborts \/ TimerFires)
    BY DEF NextJob, JobAborts, TimerFires
  <2>2. ~(LookupAnswers \/ PeerAnswers \/ TunnelGoesOn \/ TunnelOpens \/ Return)
    BY DEF LookupAnswers, PeerAnswers, TunnelGoesOn, TunnelOpens, Return
  <2>3. ~(ResponseBegins \/ ResponseBreaks \/ \E atEnd \in BOOLEAN : ResponseReads(atEnd))
    BY DEF ResponseBegins, ResponseBreaks, ResponseReads
  <2>4. QED  BY <1>3, <1>5, <2>1, <2>2, <2>3 DEF ProbeStep, Exchange, Continuation
<1>6. stage = "opened" /\ ~timedOut
  BY <1>5 DEF SendRequest, Finish, Cut
<1>7. QED  BY <1>4, <1>6

(* "No stale credential will be used" (sync-sub2api-auth.py:173): whatever *)
(* the exporter does meanwhile, a request leaves with a token that has not *)
(* expired and was the account's no longer ago than a run, the age of an   *)
(* export and a probe may last together.                                   *)
THEOREM CredentialsStayFresh == Spec => CredentialsFresh
<1> DEFINE Fresh ==
      stage # "exchange" /\ stage' = "exchange" /\ using' # NoAccount
      => using'.expires > now /\ now - using'.seen <= RunLimit + MaxAge + Deadline
<1>1. Inv /\ [Next]_vars => [Fresh]_vars
  <2> SUFFICES ASSUME Inv, Next, stage # "exchange", stage' = "exchange", using' # NoAccount
               PROVE  using'.expires > now /\ now - using'.seen <= RunLimit + MaxAge + Deadline
    BY DEF vars
  <2>1. stage = "opened" /\ ~timedOut /\ using' = using
    BY SentWithin
  <2>2. now <= began + Deadline
    BY <2>1 DEF Inv, TimerInv, Unsent
  <2>3. QED
    BY <2>1, <2>2, AuthAssumption, ProbesAssumption DEF Inv, ExportInv, TimerInv, CredentialsInv
<1>2. QED  BY <1>1, InvHolds, PTL DEF Spec, CredentialsFresh

-----------------------------------------------------------------------------
(* The exchange itself *)

(* What a probe holds at each stage. *)
HeldInv ==
  /\ route = "local" => stage \in {"exchange", "over"}
  /\ stage = "over" => held = {}
  /\ stage \in {"lookup"} \cup Tunnelling => "tunnel" \in held
  /\ stage \in {"opened", "exchange"} => "tunnel" \notin held
  /\ "exchange" \in held <=> stage = "exchange" /\ route # "local"
  /\ "reader" \in held => "exchange" \in held
  /\ stage = "returning" => held \subseteq {"job", "timer", "socket"}

(* A probe that has been cut off learns of it at its next step, and does   *)
(* not send its request.                                                   *)
CutInv ==
  /\ stage \in Tunnelling /\ Cut => news # None
  /\ stage = "opened" => news # None
  /\ stage = "exchange" => ~Cut

(* A body is read only after a header that did not decide, and a result is *)
(* the end of the probe.                                                   *)
EvidenceInv ==
  /\ stage \in Unsent => head = None
  /\ stage = "exchange" /\ head # None => Refused(head) = None
  /\ outcome # None => stage \in {"returning", "over"}
  /\ AcceptedOnEvidence

ExchangeInv == TypeOK /\ HeldInv /\ CutInv /\ EvidenceInv

(* finish() leaves the exchange with a lawful result and nothing of it. *)
LEMMA FinishKeeps ==
  ASSUME ExchangeInv, stage \in {"opened", "exchange"}, NEW result \in Results, Finish(result),
         UNCHANGED <<route, aborted, timedOut>>, head' \in Header \cup {None},
         read' \subseteq Facts \cup {"end"},
         result = "accepted" => AcceptedOnEvidence'
  PROVE  ExchangeInv'
<1> USE ExchangeAssumption DEF ExchangeInv, Finish
<1>1. TypeOK'
  BY DEF TypeOK, Tunnelling, Results, Facts
<1>2. HeldInv'
  <2>1. held \subseteq {"job", "timer", "socket", "exchange", "reader"}
    BY DEF TypeOK, HeldInv
  <2>2. /\ route' = route /\ stage' \in {"over", "returning"}
        /\ stage' = "over" <=> route = "local"
        /\ held' \subseteq {"job", "timer", "socket"} /\ (stage' = "over" => held' = {})
    BY <2>1
  <2>3. QED
    BY <2>2 DEF HeldInv, Tunnelling
<1>3. CutInv'
  BY DEF CutInv, Tunnelling
<1>4. EvidenceInv'
  BY <1>1 DEF EvidenceInv, AcceptedOnEvidence, Results, Unsent, Tunnelling
<1>5. QED  BY <1>1, <1>2, <1>3, <1>4

(* A new probe begins as the invariant wants it. *)
LEMMA StartKeeps ==
  ASSUME ExchangeInv, NEW r \in {"local", "node", "check"}, Start(r)
  PROVE  ExchangeInv'
<1> USE DEF ExchangeInv, Start
<1>1. TypeOK'
  BY DEF TypeOK, Tunnelling, Results, Facts
<1>2. HeldInv'
  BY DEF HeldInv, Tunnelling
<1>3. CutInv'
  BY DEF CutInv, Cut, Tunnelling
<1>4. EvidenceInv'
  BY ExchangeAssumption DEF EvidenceInv, AcceptedOnEvidence, Results, Unsent, Tunnelling
<1>5. QED  BY <1>1, <1>2, <1>3, <1>4

(* An abort, of the job or by the timer, ends the probe or is news to it.  *)
LEMMA InterruptKeeps ==
  ASSUME ExchangeInv, stage # "over", Cut',
         NEW result \in {"cancelled", "timeout"}, NEW rest \in SUBSET held, Interrupt(result, rest),
         "tunnel" \in held => "tunnel" \in rest,
         UNCHANGED <<route, head, read>>, {aborted', timedOut'} \subseteq BOOLEAN,
         timedOut' => "timer" \notin rest
  PROVE  ExchangeInv'
<1> USE ExchangeAssumption DEF ExchangeInv
<1>0. Facts' = Facts
  BY DEF Facts
<1>1. CASE "exchange" \in held \/ route = "local"
  <2>1. stage = "exchange" /\ ("exchange" \in held <=> route # "local")
        /\ held \subseteq {"job", "timer", "socket", "exchange", "reader"}
    BY <1>1 DEF TypeOK, HeldInv
  <2>2. /\ outcome' = result /\ news' = None
        /\ stage' = IF route = "local" THEN "over" ELSE "returning"
        /\ held' = IF route = "local" THEN {} ELSE rest \ {"exchange", "reader", "socket"}
    BY <1>1, <2>1 DEF Interrupt, Finish
  <2>3. held' \subseteq {"job", "timer"} /\ (stage' = "over" => held' = {}) /\ (timedOut' => "timer" \notin held')
    BY <2>1, <2>2
  <2>4. TypeOK'
    BY <2>2, <2>3, <1>0 DEF TypeOK, Results
  <2>5. HeldInv'
    BY <2>2, <2>3 DEF HeldInv, Tunnelling
  <2>6. CutInv'
    BY <2>2 DEF CutInv, Tunnelling
  <2>7. EvidenceInv'
    BY <2>2 DEF EvidenceInv, AcceptedOnEvidence, Tunnelling, Unsent
  <2>8. QED  BY <2>4, <2>5, <2>6, <2>7
<1>2. CASE "exchange" \notin held /\ route # "local"
  <2>1. stage # "exchange" /\ stage' = stage /\ outcome' = outcome
    BY <1>2 DEF Interrupt, HeldInv
  <2>2. news' \in {None, "ok", "failed"} /\ (stage \in Tunnelling \/ news # None => news' # None)
    BY <1>2 DEF Interrupt, TypeOK
  <2>3. held' \subseteq held /\ ("tunnel" \in held => "tunnel" \in held') /\ (timedOut' => "timer" \notin held')
    BY <1>2 DEF Interrupt
  <2>4. TypeOK'
    BY <2>1, <2>2, <2>3, <1>0 DEF TypeOK
  <2>5. HeldInv'
    BY <1>2, <2>1, <2>3 DEF HeldInv, Tunnelling
  <2>6. CutInv'
    BY <2>1, <2>2 DEF CutInv
  <2>7. EvidenceInv'
    BY <2>1 DEF EvidenceInv, AcceptedOnEvidence, Unsent, Tunnelling
  <2>8. QED  BY <2>4, <2>5, <2>6, <2>7
<1>3. QED  BY <1>1, <1>2

(* The events of a probe that waits. *)
LEMMA AnswersKeep == ExchangeInv /\ (LookupAnswers \/ PeerAnswers) => ExchangeInv'
<1> SUFFICES ASSUME ExchangeInv, LookupAnswers \/ PeerAnswers PROVE ExchangeInv'
  OBVIOUS
<1> USE ExchangeAssumption DEF ExchangeInv
<1>1. /\ stage \in {"lookup"} \cup Tunnelling /\ news' \in {"ok", "failed"}
      /\ UNCHANGED <<route, stage, aborted, timedOut, held, head, read, outcome>>
  BY DEF LookupAnswers, PeerAnswers
<1>2. TypeOK'
  <2>1. Facts' = Facts
    BY <1>1 DEF Facts
  <2>2. QED
    BY <1>1, <2>1 DEF TypeOK
<1>3. HeldInv'
  BY <1>1 DEF HeldInv
<1>4. CutInv'
  BY <1>1 DEF CutInv, Tunnelling
<1>5. EvidenceInv'
  BY <1>1 DEF EvidenceInv, AcceptedOnEvidence, Tunnelling
<1>6. QED  BY <1>2, <1>3, <1>4, <1>5

(* The tunnel grows by a step, is handed over, or is thrown away. *)
LEMMA TunnelKeeps == ExchangeInv /\ (TunnelGoesOn \/ TunnelOpens) => ExchangeInv'
<1> SUFFICES ASSUME ExchangeInv, TunnelGoesOn \/ TunnelOpens PROVE ExchangeInv'
  OBVIOUS
<1> USE ExchangeAssumption DEF ExchangeInv
<1>1. UNCHANGED <<route, aborted, timedOut, head, read>> /\ Facts' = Facts
      /\ stage \in {"lookup", "connect", "handshake", "tls"} /\ news # None
  BY DEF TunnelGoesOn, TunnelOpens, Facts
<1>2. CASE Throw
  <2> USE DEF Throw
  <2>1. TypeOK'
    BY <1>1, <1>2 DEF TypeOK, Tunnelling, Results
  <2>2. HeldInv'
    BY <1>1, <1>2 DEF TypeOK, HeldInv, Tunnelling
  <2>3. CutInv' /\ EvidenceInv'
    BY <1>1, <1>2 DEF CutInv, EvidenceInv, AcceptedOnEvidence, Tunnelling, Unsent
  <2>4. QED  BY <2>1, <2>2, <2>3
<1>3. CASE ~Throw
  <2>1. /\ outcome' = outcome
        /\ \/ stage' \in Tunnelling /\ ~Cut /\ news' = None
              /\ held' \in {held, held \cup {"socket"}}
           \/ stage' = "opened" /\ news' = news /\ held' = held \ {"tunnel"}
    BY <1>3 DEF TunnelGoesOn, TunnelOpens, Tunnelling
  <2>2. TypeOK'
    <3>1. held' \subseteq held \cup {"socket"} /\ news' \in {None, "ok", "failed"}
      BY <2>1 DEF TypeOK
    <3>2. QED
      BY <1>1, <2>1, <3>1 DEF TypeOK, Tunnelling
  <2>3. HeldInv'
    BY <1>1, <2>1 DEF HeldInv, Tunnelling
  <2>4. CutInv'
    BY <1>1, <2>1 DEF CutInv, Cut, Tunnelling
  <2>5. EvidenceInv'
    BY <1>1, <2>1 DEF EvidenceInv, AcceptedOnEvidence, Tunnelling, Unsent
  <2>6. QED  BY <2>2, <2>3, <2>4, <2>5
<1>4. QED  BY <1>2, <1>3

(* A request is sent by a probe that has not been cut off. *)
LEMMA SendKeeps == ExchangeInv /\ SendRequest => ExchangeInv'
<1> SUFFICES ASSUME ExchangeInv, SendRequest PROVE ExchangeInv'
  OBVIOUS
<1> USE ExchangeAssumption DEF ExchangeInv
<1>1. stage = "opened" /\ route # "local" /\ UNCHANGED <<route, aborted, timedOut, head, read>> /\ Facts' = Facts
  BY DEF SendRequest, HeldInv, Facts
<1>2. CASE Cut
  <2>1. PICK result \in {"timeout", "cancelled"} : Finish(result)
    BY <1>2 DEF SendRequest
  <2>2. QED
    BY <1>1, <2>1, FinishKeeps DEF TypeOK, Results
<1>3. CASE ~Cut
  <2>1. stage' = "exchange" /\ news' = None /\ held' = held \cup {"exchange"} /\ outcome' = outcome
    BY <1>3 DEF SendRequest
  <2>2. TypeOK'
    BY <1>1, <2>1 DEF TypeOK
  <2>3. HeldInv'
    BY <1>1, <2>1 DEF HeldInv, Tunnelling
  <2>4. CutInv'
    BY <1>1, <1>3, <2>1 DEF CutInv, Cut, Tunnelling
  <2>5. EvidenceInv'
    BY <1>1, <2>1 DEF EvidenceInv, AcceptedOnEvidence, Refused, Unsent
  <2>6. QED  BY <2>2, <2>3, <2>4, <2>5
<1>4. QED  BY <1>2, <1>3

(* The header decides, or lets the body be read. *)
LEMMA HeaderKeeps == ExchangeInv /\ ResponseBegins => ExchangeInv'
<1> SUFFICES ASSUME ExchangeInv, stage = "exchange", NEW h \in Header, head' = h,
                    IF Refused(h) # None THEN Finish(Refused(h))
                    ELSE /\ held' = IF route = "node" THEN held \cup {"reader"} ELSE held
                         /\ UNCHANGED <<stage, news, outcome>>,
                    UNCHANGED <<route, aborted, timedOut, read>>
             PROVE  ExchangeInv'
  BY DEF ResponseBegins
<1>1. read' \subseteq Facts' \cup {"end"} /\ Facts' = Facts
  BY DEF ExchangeInv, TypeOK, Facts
<1>2. CASE Refused(h) # None
  <2>1. Refused(h) \in Results \ {"accepted"}
    BY <1>2 DEF Refused, Results, Unsent, Tunnelling
  <2>2. QED
    BY <1>1, <1>2, <2>1, FinishKeeps
<1>3. CASE Refused(h) = None
  <2> USE <1>3, ExchangeAssumption DEF ExchangeInv
  <2>1. TypeOK'
    <3>1. held' \subseteq held \cup {"reader"}
      OBVIOUS
    <3>2. QED
      BY <1>1, <3>1 DEF TypeOK
  <2>2. HeldInv'
    BY DEF HeldInv, Tunnelling
  <2>3. CutInv'
    BY DEF CutInv, Cut, Tunnelling
  <2>4. EvidenceInv'
    BY DEF EvidenceInv, AcceptedOnEvidence, Refused, Results, Unsent, Tunnelling
  <2>5. QED  BY <2>1, <2>2, <2>3, <2>4
<1>4. QED  BY <1>2, <1>3

(* What the body tells is accepted only with all the evidence asked for.   *)
LEMMA BodyKeeps == ASSUME ExchangeInv, NEW atEnd \in BOOLEAN, ResponseReads(atEnd) PROVE ExchangeInv'
<1> USE ExchangeAssumption
<1>1. /\ stage = "exchange" /\ head \in Header /\ Refused(head) = None
      /\ UNCHANGED <<route, aborted, timedOut, head>> /\ Facts' = Facts
  BY DEF ExchangeInv, TypeOK, EvidenceInv, ResponseReads, Facts
<1>2. PICK facts \in SUBSET Facts :
        /\ read' = read \cup facts \cup (IF atEnd THEN {"end"} ELSE {})
        /\ IF Verdict(read', atEnd) # None THEN Finish(Verdict(read', atEnd))
           ELSE UNCHANGED <<stage, news, held, outcome>>
  BY DEF ResponseReads
<1>3. read' \subseteq Facts \cup {"end"} /\ (atEnd => "end" \in read')
  BY <1>2 DEF ExchangeInv, TypeOK
<1>4. CASE Verdict(read', atEnd) # None
  <2> DEFINE verdict == Verdict(read', atEnd)
  <2>1. Finish(verdict) /\ verdict \in Results
    BY <1>2, <1>4 DEF Verdict, Results
  <2>2. verdict = "accepted" =>
          /\ head.ok /\ (route # "check" => head.wanted /\ head.readable)
          /\ read' \cap {"completed", "limit"} # {} /\ read' \cap {"failed", "large"} = {}
          /\ (route = "check" \/ head.coded) => "end" \in read'
    <3>1. head.ok /\ (route = "node" => head.wanted /\ head.readable) /\ (route = "local" => head.readable)
      BY <1>1 DEF Refused, Results
    <3>2. verdict = "accepted" =>
            /\ read' \cap {"failed", "large"} = {} /\ ~(route = "local" /\ ~head.wanted)
            /\ read' \cap {"completed", "limit"} # {} /\ (atEnd \/ (route # "check" /\ ~head.coded))
      BY DEF Verdict, Results
    <3>3. route \in {"local", "node", "check"}
      BY DEF ExchangeInv, TypeOK
    <3>4. QED  BY <3>1, <3>2, <3>3, <1>3
  <2> HIDE DEF verdict
  <2>3. verdict = "accepted" => AcceptedOnEvidence'
    BY <1>1, <2>2 DEF AcceptedOnEvidence
  <2>4. QED
    BY <1>1, <1>3, <2>1, <2>3, FinishKeeps
<1>5. CASE Verdict(read', atEnd) = None
  <2>1. UNCHANGED <<stage, news, held, outcome>>
    BY <1>2, <1>5
  <2> USE <1>1, <2>1 DEF ExchangeInv
  <2>2. TypeOK'
    BY <1>3 DEF TypeOK
  <2>3. HeldInv'
    BY DEF HeldInv
  <2>4. CutInv'
    BY DEF CutInv, Cut
  <2>5. EvidenceInv'
    BY DEF EvidenceInv, AcceptedOnEvidence, Refused, Results, Unsent, Tunnelling
  <2>6. QED  BY <2>2, <2>3, <2>4, <2>5
<1>6. QED  BY <1>4, <1>5

(* Every step of the exchange. *)
LEMMA ExchangeKeeps == ExchangeInv /\ Exchange => ExchangeInv'
<1> SUFFICES ASSUME ExchangeInv, Exchange PROVE ExchangeInv'
  OBVIOUS
<1> USE ExchangeAssumption
<1>1. CASE NextJob
  <2>1. stage = "over" /\ aborted' = FALSE /\ Facts' = Facts
        /\ UNCHANGED <<route, stage, news, timedOut, held, head, read, outcome>>
    BY <1>1 DEF NextJob, Facts
  <2> USE <2>1 DEF ExchangeInv
  <2>2. TypeOK'
    BY DEF TypeOK
  <2>3. HeldInv'
    BY DEF HeldInv
  <2>4. CutInv' /\ EvidenceInv'
    BY DEF CutInv, EvidenceInv, AcceptedOnEvidence, Unsent, Tunnelling
  <2>5. QED  BY <2>2, <2>3, <2>4
<1>2. CASE JobAborts
  <2>1. Cut' /\ stage # "over" /\ Interrupt("cancelled", held) /\ UNCHANGED <<route, timedOut, head, read>>
    BY <1>2 DEF JobAborts, Cut
  <2>2. {aborted', timedOut'} \subseteq BOOLEAN /\ (timedOut' => "timer" \notin held)
    BY <1>2 DEF JobAborts, ExchangeInv, TypeOK
  <2>3. QED
    BY <2>1, <2>2, InterruptKeeps
<1>3. CASE TimerFires
  <2>1. Cut' /\ stage # "over" /\ Interrupt("timeout", held \ {"timer"}) /\ UNCHANGED <<route, aborted, head, read>>
    BY <1>3 DEF TimerFires, Cut, ExchangeInv, HeldInv
  <2>2. {aborted', timedOut'} \subseteq BOOLEAN
    BY <1>3 DEF TimerFires, ExchangeInv, TypeOK
  <2>3. held \ {"timer"} \in SUBSET held /\ ("tunnel" \in held => "tunnel" \in held \ {"timer"})
    OBVIOUS
  <2>4. QED
    BY <2>1, <2>2, <2>3, InterruptKeeps
<1>4. CASE ResponseBreaks
  <2>1. stage = "exchange" /\ Finish("error") /\ UNCHANGED <<route, aborted, timedOut, head, read>>
    BY <1>4 DEF ResponseBreaks
  <2>2. "error" \in Results /\ head' \in Header \cup {None} /\ read' \subseteq Facts \cup {"end"}
    BY <2>1 DEF Results, ExchangeInv, TypeOK
  <2>3. QED
    BY <2>1, <2>2, FinishKeeps
<1>5. CASE Return
  <2>1. stage = "returning" /\ stage' = "over" /\ Facts' = Facts /\ held' = {}
        /\ UNCHANGED <<route, news, aborted, timedOut, head, read, outcome>>
    BY <1>5 DEF Return, Facts, ExchangeInv, HeldInv
  <2> USE <2>1 DEF ExchangeInv
  <2>2. TypeOK'
    BY DEF TypeOK
  <2>3. HeldInv'
    BY DEF HeldInv, Tunnelling
  <2>4. CutInv' /\ EvidenceInv'
    BY DEF CutInv, EvidenceInv, AcceptedOnEvidence, Unsent, Tunnelling
  <2>5. QED  BY <2>2, <2>3, <2>4
<1>6. QED
  BY <1>1, <1>2, <1>3, <1>4, <1>5, AnswersKeep, TunnelKeeps, SendKeeps, HeaderKeeps, BodyKeeps
     DEF Exchange, Continuation

(* The invariant of the exchange holds beside the exporter and the clock.  *)
LEMMA ExchangeHolds == Spec => []ExchangeInv
<1>1. Init => ExchangeInv
  BY ExchangeAssumption DEF Init, ExchangeInit, ExchangeInv, TypeOK, HeldInv, CutInv, EvidenceInv,
     AcceptedOnEvidence, Results, Unsent, Tunnelling, Facts
<1>2. ExchangeInv /\ UNCHANGED exchangeVars => ExchangeInv'
  <2> SUFFICES ASSUME ExchangeInv, UNCHANGED exchangeVars PROVE ExchangeInv'
    OBVIOUS
  <2> USE DEF ExchangeInv, exchangeVars
  <2>1. TypeOK'
    BY DEF TypeOK, Facts
  <2>2. HeldInv'
    BY DEF HeldInv
  <2>3. CutInv'
    BY DEF CutInv, Cut
  <2>4. EvidenceInv'
    BY DEF EvidenceInv, AcceptedOnEvidence, Refused
  <2>5. QED  BY <2>1, <2>2, <2>3, <2>4
<1>3. ExchangeInv /\ [Next]_vars => ExchangeInv'
  BY <1>2, StartKeeps, ExchangeKeeps DEF Next, Probe, ProbeStep, Export, Tick, vars
<1>4. QED  BY <1>1, <1>3, PTL DEF Spec

(* Whose credentials a probe holds, and what the exporter's file is.       *)
FilesInv ==
  /\ AuthTypeOK
  /\ using # NoAccount => stage # "over" /\ route = "node"
  /\ began <= now

(* Files and credentials keep their types. *)
LEMMA FilesKeep == Inv /\ FilesInv /\ [Next]_vars => FilesInv'
<1> SUFFICES ASSUME Inv, FilesInv, [Next]_vars PROVE FilesInv'
  OBVIOUS
<1> USE AuthAssumption DEF Inv, ExportInv, FilesInv, AuthTypeOK
<1>1. CASE Export
  <2>1. UNCHANGED <<now, stage, route, using, began>>
    BY <1>1 DEF Export, Query, Publish, RunFails, exchangeVars
  <2>2. CASE Query
    BY <2>1, <2>2 DEF Query
  <2>3. CASE Publish
    BY <2>1, <2>3 DEF Publish
  <2>4. CASE RunFails
    BY <2>1, <2>4 DEF RunFails
  <2>5. QED  BY <1>1, <2>2, <2>3, <2>4 DEF Export
<1>2. CASE Tick
  BY <1>2, ProbesAssumption DEF Tick, exchangeVars, TimerInv
<1>3. ASSUME NEW r \in {"local", "node", "check"}, Probe(r) PROVE FilesInv'
  BY <1>3 DEF Probe, Start, authVars
<1>4. CASE ProbeStep
  <2>1. UNCHANGED <<now, exported, run>> /\ route' = route
        /\ (stage' = "over" => using' = NoAccount /\ began' = 0)
        /\ (stage' # "over" => using' = using /\ began' = began)
    <3>1. route' = route
      BY <1>4 DEF ProbeStep, Exchange, NextJob, JobAborts, TimerFires, LookupAnswers, PeerAnswers, Continuation,
         TunnelGoesOn, TunnelOpens, SendRequest, Return, ResponseBegins, ResponseReads, ResponseBreaks
    <3>2. QED
      BY <1>4, <3>1 DEF ProbeStep, Kept, authVars
  <2>2. QED
    BY <2>1
<1>5. CASE UNCHANGED vars
  BY <1>5 DEF vars, authVars, exchangeVars
<1>6. QED
  BY <1>1, <1>2, <1>3, <1>4, <1>5 DEF Next

(* Exporter, exchange and credentials keep their types. *)
THEOREM TypesHold == Spec => []TypesOK
<1>1. Init => FilesInv
  BY AuthAssumption DEF Init, AuthInit, ExchangeInit, FilesInv, AuthTypeOK
<1>2. ExchangeInv /\ FilesInv => TypesOK
  BY DEF ExchangeInv, FilesInv, TypesOK
<1>3. QED
  BY <1>1, <1>2, InvHolds, ExchangeHolds, FilesKeep, PTL DEF Spec

(* A deadline or an abort, wherever it comes, also between an event and    *)
(* its continuation, ends every wait but the resolver's (README:27).       *)
THEOREM CutsAreObeyed == Spec => []CutIsObeyed
<1>1. ExchangeInv => CutIsObeyed
  BY DEF ExchangeInv, TypeOK, CutInv, CutIsObeyed
<1>2. QED  BY <1>1, ExchangeHolds, PTL

(* No exit of a probe leaves a listener, a timer or a socket behind.       *)
THEOREM NothingStaysHeld == Spec => []NothingHeld
<1>1. ExchangeInv => NothingHeld
  BY DEF ExchangeInv, HeldInv, NothingHeld
<1>2. QED  BY <1>1, ExchangeHolds, PTL

(* "A successful terminal event is required before adopting a state"       *)
(* (probe-transport.mjs:56, probe-response.mjs:5), whatever the peers      *)
(* answer and whenever the probe is cut off.                               *)
THEOREM StatesAcceptedOnEvidence == Spec => []AcceptedOnEvidence
<1>1. ExchangeInv => AcceptedOnEvidence
  BY DEF ExchangeInv, EvidenceInv
<1>2. QED  BY <1>1, ExchangeHolds, PTL
=============================================================================
