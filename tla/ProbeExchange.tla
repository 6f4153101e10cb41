---------------------------- MODULE ProbeExchange ----------------------------
(***************************************************************************)
(* One probe after the other, as the network sees them: to the local       *)
(* target (lib/probe-transport.mjs), or through a node of the pool         *)
(* (lib/proxy-probe.mjs, lib/proxy-tunnel.mjs, lib/probe-response.mjs),    *)
(* which also carries the connectivity checks.                             *)
(*                                                                         *)
(* A node's probe looks up the node, connects, talks to the proxy, starts  *)
(* TLS and sends its request.  Every await of the code is two steps, the   *)
(* event and the continuation, because the job may be aborted in between.  *)
(* The peers may answer anything, or nothing.  Modules AutomaticGate and   *)
(* ProxyPool begin where a probe has returned.                             *)
(***************************************************************************)
CONSTANT None

VARIABLES
  route,    \* "local", "node", or "check": a connectivity check of a node
  stage,    \* where the probe is
  news,     \* the event a continuation is about to handle, None while waiting
  aborted,  \* the job's signal
  timedOut, \* the probe's timer has fired
  held,     \* what the probe holds: its timer, its socket, its listeners
  head,     \* the response's header, None before it
  read,     \* what the body has told so far
  outcome   \* the result, None before it

exchangeVars == <<route, stage, news, aborted, timedOut, held, head, read, outcome>>

Tunnelling == {"connect", "handshake", "tls"}
Results == {"accepted", "cancelled", "timeout", "length_miss", "error"}

(* wanted: exactly one state header, of a pinned length; coded: compressed. *)
Header == [ok : BOOLEAN, wanted : BOOLEAN, readable : BOOLEAN, coded : BOOLEAN]

(* null is neither an event, nor a result, nor a header. *)
ASSUME ExchangeAssumption == None \notin {"ok", "failed"} \cup Results \cup Header

ExchangeInit ==
  /\ route = "local" /\ stage = "over" /\ news = None
  /\ aborted = FALSE /\ timedOut = FALSE /\ held = {}
  /\ head = None /\ read = {} /\ outcome = None

(* The controller of a node's probe has been aborted. *)
Cut == aborted \/ timedOut

(* Mutant of Start: the flag of the last probe's timer is not reset. *)
StartStillTimedOut(r) ==
  /\ stage = "over" /\ ~aborted
  /\ route' = r
  /\ stage' \in IF r = "local" THEN {"exchange"} ELSE {"lookup", "connect"}
  /\ held' = {"job", "timer"} \cup (IF r = "local" THEN {"socket"} ELSE {"tunnel"})
                              \cup (IF stage' = "connect" THEN {"socket"} ELSE {})
  /\ head' = None /\ read' = {} /\ outcome' = None
  /\ UNCHANGED <<news, aborted, timedOut>>

(* A local request is sent at once.  A node with a literal address needs   *)
(* no lookup.                                                              *)
Start(r) ==
  /\ stage = "over" /\ ~aborted
  /\ route' = r
  /\ stage' \in IF r = "local" THEN {"exchange"} ELSE {"lookup", "connect"}
  /\ held' = {"job", "timer"} \cup (IF r = "local" THEN {"socket"} ELSE {"tunnel"})
                              \cup (IF stage' = "connect" THEN {"socket"} ELSE {})
  /\ timedOut' = FALSE
  /\ head' = None /\ read' = {} /\ outcome' = None
  /\ UNCHANGED <<news, aborted>>

(* The job's next probe is another job's. *)
NextJob ==
  /\ stage = "over" /\ aborted /\ aborted' = FALSE
  /\ UNCHANGED <<route, stage, news, timedOut, held, head, read, outcome>>

(* finish(): a local probe is over; a node's still has its finally block.  *)
Finish(result) ==
  /\ outcome' = result /\ news' = None
  /\ IF route = "local" THEN stage' = "over" /\ held' = {}
     ELSE stage' = "returning" /\ held' = held \ {"exchange", "reader", "socket"}

-----------------------------------------------------------------------------
(* The job's abort and the deadline *)

(* Mutant of Interrupt: waiting for the proxy or TLS does not listen.      *)
InterruptDeaf(result, rest) ==
  IF "exchange" \in held
  THEN /\ outcome' = result /\ news' = None /\ stage' = "returning"
       /\ held' = rest \ {"exchange", "reader", "socket"}
  ELSE IF route = "local" THEN Finish(result)
  ELSE held' = rest /\ UNCHANGED <<stage, news, outcome>>

(* Who listens to the abort: the exchange ends; a local probe ends; the    *)
(* tunnel loses its socket, which is what its next event will tell it.     *)
(* The lookup does not listen, nor does the moment between the tunnel and  *)
(* the exchange.                                                           *)
Interrupt(result, rest) ==
  IF "exchange" \in held
  THEN /\ outcome' = result /\ news' = None /\ stage' = "returning"
       /\ held' = rest \ {"exchange", "reader", "socket"}
  ELSE IF route = "local" THEN Finish(result)
  ELSE /\ held' = IF "tunnel" \in held THEN rest \ {"socket"} ELSE rest
       /\ news' = IF stage \in Tunnelling /\ news = None THEN "failed" ELSE news
       /\ UNCHANGED <<stage, outcome>>

JobAborts ==
  /\ stage # "over" /\ ~aborted
  /\ aborted' = TRUE
  /\ Interrupt("cancelled", held)
  /\ UNCHANGED <<route, timedOut, head, read>>

TimerFires ==
  /\ "timer" \in held
  /\ timedOut' = TRUE
  /\ Interrupt("timeout", held \ {"timer"})
  /\ UNCHANGED <<route, aborted, head, read>>

-----------------------------------------------------------------------------
(* openProxyTLS *)

(* The resolver's answer, an address that is not public among the failures. *)
LookupAnswers ==
  /\ stage = "lookup" /\ news = None
  /\ news' \in {"ok", "failed"}
  /\ UNCHANGED <<route, stage, aborted, timedOut, held, head, read, outcome>>

(* The proxy, or the site behind it, accepts, replies, refuses or hangs up. *)
PeerAnswers ==
  /\ stage \in Tunnelling /\ news = None
  /\ news' \in {"ok", "failed"}
  /\ UNCHANGED <<route, stage, aborted, timedOut, held, head, read, outcome>>

(* The tunnel throws: its catch and finally, then requestViaProxy's catch. *)
Throw ==
  /\ stage' = "returning" /\ news' = None
  /\ held' = held \ {"tunnel", "socket"}
  /\ outcome' = IF timedOut THEN "timeout" ELSE IF aborted THEN "cancelled" ELSE "error"

(* A wait that begins after the abort rejects at once.  The proxy's reply  *)
(* is read in several waits.                                               *)
TunnelGoesOn ==
  /\ stage \in {"lookup", "connect", "handshake"} /\ news # None
  /\ IF news = "failed" \/ Cut THEN Throw
     ELSE /\ \/ stage = "lookup" /\ stage' = "connect" /\ held' = held \cup {"socket"}
             \/ stage = "connect" /\ stage' = "handshake" /\ UNCHANGED held
             \/ stage = "handshake" /\ stage' \in {"handshake", "tls"} /\ UNCHANGED held
          /\ news' = None /\ UNCHANGED outcome
  /\ UNCHANGED <<route, aborted, timedOut, head, read>>

(* The tunnel hands its socket over, cut off or not. *)
TunnelOpens ==
  /\ stage = "tls" /\ news # None
  /\ IF news = "failed" THEN Throw
     ELSE /\ stage' = "opened" /\ held' = held \ {"tunnel"}
          /\ UNCHANGED <<news, outcome>>
  /\ UNCHANGED <<route, aborted, timedOut, head, read>>

(* Mutant of SendRequest: the signal is not looked at again. *)
SendRequestUnchecked ==
  /\ stage = "opened"
  /\ stage' = "exchange" /\ news' = None /\ held' = held \cup {"exchange"}
  /\ UNCHANGED <<route, aborted, timedOut, head, read, outcome>>

SendRequest ==
  /\ stage = "opened"
  /\ IF Cut THEN Finish(IF timedOut THEN "timeout" ELSE "cancelled")
     ELSE /\ stage' = "exchange" /\ news' = None /\ held' = held \cup {"exchange"}
          /\ UNCHANGED outcome
  /\ UNCHANGED <<route, aborted, timedOut, head, read>>

-----------------------------------------------------------------------------
(* The response *)

(* What a header alone decides.  The local probe looks at the state header *)
(* only when it reads the body.                                            *)
Refused(h) ==
  IF ~h.ok THEN "error"
  ELSE IF route = "node" /\ ~h.wanted THEN "length_miss"
  ELSE IF (route = "node" /\ ~h.readable) \/ (route = "local" /\ (~h.readable \/ h.coded)) THEN "error"
  ELSE None

ResponseBegins ==
  /\ stage = "exchange" /\ head = None
  /\ \E h \in Header :
       /\ head' = h
       /\ IF Refused(h) # None THEN Finish(Refused(h))
          ELSE /\ held' = IF route = "node" THEN held \cup {"reader"} ELSE held
               /\ UNCHANGED <<stage, news, outcome>>
  /\ UNCHANGED <<route, aborted, timedOut, read>>

(* Mutant of Verdict: a terminal event is enough, whatever came with it. *)
VerdictOnCompletion(told, atEnd) ==
  IF route = "local" /\ ~head.wanted THEN "length_miss"
  ELSE IF told \cap {"completed", "limit"} # {} THEN "accepted"
  ELSE IF told \cap {"failed", "large"} # {} \/ atEnd THEN "error" ELSE None

(* The order in which the code looks at what it was told.  A compressed    *)
(* body has to end first, to show that it is intact; so does the answer to *)
(* a connectivity check, in which "completed" is an exit address.          *)
Verdict(told, atEnd) ==
  IF told \cap {"failed", "large"} # {} THEN "error"
  ELSE IF route = "local" /\ ~head.wanted THEN "length_miss"
  ELSE IF told \cap {"completed", "limit"} # {} /\ (atEnd \/ (route # "check" /\ ~head.coded)) THEN "accepted"
  ELSE IF atEnd THEN "error" ELSE None

(* ResponseMetadata.object: the response has failed, is complete, or was   *)
(* cut short by the output limit asked for; large: past the size limit.    *)
Facts == IF route = "check" THEN {"completed", "large"} ELSE {"completed", "limit", "failed", "large"}

ResponseReads(atEnd) ==
  /\ stage = "exchange" /\ head # None
  /\ \E facts \in SUBSET Facts :
       /\ read' = read \cup facts \cup (IF atEnd THEN {"end"} ELSE {})
       /\ IF Verdict(read', atEnd) # None THEN Finish(Verdict(read', atEnd))
          ELSE UNCHANGED <<stage, news, held, outcome>>
  /\ UNCHANGED <<route, aborted, timedOut, head>>

(* Refused, reset or closed by the peer, a body that cannot be decoded or  *)
(* whose type cannot be detected.                                          *)
ResponseBreaks ==
  /\ stage = "exchange"
  /\ Finish("error")
  /\ UNCHANGED <<route, aborted, timedOut, head, read>>

(* Mutant of Return: the job's signal keeps its listener. *)
ReturnListening ==
  /\ stage = "returning"
  /\ stage' = "over" /\ held' = held \ {"timer", "socket"}
  /\ UNCHANGED <<route, news, aborted, timedOut, head, read, outcome>>

(* requestViaProxy's finally *)
Return ==
  /\ stage = "returning"
  /\ stage' = "over" /\ held' = held \ {"timer", "job", "socket"}
  /\ UNCHANGED <<route, news, aborted, timedOut, head, read, outcome>>

Continuation == TunnelGoesOn \/ TunnelOpens \/ SendRequest \/ Return

Exchange ==
  \/ NextJob \/ JobAborts \/ TimerFires
  \/ LookupAnswers \/ PeerAnswers \/ Continuation
  \/ ResponseBegins \/ (\E atEnd \in BOOLEAN : ResponseReads(atEnd)) \/ ResponseBreaks

-----------------------------------------------------------------------------
(* Type invariant; a timer that fired is not running. *)
TypeOK ==
  /\ route \in {"local", "node", "check"}
  /\ stage \in {"over", "lookup", "opened", "exchange", "returning"} \cup Tunnelling
  /\ news \in {None, "ok", "failed"}
  /\ {aborted, timedOut} \subseteq BOOLEAN
  /\ timedOut => "timer" \notin held
  /\ held \subseteq {"job", "timer", "socket", "tunnel", "exchange", "reader"}
  /\ head \in Header \cup {None} /\ read \subseteq Facts \cup {"end"}
  /\ outcome \in Results \cup {None}

(* "A single probe has a timeout of 15 s, so that no socket hangs"         *)
(* (README:27): whenever the deadline passes or the job is aborted, also   *)
(* between an event and its continuation, the probe waits for no peer any  *)
(* more, and only the resolver can still hold it up.                       *)
CutIsObeyed == Cut => stage \in {"lookup", "returning", "over"} \/ news # None

(* By whichever of its exits a probe leaves, no listener stays on the      *)
(* job's signal (one job sends any number of probes), no timer is left     *)
(* running and no socket open.                                             *)
NothingHeld == stage = "over" => held = {}

(* "A successful terminal event is required before adopting a state"       *)
(* (probe-transport.mjs:56, probe-response.mjs:5): an accepted state came  *)
(* alone in a header of the wanted length, on a response that completed,   *)
(* did not also fail or outgrow its limit, and was intact to its end if it *)
(* was compressed.                                                         *)
AcceptedOnEvidence ==
  outcome = "accepted" =>
    /\ head.ok /\ (route # "check" => head.wanted /\ head.readable)
    /\ read \cap {"completed", "limit"} # {} /\ read \cap {"failed", "large"} = {}
    /\ (route = "check" \/ head.coded) => "end" \in read
=============================================================================
