---------------------------- MODULE CallLifecycle ----------------------------
(***************************************************************************)
(* One call as the gateway and the orchestrator see it over HTTP: the      *)
(* gateway has a customer assigned, later reports the outcome, and waits   *)
(* for each answer GatewayTimeout at most; the orchestrator asks the       *)
(* payment provider for a link inside the report, and waits                *)
(* ProviderTimeout, which is longer.  A gateway that gives up closes its   *)
(* connection: the handler's context ends, and with it a link under way,   *)
(* but no statement of the store.  An operator may report an outcome by    *)
(* hand at any time.  Nothing is sent twice.                               *)
(*                                                                         *)
(* Recovery has the statements of many calls and no clients; this module   *)
(* has one call, what each side believes of it, and the time it takes.     *)
(***************************************************************************)
EXTENDS Naturals

CONSTANTS
  Links,            \* ids the provider gives to links
  GatewayTimeout,   \* ticks the gateway waits for an answer (3 s)
  ProviderTimeout,  \* ticks the orchestrator waits for the provider (10 s)
  MaxFaults,        \* failures of the store, and of the provider
  Null

Answers == {"ok", "empty", "failed"}

ASSUME LifecycleAssumption ==
  /\ GatewayTimeout \in Nat \ {0} /\ ProviderTimeout \in Nat /\ MaxFaults \in Nat
  /\ Null \notin Links \cup Answers

VARIABLES
  status,    \* of the customer's row; none when nobody is due
  link,      \* the link in the row
  trail,     \* events in the audit log
  gw,        \* the gateway: where it is, how long it has waited, what it heard
  assigner,  \* the handler of the assign request, then its answer
  req,       \* the end requests of the gateway and of an operator
  made,      \* links that exist at the provider
  faults     \* failures so far

vars == <<status, link, trail, gw, assigner, req, made, faults>>

Senders == {"gateway", "operator"}
Becomes == [AGREED |-> "link_sent", REFUSED |-> "refused", UNCLEAR |-> "unclear"]
Outcomes == DOMAIN Becomes
EndSessionAllowedFrom == {"active", "unclear"}

Idle == [at |-> "idle", outcome |-> Null, asked |-> FALSE, link |-> Null, age |-> 0,
         answer |-> Null]

TypeOK ==
  /\ status \in {"none", "pending", "active", "link_sent", "refused", "unclear"}
  /\ link \in Links \cup {Null} /\ made \subseteq Links
  /\ trail \subseteq {"session_assigned", "payment_link_failed", "call_ended"}
  /\ gw \in [at: {"start", "assigning", "call", "reporting", "over"}, waited: 0 .. GatewayTimeout,
             assign: Answers \cup {Null}, report: Answers \cup {Null}]
  /\ assigner \in {"idle", "claim", "audit"} \cup Answers
  /\ req \in [Senders -> [at: {"idle", "lookup", "link", "record", "done"},
                          outcome: Outcomes \cup {Null}, asked: BOOLEAN, link: Links \cup {Null},
                          age: 0 .. ProviderTimeout, answer: {"ok", "failed", Null}]]
  /\ faults \in [{"store", "provider"} -> 0 .. MaxFaults]

Init ==
  /\ status \in {"none", "pending"} /\ link = Null /\ trail = {}
  /\ gw = [at |-> "start", waited |-> 0, assign |-> Null, report |-> Null]
  /\ assigner = "idle" /\ req = [r \in Senders |-> Idle]
  /\ made = {} /\ faults = [f \in {"store", "provider"} |-> 0]

Fault(f) == faults[f] < MaxFaults /\ faults' = [faults EXCEPT ![f] = @ + 1]

(***************************************************************************)
(* The gateway.                                                            *)
(***************************************************************************)
ResolveProfile ==
  /\ gw.at = "start" /\ gw' = [gw EXCEPT !.at = "assigning"]
  /\ assigner' = "claim"
  /\ UNCHANGED <<status, link, trail, req, made, faults>>

\* An empty queue and a failure alike leave the call its static profile.
Assigned(answer) == gw' = [gw EXCEPT !.at = "call", !.assign = answer, !.waited = 0]

\* A bug: an answer is sent while the handler has yet to audit.
HearEarly ==
  /\ gw.at = "assigning" /\ assigner \in Answers \cup {"audit"}
  /\ Assigned(assigner)
  /\ UNCHANGED <<status, link, trail, assigner, req, made, faults>>

HearAssignment ==
  /\ gw.at = "assigning" /\ assigner \in Answers
  /\ Assigned(assigner)
  /\ UNCHANGED <<status, link, trail, assigner, req, made, faults>>

\* Only a call that had a customer assigned is reported.
EndSession(outcome) ==
  /\ gw.at = "call"
  /\ IF gw.assign = "ok"
     THEN /\ gw' = [gw EXCEPT !.at = "reporting"]
          /\ req' = [req EXCEPT !["gateway"].at = "lookup", !["gateway"].outcome = outcome]
     ELSE gw' = [gw EXCEPT !.at = "over"] /\ UNCHANGED req
  /\ UNCHANGED <<status, link, trail, assigner, made, faults>>

Reported(answer) == gw' = [gw EXCEPT !.at = "over", !.report = answer, !.waited = 0]

HearReport ==
  /\ gw.at = "reporting" /\ req["gateway"].at = "done"
  /\ Reported(req["gateway"].answer)
  /\ UNCHANGED <<status, link, trail, assigner, req, made, faults>>

\* A bug: no answer is taken for a yes.
SilenceIsYes ==
  /\ gw.waited = GatewayTimeout
  /\ \/ gw.at = "assigning" /\ Assigned("empty")
     \/ gw.at = "reporting" /\ Reported("ok")
  /\ UNCHANGED <<status, link, trail, assigner, req, made, faults>>

GatewayTimesOut ==
  /\ gw.waited = GatewayTimeout
  /\ \/ gw.at = "assigning" /\ Assigned("failed")
     \/ gw.at = "reporting" /\ Reported("failed")
  /\ UNCHANGED <<status, link, trail, assigner, req, made, faults>>

(***************************************************************************)
(* Assigning, in the orchestrator.  No step of it looks at the connection. *)
(***************************************************************************)
AssignNextPending ==
  /\ assigner = "claim"
  /\ \/ status = "pending" /\ status' = "active" /\ assigner' = "audit" /\ UNCHANGED faults
     \/ status = "none" /\ assigner' = "empty" /\ UNCHANGED <<status, faults>>
     \/ Fault("store") /\ assigner' = "failed" /\ UNCHANGED status
  /\ UNCHANGED <<link, trail, gw, req, made>>

\* The row is read again and audited after the claim has been committed.
AuditAssigned ==
  /\ assigner = "audit"
  /\ \/ assigner' = "ok" /\ trail' = trail \cup {"session_assigned"} /\ UNCHANGED faults
     \/ Fault("store") /\ assigner' = "failed" /\ UNCHANGED trail
  /\ UNCHANGED <<status, link, gw, req, made>>

(***************************************************************************)
(* Ending, in the orchestrator.                                            *)
(***************************************************************************)
OperatorEnds(outcome) ==
  /\ req["operator"].at = "idle"
  /\ req' = [req EXCEPT !["operator"].at = "lookup", !["operator"].outcome = outcome]
  /\ UNCHANGED <<status, link, trail, gw, assigner, made, faults>>

To(r, at) == req' = [req EXCEPT ![r].at = at]
Done(r, answer) == req' = [req EXCEPT ![r].at = "done", ![r].answer = answer]

ContextEnded(r) == r = "gateway" /\ gw.at # "reporting"

\* An outcome already recorded is answered ok; a call bound to nobody is not.  A
\* request whose context has ended asks the provider for nothing.
LookUp(r) ==
  /\ req[r].at = "lookup"
  /\ \/ status \in {"none", "pending"} /\ Done(r, "failed")
     \/ status \in {"link_sent", "refused"} /\ Done(r, "ok")
     \/ status \in EndSessionAllowedFrom
        /\ IF req[r].outcome = "AGREED"
           THEN req' = [req EXCEPT ![r].at = "link", ![r].asked = ~ ContextEnded(r)]
           ELSE To(r, "record")
  /\ UNCHANGED <<status, link, trail, gw, assigner, made, faults>>

\* The provider makes the link it was asked for, though perhaps after the request
\* has been given up.
Mint(r, l) ==
  /\ req[r].asked /\ req[r].link = Null /\ l \notin made
  /\ made' = made \cup {l} /\ req' = [req EXCEPT ![r].link = l]
  /\ UNCHANGED <<status, link, trail, gw, assigner, faults>>

LinkArrives(r) ==
  /\ req[r].at = "link" /\ req[r].link # Null /\ ~ ContextEnded(r)
  /\ To(r, "record")
  /\ UNCHANGED <<status, link, trail, gw, assigner, made, faults>>

\* A bug: the audit follows the error's return.
FailUnaudited(r) == Done(r, "failed") /\ UNCHANGED <<trail, faults>>

\* The error of the audit itself is dropped.
AuditLinkFailed(r) ==
  /\ Done(r, "failed")
  /\ \/ trail' = trail \cup {"payment_link_failed"} /\ UNCHANGED faults
     \/ Fault("store") /\ UNCHANGED trail

\* A bug: the request to the provider is not bounded.
WaitForEver(r) ==
  /\ req[r].at = "link" /\ ContextEnded(r)
  /\ AuditLinkFailed(r)
  /\ UNCHANGED <<status, link, gw, assigner, made>>

LinkTimesOut(r) ==
  /\ req[r].at = "link" /\ (ContextEnded(r) \/ req[r].age = ProviderTimeout)
  /\ AuditLinkFailed(r)
  /\ UNCHANGED <<status, link, gw, assigner, made>>

\* The provider refuses, or made the link and its answer is lost.
ProviderFails(r) ==
  /\ req[r].at = "link" /\ faults["provider"] < MaxFaults
  /\ Done(r, "failed")
  /\ trail' = trail \cup {"payment_link_failed"}
  /\ faults' = [faults EXCEPT !["provider"] = @ + 1]
  /\ UNCHANGED <<status, link, gw, assigner, made>>

RecordOutcome(r) ==
  /\ req[r].at = "record" /\ Done(r, "ok")
  /\ IF status \in EndSessionAllowedFrom
     THEN /\ status' = Becomes[req[r].outcome]
          /\ link' = IF req[r].link = Null THEN link ELSE req[r].link
          /\ trail' = trail \cup {"call_ended"}
     ELSE UNCHANGED <<status, link, trail>>
  /\ UNCHANGED <<gw, assigner, made, faults>>

StatementFails(r) ==
  /\ req[r].at \in {"lookup", "record"} /\ Fault("store")
  /\ Done(r, "failed")
  /\ UNCHANGED <<status, link, trail, gw, assigner, made>>

\* The orchestrator dies: every request under way is answered by a broken
\* connection, what is committed stays.
Crash ==
  /\ Fault("store")
  /\ assigner' = IF assigner \in {"claim", "audit"} THEN "failed" ELSE assigner
  /\ req' = [r \in Senders |->
               IF req[r].at \in {"lookup", "link", "record"}
               THEN [req[r] EXCEPT !.at = "done", !.answer = "failed"] ELSE req[r]]
  /\ UNCHANGED <<status, link, trail, gw, made>>

(***************************************************************************)
(* Time passes unless a timer is due.                                      *)
(***************************************************************************)
GatewayWaits == gw.at \in {"assigning", "reporting"}

Tick ==
  /\ GatewayWaits \/ \E r \in Senders : req[r].at = "link"
  /\ GatewayWaits => gw.waited < GatewayTimeout
  /\ \A r \in Senders : req[r].at = "link" => req[r].age < ProviderTimeout
  /\ gw' = IF GatewayWaits THEN [gw EXCEPT !.waited = @ + 1] ELSE gw
  /\ req' = [r \in Senders |-> IF req[r].at = "link" THEN [req[r] EXCEPT !.age = @ + 1] ELSE req[r]]
  /\ UNCHANGED <<status, link, trail, assigner, made, faults>>

Assigning == AssignNextPending \/ AuditAssigned

Ending(r) == LookUp(r) \/ RecordOutcome(r) \/ LinkTimesOut(r)

Timers == Tick \/ GatewayTimesOut \/ \E r \in Senders : LinkTimesOut(r)

Next ==
  \/ ResolveProfile \/ HearAssignment \/ HearReport
  \/ Timers
  \/ Assigning \/ Crash
  \/ \E o \in Outcomes : EndSession(o) \/ OperatorEnds(o)
  \/ \E r \in Senders :
       \/ LookUp(r) \/ RecordOutcome(r) \/ StatementFails(r)
       \/ LinkArrives(r) \/ ProviderFails(r)
       \/ \E l \in Links : Mint(r, l)

\* Timers fire and goroutines that can run do.  Nothing is asked of the provider,
\* of the caller, of the operator, or of an answer to arrive.
Spec ==
  /\ Init /\ [][Next]_vars
  /\ WF_vars(Timers)
  /\ \A r \in Senders : WF_vars(Ending(r))

(***************************************************************************)
(* Properties.                                                             *)
(***************************************************************************)
InFlight(r) == req[r].at \in {"lookup", "link", "record"}

\* A customer whose call is over and unrecorded is one the gateway was told, or
\* left to conclude, that something failed: never one it believes unassigned or
\* reported.
NoSilentLoss ==
  gw.at = "over" /\ status = "active" => "failed" \in {gw.assign, gw.report}

\* What became of the link of a request: it is still carried, it was given up in the
\* audit log, or the contact is settled, by this request or before it, and the audit
\* log says so.
Accounted(r) ==
  \/ InFlight(r)
  \/ req[r].answer = "failed" /\ "payment_link_failed" \in trail
  \/ /\ req[r].answer = "ok" /\ "call_ended" \in trail
     /\ status \in {"link_sent", "refused"}

\* Row and provider agree on the links.  A session whose link was sent has one, and
\* it exists.  While the store does not fail every link that exists is the link of a
\* request that accounts for it, whatever other requests report meanwhile.
LinksAccounted ==
  /\ status = "link_sent" => link \in made
  /\ faults["store"] = 0 => \A l \in made : \E r \in Senders : req[r].link = l /\ Accounted(r)

\* No wait is endless.  The gateway is not kept by an answer that does not come,
\* neither with the caller at the start nor in the teardown at the end; and an end
\* request ends, whatever the provider does and whoever has given up on it.
NobodyWaitsForEver ==
  /\ GatewayWaits ~> ~ GatewayWaits
  /\ \A r \in Senders : InFlight(r) ~> ~ InFlight(r)

\* Comment of requestTimeout in live.go: a provider that makes the link it is asked
\* for, but slowly, delays the record of a call.
SlowAnswerDelays ==
  (/\ gw.at = "over" /\ gw.assign = "ok" /\ req["gateway"].link # Null
   /\ \A r \in Senders : ~ InFlight(r)
   /\ faults = [f \in {"store", "provider"} |-> 0])
  => status # "active"
=============================================================================
