------------------------ MODULE CallLifecycleProofs ------------------------
(***************************************************************************)
(* Proofs about module CallLifecycle for every set of links, every pair of *)
(* timeouts and any number of failures.                                    *)
(***************************************************************************)
EXTENDS CallLifecycle, TLAPS

(***************************************************************************)
(* Type correctness.                                                       *)
(***************************************************************************)
GatewayType ==
  [at: {"start", "assigning", "call", "reporting", "over"}, waited: 0 .. GatewayTimeout,
   assign: Answers \cup {Null}, report: Answers \cup {Null}]

RequestType ==
  [at: {"idle", "lookup", "link", "record", "done"}, outcome: Outcomes \cup {Null},
   asked: BOOLEAN, link: Links \cup {Null}, age: 0 .. ProviderTimeout,
   answer: {"ok", "failed", Null}]

FaultType == [{"store", "provider"} -> 0 .. MaxFaults]

RowType ==
  /\ status \in {"none", "pending", "active", "link_sent", "refused", "unclear"}
  /\ link \in Links \cup {Null} /\ made \subseteq Links
  /\ trail \subseteq {"session_assigned", "payment_link_failed", "call_ended"}
  /\ assigner \in {"idle", "claim", "audit"} \cup Answers

LEMMA TypeParts ==
  TypeOK <=> RowType /\ gw \in GatewayType /\ req \in [Senders -> RequestType] /\ faults \in FaultType
BY DEF TypeOK, RowType, GatewayType, RequestType, FaultType

(***************************************************************************)
(* The invariant.                                                          *)
(***************************************************************************)
\* What the gateway believes is what it was told, or a failure.  A call without a
\* customer had nobody due, and an outcome taken for recorded is.
GatewayInv ==
  /\ gw.at \in {"start", "assigning", "call"} => req["gateway"].at = "idle"
  /\ gw.at \in {"start", "assigning"} => gw.assign = Null
  /\ gw.at \in {"call", "reporting", "over"} => gw.assign \in Answers
  /\ gw.at = "over" /\ gw.assign = "ok" => gw.report \in {"ok", "failed"}
  /\ gw.assign = "empty" => assigner = "empty"
  /\ assigner = "empty" => status = "none"
  /\ gw.report = "ok" => req["gateway"].answer = "ok"

\* A request under way has an outcome to record, and one that records an agreement
\* a link; only a request that asked the provider, for an agreement, has a link; what
\* a request answered is what became of the row; and one that asked and ended
\* accounts for its link, unless the store failed.
RequestInv(r) ==
  /\ InFlight(r) => req[r].outcome \in Outcomes
  /\ req[r].at # "done" => req[r].answer = Null
  /\ req[r].at = "done" => req[r].answer \in {"ok", "failed"}
  /\ req[r].at \in {"idle", "lookup"} => ~ req[r].asked
  /\ ~ req[r].asked => req[r].link = Null
  /\ req[r].link # Null => req[r].link \in made
  /\ req[r].at = "record" /\ req[r].outcome = "AGREED" => req[r].link # Null
  /\ req[r].at \in {"link", "record"} => status \notin {"none", "pending"}
  /\ req[r].answer = "ok" => status \notin {"none", "pending", "active"}
  /\ req[r].asked => req[r].outcome = "AGREED"
  /\ req[r].asked /\ req[r].at = "done" /\ faults["store"] = 0 => Accounted(r)

\* An outcome and its audit row are one transaction.
RowInv == status \in {"link_sent", "refused", "unclear"} => "call_ended" \in trail

LifecycleInv == TypeOK /\ GatewayInv /\ RowInv /\ (\A r \in Senders : RequestInv(r)) /\ LinksAccounted

LEMMA FaultCounts ==
  ASSUME faults \in FaultType, NEW f \in {"store", "provider"},
         faults[f] < MaxFaults, faults' = [faults EXCEPT ![f] = @ + 1]
  PROVE  faults' \in FaultType
BY LifecycleAssumption DEF FaultType

LEMMA InitTypeOK == Init => TypeOK
BY LifecycleAssumption DEF Init, TypeOK, Idle, Outcomes, Becomes, Answers

\* The gateway's own steps keep what it knows well typed.
LEMMA GatewaySteps ==
  ASSUME RowType, gw \in GatewayType, req \in [Senders -> RequestType],
         \/ ResolveProfile \/ HearAssignment \/ HearReport \/ GatewayTimesOut \/ Tick
         \/ \E o \in Outcomes : EndSession(o)
  PROVE  gw' \in GatewayType
<1>. USE LifecycleAssumption DEF GatewayType
<1>1. CASE ResolveProfile
  BY <1>1 DEF ResolveProfile
<1>a. 0 \in 0 .. GatewayTimeout
  OBVIOUS
<1>b. ASSUME NEW answer \in Answers \cup {Null}, Assigned(answer) \/ Reported(answer)
      PROVE  gw' \in GatewayType
  <2>1. CASE Assigned(answer)
    BY <1>a, <2>1 DEF Assigned
  <2>2. CASE Reported(answer)
    BY <1>a, <2>2 DEF Reported
  <2>3. QED
    BY <1>b, <2>1, <2>2
<1>2. CASE HearAssignment
  BY <1>2, <1>b DEF HearAssignment
<1>3. CASE HearReport
  <2>1. req["gateway"].answer \in Answers \cup {Null}
    BY DEF RequestType, Senders, Answers
  <2>2. QED
    BY <1>3, <1>b, <2>1 DEF HearReport
<1>4. CASE GatewayTimesOut
  <2>1. "failed" \in Answers
    BY DEF Answers
  <2>2. QED
    BY <1>4, <1>b, <2>1 DEF GatewayTimesOut
<1>5. CASE Tick
  <2>1. GatewayWaits => gw.waited + 1 \in 0 .. GatewayTimeout
    BY <1>5 DEF Tick
  <2>2. QED
    BY <1>5, <2>1 DEF Tick
<1>6. ASSUME NEW o \in Outcomes, EndSession(o) PROVE gw' \in GatewayType
  BY <1>6 DEF EndSession
<1>7. QED
  BY <1>1, <1>2, <1>3, <1>4, <1>5, <1>6

\* Every step of the gateway, of the orchestrator and of the clock keeps both
\* sides of the call well typed.
LEMMA NextTypeOK == LifecycleInv /\ [Next]_vars => TypeOK'
<1>. USE LifecycleAssumption
<1>. SUFFICES ASSUME TypeOK, \A r \in Senders : RequestInv(r), [Next]_vars
     PROVE  RowType' /\ gw' \in GatewayType /\ req' \in [Senders -> RequestType] /\ faults' \in FaultType
  BY DEF LifecycleInv, TypeOK, RowType, GatewayType, RequestType, FaultType
<1>0. RowType /\ gw \in GatewayType /\ req \in [Senders -> RequestType] /\ faults \in FaultType
  BY TypeParts
<1>. DEFINE Goal == RowType' /\ gw' \in GatewayType /\ req' \in [Senders -> RequestType] /\ faults' \in FaultType
<1>1. CASE ResolveProfile
  BY <1>0, <1>1, GatewaySteps DEF ResolveProfile, RowType
<1>2. CASE HearAssignment \/ HearReport \/ GatewayTimesOut
  BY <1>0, <1>2, GatewaySteps DEF HearAssignment, HearReport, GatewayTimesOut, RowType
<1>3. CASE Tick
  <2>1. ASSUME NEW r \in Senders, req[r].at = "link"
        PROVE  [req[r] EXCEPT !.age = @ + 1] \in RequestType
    <3>1. req[r] \in RequestType /\ req[r].age < ProviderTimeout
      BY <1>0, <1>3, <2>1 DEF Tick
    <3>2. req[r].age + 1 \in 0 .. ProviderTimeout
      BY <3>1 DEF RequestType
    <3>3. QED
      BY <3>1, <3>2 DEF RequestType
  <2>2. req' \in [Senders -> RequestType]
    BY <1>0, <1>3, <2>1 DEF Tick
  <2>3. QED
    BY <1>0, <1>3, <2>2, GatewaySteps DEF Tick, RowType
<1>4. CASE Assigning
  <2>1. faults' \in FaultType
    BY <1>0, <1>4, FaultCounts DEF Assigning, AssignNextPending, AuditAssigned, Fault
  <2>2. RowType'
    BY <1>0, <1>4 DEF Assigning, AssignNextPending, AuditAssigned, RowType, Answers
  <2>3. QED
    BY <1>0, <1>4, <2>1, <2>2 DEF Assigning, AssignNextPending, AuditAssigned
<1>5. CASE Crash
  <2>1. faults' \in FaultType
    BY <1>0, <1>5, FaultCounts DEF Crash, Fault
  <2>2. RowType'
    BY <1>0, <1>5 DEF Crash, RowType, Answers
  <2>3. ASSUME NEW r \in Senders
        PROVE  [req[r] EXCEPT !.at = "done", !.answer = "failed"] \in RequestType
    BY <1>0 DEF RequestType
  <2>4. req' \in [Senders -> RequestType]
    BY <1>0, <1>5, <2>3 DEF Crash
  <2>5. QED
    BY <1>0, <1>5, <2>1, <2>2, <2>4 DEF Crash
<1>6. ASSUME NEW o \in Outcomes, EndSession(o) PROVE Goal
  <2>1. [req["gateway"] EXCEPT !.at = "lookup", !.outcome = o] \in RequestType
    BY <1>0 DEF RequestType, Senders
  <2>2. req' = req \/ req' = [req EXCEPT !["gateway"] = [req["gateway"] EXCEPT !.at = "lookup", !.outcome = o]]
    BY <1>0, <1>6 DEF EndSession, Senders
  <2>3. req' \in [Senders -> RequestType]
    BY <1>0, <2>1, <2>2
  <2>4. QED
    BY <1>0, <1>6, <2>3, GatewaySteps DEF EndSession, RowType
<1>7. ASSUME NEW o \in Outcomes, OperatorEnds(o) PROVE Goal
  <2>1. [req["operator"] EXCEPT !.at = "lookup", !.outcome = o] \in RequestType
    BY <1>0 DEF RequestType, Senders
  <2>2. req' = [req EXCEPT !["operator"] = [req["operator"] EXCEPT !.at = "lookup", !.outcome = o]]
    BY <1>0, <1>7 DEF OperatorEnds, Senders
  <2>3. req' \in [Senders -> RequestType]
    BY <1>0, <2>1, <2>2
  <2>4. QED
    BY <1>0, <1>7, <2>3 DEF OperatorEnds, RowType
<1>8. ASSUME NEW r \in Senders, NEW at \in {"record"}, To(r, at)
      PROVE  req' \in [Senders -> RequestType]
  <2>1. [req[r] EXCEPT !.at = at] \in RequestType
    BY <1>0 DEF RequestType
  <2>2. QED
    BY <1>0, <1>8, <2>1 DEF To
<1>9. ASSUME NEW r \in Senders, NEW answer \in {"ok", "failed"}, Done(r, answer)
      PROVE  req' \in [Senders -> RequestType]
  <2>1. [req[r] EXCEPT !.at = "done", !.answer = answer] \in RequestType
    BY <1>0 DEF RequestType
  <2>2. req' = [req EXCEPT ![r] = [req[r] EXCEPT !.at = "done", !.answer = answer]]
    BY <1>0, <1>9 DEF Done
  <2>3. QED
    BY <1>0, <2>1, <2>2
<1>10. ASSUME NEW r \in Senders, LookUp(r) PROVE Goal
  <2>1. ASSUME req' = [req EXCEPT ![r].at = "link", ![r].asked = ~ ContextEnded(r)]
        PROVE  req' \in [Senders -> RequestType]
    <3>1. (~ ContextEnded(r)) \in BOOLEAN
      BY DEF ContextEnded
    <3>2. [req[r] EXCEPT !.at = "link", !.asked = ~ ContextEnded(r)] \in RequestType
      BY <1>0, <3>1 DEF RequestType
    <3>3. req' = [req EXCEPT ![r] = [req[r] EXCEPT !.at = "link", !.asked = ~ ContextEnded(r)]]
      BY <1>0, <2>1
    <3>4. QED
      BY <1>0, <3>2, <3>3
  <2>2. req' \in [Senders -> RequestType]
    BY <1>8, <1>9, <1>10, <2>1 DEF LookUp
  <2>3. QED
    BY <1>0, <1>10, <2>2 DEF LookUp, RowType
<1>11. ASSUME NEW r \in Senders, LinkArrives(r) PROVE Goal
  BY <1>0, <1>8, <1>11 DEF LinkArrives, RowType
<1>12. ASSUME NEW r \in Senders, ProviderFails(r) \/ StatementFails(r) \/ LinkTimesOut(r)
       PROVE  Goal
  <2>1. req' \in [Senders -> RequestType]
    BY <1>9, <1>12 DEF ProviderFails, StatementFails, LinkTimesOut, AuditLinkFailed
  <2>2. faults' \in FaultType
    BY <1>0, <1>12, FaultCounts DEF ProviderFails, StatementFails, LinkTimesOut, AuditLinkFailed, Fault
  <2>3. RowType'
    BY <1>0, <1>12 DEF ProviderFails, StatementFails, LinkTimesOut, AuditLinkFailed, RowType
  <2>4. QED
    BY <1>0, <1>12, <2>1, <2>2, <2>3 DEF ProviderFails, StatementFails, LinkTimesOut
<1>13. ASSUME NEW r \in Senders, RecordOutcome(r) PROVE Goal
  <2>1. req' \in [Senders -> RequestType]
    BY <1>9, <1>13 DEF RecordOutcome
  <2>2. req[r].outcome \in Outcomes /\ req[r].link \in Links \cup {Null}
    BY <1>0, <1>13 DEF RecordOutcome, RequestInv, InFlight, RequestType
  <2>3. Becomes[req[r].outcome] \in {"link_sent", "refused", "unclear"}
    BY <2>2 DEF Outcomes, Becomes
  <2>4. RowType'
    BY <1>0, <1>13, <2>2, <2>3 DEF RecordOutcome, RowType
  <2>5. QED
    BY <1>0, <1>13, <2>1, <2>4 DEF RecordOutcome
<1>14. ASSUME NEW r \in Senders, NEW l \in Links, Mint(r, l) PROVE Goal
  <2>1. [req[r] EXCEPT !.link = l] \in RequestType
    BY <1>0 DEF RequestType
  <2>2. QED
    BY <1>0, <1>14, <2>1 DEF Mint, RowType
<1>15. CASE UNCHANGED vars
  BY <1>0, <1>15 DEF vars, RowType
<1>16. QED
  BY <1>1, <1>2, <1>3, <1>4, <1>5, <1>6, <1>7, <1>10, <1>11, <1>12, <1>13, <1>14, <1>15
     DEF Next, Timers

LEMMA FaultShows ==
  ASSUME faults \in FaultType, Fault("store")
  PROVE  faults'["store"] # 0
<1>1. faults["store"] \in 0 .. MaxFaults /\ faults' = [faults EXCEPT !["store"] = faults["store"] + 1]
  BY DEF Fault, FaultType
<1>2. faults'["store"] = faults["store"] + 1
  BY <1>1 DEF FaultType
<1>3. QED
  BY <1>1, <1>2, LifecycleAssumption

(***************************************************************************)
(* What a step does to the row and the trail.                              *)
(***************************************************************************)
RowMoves ==
  /\ trail \subseteq trail' /\ made \subseteq made'
  /\ faults'["store"] = 0 => faults["store"] = 0
  /\ \/ status' = status /\ link' = link
     \/ status = "pending" /\ status' = "active" /\ assigner = "claim" /\ assigner' = "audit" /\ link' = link
     \/ /\ status \in EndSessionAllowedFrom /\ status' \in {"link_sent", "refused", "unclear"}
        /\ "call_ended" \in trail' /\ (status' = "link_sent" => link' \in made')

\* The row is claimed while it is due, decided from a status that allows it, with
\* its audit row, and otherwise kept; nothing is ever taken from the trail.
LEMMA RowSteps == LifecycleInv /\ [Next]_vars => RowMoves
<1>. SUFFICES ASSUME LifecycleInv, [Next]_vars PROVE RowMoves
  OBVIOUS
<1>0. faults \in FaultType /\ RowType
  BY TypeParts DEF LifecycleInv
<1>1. CASE ResolveProfile \/ HearAssignment \/ HearReport \/ GatewayTimesOut \/ Tick
  BY <1>1 DEF ResolveProfile, HearAssignment, HearReport, GatewayTimesOut, Tick, RowMoves
<1>2. ASSUME NEW f \in {"store", "provider"}, faults' = [faults EXCEPT ![f] = @ + 1]
      PROVE  faults'["store"] = 0 => faults["store"] = 0
  BY <1>0, <1>2, LifecycleAssumption DEF FaultType
<1>3. CASE Assigning
  <2>1. faults'["store"] = 0 => faults["store"] = 0
    BY <1>2, <1>3 DEF Assigning, AssignNextPending, AuditAssigned, Fault
  <2>2. QED
    BY <1>3, <2>1 DEF Assigning, AssignNextPending, AuditAssigned, RowMoves
<1>4. CASE Crash
  BY <1>2, <1>4 DEF Crash, Fault, RowMoves
<1>5. ASSUME NEW o \in Outcomes, EndSession(o) \/ OperatorEnds(o) PROVE RowMoves
  BY <1>5 DEF EndSession, OperatorEnds, RowMoves
<1>6. ASSUME NEW r \in Senders, LookUp(r) \/ LinkArrives(r) \/ \E l \in Links : Mint(r, l)
      PROVE  RowMoves
  BY <1>6 DEF LookUp, LinkArrives, Mint, RowMoves
<1>7. ASSUME NEW r \in Senders, ProviderFails(r) \/ StatementFails(r) \/ LinkTimesOut(r)
      PROVE  RowMoves
  <2>1. faults'["store"] = 0 => faults["store"] = 0
    BY <1>2, <1>7 DEF ProviderFails, StatementFails, LinkTimesOut, AuditLinkFailed, Fault
  <2>2. QED
    BY <1>7, <2>1 DEF ProviderFails, StatementFails, LinkTimesOut, AuditLinkFailed, RowMoves
<1>8. ASSUME NEW r \in Senders, RecordOutcome(r) PROVE RowMoves
  <2>1. CASE status \in EndSessionAllowedFrom
    <3>1. req[r].outcome \in Outcomes
      BY <1>8 DEF RecordOutcome, LifecycleInv, RequestInv, InFlight
    <3>2. Becomes[req[r].outcome] \in {"link_sent", "refused", "unclear"}
      BY <3>1 DEF Outcomes, Becomes
    <3>3. status' = "link_sent" => req[r].link # Null /\ req[r].link \in made
      <4>1. Becomes[req[r].outcome] = "link_sent" => req[r].outcome = "AGREED"
        BY <3>1 DEF Outcomes, Becomes
      <4>2. QED
        BY <1>8, <2>1, <4>1 DEF RecordOutcome, LifecycleInv, RequestInv
    <3>4. QED
      BY <1>8, <2>1, <3>2, <3>3 DEF RecordOutcome, RowMoves
  <2>2. CASE status \notin EndSessionAllowedFrom
    BY <1>8, <2>2 DEF RecordOutcome, RowMoves
  <2>3. QED
    BY <2>1, <2>2
<1>9. CASE UNCHANGED vars
  BY <1>9 DEF vars, RowMoves
<1>10. QED
  BY <1>1, <1>3, <1>4, <1>5, <1>6, <1>7, <1>8, <1>9 DEF Next, Timers

LEMMA NextRowInv == LifecycleInv /\ [Next]_vars => RowInv'
BY RowSteps DEF LifecycleInv, RowMoves, RowInv

\* What holds of a request goes on holding while others move.
LEMMA RequestRests ==
  ASSUME LifecycleInv, RowMoves, NEW r \in Senders, req'[r] = req[r]
  PROVE  RequestInv(r)'
<1>1. RequestInv(r)
  BY DEF LifecycleInv
<1>2. status \in {"none", "pending"} \/ status' \notin {"none", "pending"}
  BY DEF RowMoves, EndSessionAllowedFrom
<1>3. status \in {"none", "pending", "active"} \/ status' \notin {"none", "pending", "active"}
  BY DEF RowMoves, EndSessionAllowedFrom
<1>4. status \in {"link_sent", "refused"} => status' \in {"link_sent", "refused"}
  BY DEF RowMoves, EndSessionAllowedFrom
<1>5. QED
  BY <1>1, <1>2, <1>3, <1>4 DEF RequestInv, RowMoves, InFlight, Accounted

(***************************************************************************)
(* What a step does to the requests.                                       *)
(***************************************************************************)
\* A request that ends with answer in a step that accounts for its link, if it had asked.
Ends(r, answer) ==
  /\ InFlight(r) /\ req'[r] = [req[r] EXCEPT !.at = "done", !.answer = answer]
  /\ \/ answer = "failed"
     \/ answer = "ok" /\ status' \notin {"none", "pending", "active"}
  /\ req[r].asked /\ faults'["store"] = 0 =>
       \/ answer = "failed" /\ "payment_link_failed" \in trail'
       \/ answer = "ok" /\ status' \in {"link_sent", "refused"} /\ "call_ended" \in trail'

\* A request starts when its sender sends it; the gateway then waits for it.
Starts(r) ==
  /\ \E o \in Outcomes : req[r].at = "idle" /\ req'[r] = [req[r] EXCEPT !.at = "lookup", !.outcome = o]
  /\ r = "gateway" => gw'.at = "reporting"

RequestMoves(r) ==
  \/ req'[r] = req[r]
  \/ \E age \in 0 .. ProviderTimeout : req'[r] = [req[r] EXCEPT !.age = age]
  \/ Starts(r)
  \/ /\ req[r].at = "lookup" /\ status \in EndSessionAllowedFrom
     /\ \/ /\ req[r].outcome = "AGREED"
           /\ \E b \in BOOLEAN : req'[r] = [req[r] EXCEPT !.at = "link", !.asked = b]
        \/ req[r].outcome # "AGREED" /\ req'[r] = [req[r] EXCEPT !.at = "record"]
  \/ /\ req[r].at = "link" /\ req[r].link # Null
     /\ req'[r] = [req[r] EXCEPT !.at = "record"]
  \/ \E l \in Links : req[r].asked /\ req[r].link = Null /\ l \in made' /\ req'[r] = [req[r] EXCEPT !.link = l]
  \/ \E answer \in {"ok", "failed"} : Ends(r, answer)

\* A request that moved one of these ways is in order after the step.
LEMMA MovedRequest ==
  ASSUME LifecycleInv, RowMoves, NEW r \in Senders, RequestMoves(r)
  PROVE  RequestInv(r)'
<1>0. req[r] \in RequestType /\ RequestInv(r)
  BY TypeParts DEF LifecycleInv
<1>. Null \notin Links
  BY LifecycleAssumption
<1>1. status \in {"none", "pending"} \/ status' \notin {"none", "pending"}
  BY DEF RowMoves, EndSessionAllowedFrom
<1>2. status \in {"none", "pending", "active"} \/ status' \notin {"none", "pending", "active"}
  BY DEF RowMoves, EndSessionAllowedFrom
<1>3. status \in {"link_sent", "refused"} => status' \in {"link_sent", "refused"}
  BY DEF RowMoves, EndSessionAllowedFrom
<1>4. CASE req'[r] = req[r]
  BY <1>4, RequestRests
<1>5. ASSUME NEW age \in 0 .. ProviderTimeout, req'[r] = [req[r] EXCEPT !.age = age]
      PROVE  RequestInv(r)'
  BY <1>0, <1>1, <1>2, <1>3, <1>5 DEF RequestInv, InFlight, Accounted, RequestType, RowMoves
<1>6. ASSUME NEW o \in Outcomes, req[r].at = "idle",
             req'[r] = [req[r] EXCEPT !.at = "lookup", !.outcome = o]
      PROVE  RequestInv(r)'
  BY <1>0, <1>1, <1>2, <1>3, <1>6 DEF RequestInv, InFlight, Accounted, RequestType, RowMoves
<1>7. ASSUME NEW b \in BOOLEAN, req[r].at = "lookup", status \in EndSessionAllowedFrom,
             req[r].outcome = "AGREED",
             req'[r] = [req[r] EXCEPT !.at = "link", !.asked = b]
      PROVE  RequestInv(r)'
  BY <1>0, <1>1, <1>2, <1>3, <1>7 DEF RequestInv, InFlight, Accounted, RequestType, RowMoves, EndSessionAllowedFrom
<1>8. ASSUME req[r].at \in {"lookup", "link"}, req[r].at = "lookup" => status \in EndSessionAllowedFrom,
             req[r].outcome # "AGREED" \/ req[r].link # Null,
             req'[r] = [req[r] EXCEPT !.at = "record"]
      PROVE  RequestInv(r)'
  BY <1>0, <1>1, <1>2, <1>3, <1>8 DEF RequestInv, InFlight, Accounted, RequestType, RowMoves, EndSessionAllowedFrom
<1>9. ASSUME NEW l \in Links, req[r].asked, l \in made', req'[r] = [req[r] EXCEPT !.link = l]
      PROVE  RequestInv(r)'
  BY <1>0, <1>1, <1>2, <1>3, <1>9 DEF RequestInv, InFlight, Accounted, RequestType, RowMoves
<1>10. ASSUME NEW answer \in {"ok", "failed"}, Ends(r, answer) PROVE RequestInv(r)'
  BY <1>0, <1>1, <1>2, <1>3, <1>10 DEF RequestInv, InFlight, Accounted, RequestType, RowMoves, Ends
<1>11. QED
  BY <1>4, <1>5, <1>6, <1>7, <1>8, <1>9, <1>10 DEF RequestMoves, Starts

\* Every request moves one of these ways in every step.
LEMMA RequestSteps ==
  ASSUME LifecycleInv, [Next]_vars, RowMoves, NEW r \in Senders
  PROVE  RequestMoves(r)
<1>0. /\ req \in [Senders -> RequestType] /\ gw \in GatewayType
      /\ RequestInv(r) /\ GatewayInv /\ RowInv /\ RowType
      /\ faults \in FaultType
  BY TypeParts DEF LifecycleInv
<1>1. ASSUME req' = req PROVE RequestMoves(r)
  BY <1>1 DEF RequestMoves
<1>2. CASE ResolveProfile \/ HearAssignment \/ HearReport \/ GatewayTimesOut \/ Assigning \/ UNCHANGED vars
  BY <1>1, <1>2 DEF ResolveProfile, HearAssignment, HearReport, GatewayTimesOut, Assigning,
     AssignNextPending, AuditAssigned, vars
<1>3. CASE Tick
  <2>1. CASE req[r].at = "link"
    <3>1. req[r].age + 1 \in 0 .. ProviderTimeout
      BY <1>0, <1>3, <2>1, LifecycleAssumption DEF Tick, RequestType
    <3>2. req'[r] = [req[r] EXCEPT !.age = req[r].age + 1]
      BY <1>3, <2>1 DEF Tick
    <3>3. QED
      BY <3>1, <3>2 DEF RequestMoves
  <2>2. CASE req[r].at # "link"
    <3>1. req'[r] = req[r]
      BY <1>3, <2>2 DEF Tick
    <3>2. QED
      BY <3>1 DEF RequestMoves
  <2>3. QED
    BY <2>1, <2>2
<1>4. CASE Crash
  <2>1. faults'["store"] # 0
    BY <1>0, <1>4, FaultShows DEF Crash
  <2>2. CASE InFlight(r)
    <3>1. req'[r] = [req[r] EXCEPT !.at = "done", !.answer = "failed"]
      BY <1>4, <2>2 DEF Crash, InFlight
    <3>2. Ends(r, "failed")
      BY <2>1, <2>2, <3>1 DEF Ends
    <3>3. QED
      BY <3>2 DEF RequestMoves
  <2>3. CASE ~ InFlight(r)
    <3>1. req'[r] = req[r]
      BY <1>4, <2>3 DEF Crash, InFlight
    <3>2. QED
      BY <3>1 DEF RequestMoves
  <2>4. QED
    BY <2>2, <2>3
<1>5. ASSUME NEW o \in Outcomes, EndSession(o) \/ OperatorEnds(o) PROVE RequestMoves(r)
  <2>1. CASE EndSession(o)
    <3>1. req["gateway"].at = "idle"
      BY <1>0, <2>1 DEF EndSession, GatewayInv
    <3>2. \/ req' = req
          \/ /\ req' = [req EXCEPT !["gateway"] = [req["gateway"] EXCEPT !.at = "lookup", !.outcome = o]]
             /\ gw' = [gw EXCEPT !.at = "reporting"]
      BY <1>0, <2>1 DEF EndSession, Senders
    <3>3. gw' = [gw EXCEPT !.at = "reporting"] => gw'.at = "reporting"
      BY <1>0 DEF GatewayType
    <3>4. QED
      BY <1>0, <3>1, <3>2, <3>3 DEF RequestMoves, Starts, Senders
  <2>2. CASE OperatorEnds(o)
    <3>1. req' = [req EXCEPT !["operator"] = [req["operator"] EXCEPT !.at = "lookup", !.outcome = o]]
      BY <1>0, <2>2 DEF OperatorEnds, Senders
    <3>2. QED
      BY <1>0, <2>2, <3>1 DEF OperatorEnds, RequestMoves, Starts, Senders
  <2>3. QED
    BY <1>5, <2>1, <2>2
<1>6. ASSUME NEW q \in Senders, q # r,
             \/ LookUp(q) \/ RecordOutcome(q) \/ StatementFails(q) \/ LinkArrives(q)
             \/ ProviderFails(q) \/ LinkTimesOut(q) \/ \E l \in Links : Mint(q, l)
      PROVE  RequestMoves(r)
  <2>1. req'[r] = req[r]
    BY <1>0, <1>6 DEF LookUp, RecordOutcome, StatementFails, LinkArrives, ProviderFails, LinkTimesOut,
       AuditLinkFailed, Mint, Done, To
  <2>2. QED
    BY <2>1 DEF RequestMoves
<1>7. ASSUME NEW answer \in {"ok", "failed"}, Done(r, answer)
      PROVE  req'[r] = [req[r] EXCEPT !.at = "done", !.answer = answer]
  BY <1>0, <1>7 DEF Done
<1>8. ASSUME NEW at \in {"record"}, To(r, at) PROVE req'[r] = [req[r] EXCEPT !.at = at]
  BY <1>0, <1>8 DEF To
<1>9. CASE LookUp(r)
  <2>0. ~ req[r].asked /\ InFlight(r) /\ status' = status
    BY <1>0, <1>9 DEF LookUp, RequestInv, InFlight
  <2>1. CASE status \in {"none", "pending"} /\ Done(r, "failed")
    <3>1. Ends(r, "failed")
      BY <1>7, <2>0, <2>1 DEF Ends
    <3>2. QED
      BY <3>1 DEF RequestMoves
  <2>2. CASE status \in {"link_sent", "refused"} /\ Done(r, "ok")
    <3>1. Ends(r, "ok")
      BY <1>7, <2>0, <2>2 DEF Ends
    <3>2. QED
      BY <3>1 DEF RequestMoves
  <2>3. CASE status \in EndSessionAllowedFrom /\ req[r].outcome = "AGREED"
    <3>1. req' = [req EXCEPT ![r].at = "link", ![r].asked = ~ ContextEnded(r)]
      BY <1>9, <2>3 DEF LookUp, EndSessionAllowedFrom
    <3>2. PICK b \in BOOLEAN : b = ~ ContextEnded(r)
      BY DEF ContextEnded
    <3>3. req'[r] = [req[r] EXCEPT !.at = "link", !.asked = b]
      BY <1>0, <3>1, <3>2
    <3>4. QED
      BY <1>9, <2>3, <3>3 DEF LookUp, RequestMoves
  <2>4. CASE status \in EndSessionAllowedFrom /\ req[r].outcome # "AGREED"
    <3>1. To(r, "record")
      BY <1>9, <2>4 DEF LookUp, EndSessionAllowedFrom
    <3>2. QED
      BY <1>8, <1>9, <2>4, <3>1 DEF LookUp, RequestMoves
  <2>5. QED
    BY <1>9, <2>1, <2>2, <2>3, <2>4 DEF LookUp
<1>10. CASE LinkArrives(r)
  BY <1>8, <1>10 DEF LinkArrives, RequestMoves
<1>11. CASE \E l \in Links : Mint(r, l)
  <2>1. PICK l \in Links : Mint(r, l)
    BY <1>11
  <2>2. req[r].asked /\ req[r].link = Null /\ l \in made'
    BY <2>1, <1>6 DEF Mint
  <2>3. req' = [req EXCEPT ![r] = [req[r] EXCEPT !.link = l]]
    BY <1>0, <2>1 DEF Mint
  <2>4. req'[r] = [req[r] EXCEPT !.link = l]
    BY <1>0, <2>3
  <2>5. QED
    BY <2>2, <2>4 DEF RequestMoves
<1>12. CASE StatementFails(r)
  <2>1. faults'["store"] # 0
    BY <1>0, <1>12, FaultShows DEF StatementFails
  <2>2. Ends(r, "failed")
    BY <1>7, <1>12, <2>1 DEF StatementFails, Ends, InFlight
  <2>3. QED
    BY <2>2 DEF RequestMoves
<1>13. CASE ProviderFails(r) \/ LinkTimesOut(r)
  <2>1. faults'["store"] # 0 \/ "payment_link_failed" \in trail'
    BY <1>0, <1>13, FaultShows DEF ProviderFails, LinkTimesOut, AuditLinkFailed
  <2>2. Ends(r, "failed")
    BY <1>7, <1>13, <2>1 DEF ProviderFails, LinkTimesOut, AuditLinkFailed, Ends, InFlight
  <2>3. QED
    BY <2>2 DEF RequestMoves
<1>14. CASE RecordOutcome(r)
  <2>1. InFlight(r) /\ Done(r, "ok") /\ status \notin {"none", "pending"}
    BY <1>0, <1>14 DEF RecordOutcome, InFlight, RequestInv
  <2>2. /\ status' \in {"link_sent", "refused", "unclear"} /\ "call_ended" \in trail'
        /\ req[r].asked => status' \in {"link_sent", "refused"}
    <3>1. CASE status \in EndSessionAllowedFrom
      <4>1. req[r].outcome \in Outcomes /\ (req[r].asked => req[r].outcome = "AGREED")
        BY <1>0, <2>1 DEF RequestInv
      <4>2. /\ Becomes[req[r].outcome] \in {"link_sent", "refused", "unclear"}
            /\ Becomes["AGREED"] = "link_sent"
        BY <4>1 DEF Outcomes, Becomes
      <4>3. QED
        BY <1>14, <3>1, <4>1, <4>2 DEF RecordOutcome
    <3>2. CASE status \notin EndSessionAllowedFrom
      BY <1>0, <1>14, <2>1, <3>2 DEF RecordOutcome, RowType, RowInv, EndSessionAllowedFrom
    <3>3. QED
      BY <3>1, <3>2
  <2>3. Ends(r, "ok")
    BY <1>7, <2>1, <2>2 DEF Ends
  <2>4. QED
    BY <2>3 DEF RequestMoves
<1>15. QED
  BY <1>2, <1>3, <1>4, <1>5, <1>6, <1>9, <1>10, <1>11, <1>12, <1>13, <1>14 DEF Next, Timers

LEMMA NextRequestInv == LifecycleInv /\ [Next]_vars => \A r \in Senders : RequestInv(r)'
BY RowSteps, RequestSteps, MovedRequest

(***************************************************************************)
(* What the gateway believes.                                              *)
(***************************************************************************)
GatewayMoves ==
  \/ gw' = gw /\ assigner' = assigner
  \/ \E w \in 0 .. GatewayTimeout : gw' = [gw EXCEPT !.waited = w] /\ assigner' = assigner
  \/ gw.at = "start" /\ gw' = [gw EXCEPT !.at = "assigning"] /\ assigner' = "claim"
  \/ /\ gw.at = "assigning" /\ assigner' = assigner
     /\ \E answer \in Answers : /\ answer \in {"failed", assigner}
                               /\ gw' = [gw EXCEPT !.at = "call", !.assign = answer, !.waited = 0]
  \/ gw.at = "call" /\ gw.assign = "ok" /\ gw' = [gw EXCEPT !.at = "reporting"] /\ assigner' = assigner
  \/ gw.at = "call" /\ gw.assign # "ok" /\ gw' = [gw EXCEPT !.at = "over"] /\ assigner' = assigner
  \/ /\ gw.at = "reporting" /\ assigner' = assigner
     /\ \E answer \in {"ok", "failed"} :
          /\ answer = "failed" \/ answer = req["gateway"].answer
          /\ gw' = [gw EXCEPT !.at = "over", !.report = answer, !.waited = 0]
  \/ /\ gw' = gw /\ assigner \in {"claim", "audit"}
     /\ assigner' = "empty" => status = "none" /\ status' = "none"

\* The gateway hears the handlers' answers or gives up; the assigner answers that
\* nobody is due only when nobody is.
LEMMA GatewayStep == LifecycleInv /\ [Next]_vars => GatewayMoves
<1>. SUFFICES ASSUME LifecycleInv, [Next]_vars PROVE GatewayMoves
  OBVIOUS
<1>0. gw \in GatewayType /\ RequestInv("gateway")
  BY TypeParts DEF LifecycleInv, Senders
<1>1. CASE ResolveProfile
  BY <1>1 DEF ResolveProfile, GatewayMoves
<1>2. CASE HearAssignment
  BY <1>2 DEF HearAssignment, Assigned, GatewayMoves
<1>3. CASE HearReport
  <2>1. req["gateway"].answer \in {"ok", "failed"}
    BY <1>0, <1>3 DEF HearReport, RequestInv
  <2>2. QED
    BY <1>3, <2>1 DEF HearReport, Reported, GatewayMoves
<1>4. CASE GatewayTimesOut
  BY <1>4 DEF GatewayTimesOut, Assigned, Reported, Answers, GatewayMoves
<1>5. CASE Tick
  <2>1. CASE GatewayWaits
    <3>1. gw' = [gw EXCEPT !.waited = gw.waited + 1] /\ assigner' = assigner
      BY <1>5, <2>1 DEF Tick
    <3>2. gw.waited + 1 \in 0 .. GatewayTimeout
      BY <1>0, <1>5, <2>1, LifecycleAssumption DEF Tick, GatewayType
    <3>3. QED
      BY <3>1, <3>2 DEF GatewayMoves
  <2>2. CASE ~ GatewayWaits
    BY <1>5, <2>2 DEF Tick, GatewayMoves
  <2>3. QED
    BY <2>1, <2>2
<1>6. CASE Assigning
  BY <1>6 DEF Assigning, AssignNextPending, AuditAssigned, GatewayMoves
<1>7. CASE Crash
  BY <1>7 DEF Crash, GatewayMoves
<1>8. ASSUME NEW o \in Outcomes, EndSession(o) \/ OperatorEnds(o) PROVE GatewayMoves
  BY <1>8 DEF EndSession, OperatorEnds, GatewayMoves
<1>9. ASSUME NEW r \in Senders,
             \/ LookUp(r) \/ RecordOutcome(r) \/ StatementFails(r) \/ LinkArrives(r)
             \/ ProviderFails(r) \/ LinkTimesOut(r) \/ \E l \in Links : Mint(r, l)
      PROVE  GatewayMoves
  BY <1>9 DEF LookUp, RecordOutcome, StatementFails, LinkArrives, ProviderFails, LinkTimesOut, Mint,
     GatewayMoves
<1>10. CASE UNCHANGED vars
  BY <1>10 DEF vars, GatewayMoves
<1>11. QED
  BY <1>1, <1>2, <1>3, <1>4, <1>5, <1>6, <1>7, <1>8, <1>9, <1>10 DEF Next, Timers

LEMMA NextGatewayInv == LifecycleInv /\ [Next]_vars => GatewayInv'
<1>. SUFFICES ASSUME LifecycleInv, [Next]_vars PROVE GatewayInv'
  OBVIOUS
<1>. Null \notin Answers
  BY LifecycleAssumption
<1>0. /\ gw \in GatewayType /\ req["gateway"] \in RequestType /\ GatewayInv /\ RowMoves /\ GatewayMoves
      /\ RequestInv("gateway") /\ RequestMoves("gateway")
  BY TypeParts, RowSteps, GatewayStep, RequestSteps DEF LifecycleInv, Senders
<1>1. req["gateway"].answer = "ok" => req'["gateway"].answer = "ok"
  <2>. SUFFICES ASSUME req["gateway"].answer = "ok" PROVE req'["gateway"].answer = "ok"
    OBVIOUS
  <2>1. req["gateway"].at = "done"
    BY <1>0 DEF RequestInv, Answers
  <2>2. \/ req'["gateway"] = req["gateway"]
        \/ \E age \in 0 .. ProviderTimeout : req'["gateway"] = [req["gateway"] EXCEPT !.age = age]
        \/ \E l \in Links : req'["gateway"] = [req["gateway"] EXCEPT !.link = l]
    BY <1>0, <2>1 DEF RequestMoves, Starts, InFlight, Ends
  <2>3. QED
    BY <1>0, <2>2 DEF RequestType
<1>2. req["gateway"].at = "idle" => req'["gateway"].at = "idle" \/ gw'.at = "reporting"
  BY <1>0 DEF RequestMoves, Starts, RequestInv, RequestType, InFlight, Ends
<1>3. (gw'.at \in {"start", "assigning", "call"} => req'["gateway"].at = "idle")
  BY <1>0, <1>2 DEF GatewayMoves, GatewayInv, GatewayType
<1>4. assigner' = "empty" => status' = "none"
  BY <1>0 DEF GatewayMoves, GatewayInv, RowMoves, EndSessionAllowedFrom
<1>5. gw'.assign = "empty" => assigner' = "empty"
  BY <1>0 DEF GatewayMoves, GatewayInv, GatewayType, Answers
<1>6. gw'.report = "ok" => req'["gateway"].answer = "ok"
  BY <1>0, <1>1 DEF GatewayMoves, GatewayInv, GatewayType, Answers
<1>7. /\ gw'.at \in {"start", "assigning"} => gw'.assign = Null
      /\ gw'.at \in {"call", "reporting", "over"} => gw'.assign \in Answers
      /\ gw'.at = "over" /\ gw'.assign = "ok" => gw'.report \in {"ok", "failed"}
  BY <1>0 DEF GatewayMoves, GatewayInv, GatewayType, Answers
<1>8. QED
  BY <1>3, <1>4, <1>5, <1>6, <1>7 DEF GatewayInv

(***************************************************************************)
(* The links.                                                              *)
(***************************************************************************)
\* A link is new in the step in which a request gets it.
LEMMA NewLink ==
  ASSUME LifecycleInv, [Next]_vars, NEW l \in made', l \notin made
  PROVE  \E r \in Senders : req[r].asked /\ req'[r] = [req[r] EXCEPT !.link = l]
<1>0. req \in [Senders -> RequestType]
  BY TypeParts DEF LifecycleInv
<1>1. PICK r \in Senders : \E k \in Links : Mint(r, k)
  BY DEF Next, Timers, Tick, ResolveProfile, HearAssignment, HearReport, GatewayTimesOut, Assigning,
     AssignNextPending, AuditAssigned, Crash, EndSession, OperatorEnds, LookUp, RecordOutcome,
     StatementFails, LinkArrives, ProviderFails, LinkTimesOut, vars
<1>2. Mint(r, l)
  BY <1>1 DEF Mint
<1>3. req' = [req EXCEPT ![r] = [req[r] EXCEPT !.link = l]]
  BY <1>0, <1>2 DEF Mint
<1>4. QED
  BY <1>0, <1>2, <1>3 DEF Mint

\* A request keeps its link and goes on accounting for it.
LEMMA KeptLink ==
  ASSUME LifecycleInv, RowMoves, NEW r \in Senders, RequestMoves(r), RequestInv(r)',
         req[r].link # Null, Accounted(r), faults'["store"] = 0
  PROVE  req'[r].link = req[r].link /\ Accounted(r)'
<1>0. req[r] \in RequestType /\ RequestInv(r)
  BY TypeParts DEF LifecycleInv
<1>1. req'[r].link = req[r].link
  BY <1>0 DEF RequestMoves, Starts, Ends, RequestType, RequestInv
<1>2. req'[r].asked /\ req'[r].at \in {"lookup", "link", "record", "done"}
  BY <1>0 DEF RequestMoves, Starts, Ends, RequestType, RequestInv
<1>3. QED
  BY <1>1, <1>2 DEF RequestInv, Accounted, InFlight

LEMMA NextLinksAccounted == LifecycleInv /\ [Next]_vars => LinksAccounted'
<1>. SUFFICES ASSUME LifecycleInv, [Next]_vars PROVE LinksAccounted'
  OBVIOUS
<1>0. /\ RowMoves /\ LinksAccounted /\ made' \subseteq Links
      /\ \A r \in Senders : RequestMoves(r) /\ RequestInv(r)' /\ req[r] \in RequestType
  BY TypeParts, NextTypeOK, RowSteps, RequestSteps, NextRequestInv DEF LifecycleInv, TypeOK
<1>1. status' = "link_sent" => link' \in made'
  BY <1>0 DEF RowMoves, LinksAccounted
<1>2. ASSUME faults'["store"] = 0, NEW l \in made'
      PROVE  \E r \in Senders : req'[r].link = l /\ Accounted(r)'
  <2>0. l # Null
    BY <1>0, LifecycleAssumption
  <2>1. CASE l \notin made
    <3>1. PICK r \in Senders : req[r].asked /\ req'[r] = [req[r] EXCEPT !.link = l]
      BY <2>1, NewLink
    <3>2. req'[r].link = l /\ req'[r].asked
      BY <1>0, <3>1 DEF RequestType
    <3>3. req'[r].at \in {"link", "record", "done"}
      BY <1>0, <3>1, <3>2 DEF RequestType, RequestInv
    <3>4. QED
      BY <1>0, <1>2, <3>2, <3>3 DEF RequestInv, Accounted, InFlight
  <2>2. CASE l \in made
    <3>1. PICK r \in Senders : req[r].link = l /\ Accounted(r)
      BY <1>0, <1>2, <2>2 DEF RowMoves, LinksAccounted
    <3>2. QED
      BY <1>0, <1>2, <2>0, <3>1, KeptLink
  <2>3. QED
    BY <2>1, <2>2
<1>3. QED
  BY <1>1, <1>2 DEF LinksAccounted

(***************************************************************************)
(* The theorems.                                                           *)
(***************************************************************************)
LEMMA InitLifecycleInv == Init => LifecycleInv
<1>. SUFFICES ASSUME Init PROVE LifecycleInv
  OBVIOUS
<1>1. TypeOK
  BY InitTypeOK
<1>2. \A r \in Senders : req[r] = Idle
  BY DEF Init
<1>3. GatewayInv
  BY LifecycleAssumption DEF Init, GatewayInv, Senders, Idle, Answers
<1>4. \A r \in Senders : RequestInv(r)
  BY <1>2, LifecycleAssumption DEF RequestInv, InFlight, Idle, Answers
<1>5. RowInv /\ LinksAccounted
  BY DEF Init, RowInv, LinksAccounted
<1>6. QED
  BY <1>1, <1>3, <1>4, <1>5 DEF LifecycleInv

\* The invariant is inductive.
LEMMA InvAlways == Spec => []LifecycleInv
<1>1. LifecycleInv /\ [Next]_vars => LifecycleInv'
  BY NextTypeOK, NextGatewayInv, NextRowInv, NextRequestInv, NextLinksAccounted DEF LifecycleInv
<1>2. QED
  BY InitLifecycleInv, <1>1, PTL DEF Spec

\* The gateway's waits stay within its timeout, the provider's within its own, and
\* what each side holds of a call is of its kind.
THEOREM LifecycleTypeCorrect == Spec => []TypeOK
<1>1. LifecycleInv => TypeOK
  BY DEF LifecycleInv
<1>2. QED
  BY InvAlways, <1>1, PTL

\* A call that is over and whose customer is still active failed somewhere, and the
\* gateway knows it: it never takes such a call for unassigned or for reported
\* (resolveProfile and the teardown of StreamAudio in server.go, EndSession in
\* manager.go).
THEOREM NothingLostInSilence == Spec => []NoSilentLoss
<1>1. LifecycleInv => NoSilentLoss
  <2>1. "gateway" \in Senders
    BY DEF Senders
  <2>2. QED
    BY <2>1 DEF LifecycleInv, NoSilentLoss, GatewayInv, RequestInv, Answers
<1>2. QED
  BY InvAlways, <1>1, PTL

\* A session whose link was sent has one that exists at the provider, and while the
\* store does not fail every link belongs to a request that still carries it, gave it
\* up in the audit log, or found or left the contact settled (EndSession in manager.go, RecordOutcome in db.go).
THEOREM EveryLinkAccounted == Spec => []LinksAccounted
<1>1. LifecycleInv => LinksAccounted
  BY DEF LifecycleInv
<1>2. QED
  BY InvAlways, <1>1, PTL
=============================================================================
