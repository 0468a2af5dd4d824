------------------------------ MODULE Recovery ------------------------------
(***************************************************************************)
(* The contact lifecycle of recovery sessions in the recovery              *)
(* orchestrator: internal/store/db.go over SQLite, the campaign manager    *)
(* that sequences its statements, and the HTTP handlers that run them.     *)
(*                                                                         *)
(* The store opens the database with one connection, so every statement    *)
(* (and every transaction) is atomic and they are serialised; a handler    *)
(* is a sequence of them, and handlers of concurrent requests interleave   *)
(* between statements.  A request is therefore a record with a control     *)
(* state "pc", held by the handler that serves it; its first action runs   *)
(* its first statement.  A request may end between any two statements      *)
(* (Abort): a statement returned an error, the context was cancelled, or   *)
(* the process died.  Requests that read and return without changing       *)
(* anything (no session is due, none is bound to the call, the outcome is  *)
(* already recorded at the first read) are stuttering steps and have no    *)
(* action.                                                                 *)
(*                                                                         *)
(* Time is counted in ticks of a fraction of the 24-hour cooldown.  The    *)
(* sessions of one active campaign are already loaded: their creation is   *)
(* the subject of module Intake.                                           *)
(***************************************************************************)
EXTENDS Integers, FiniteSets

CONSTANTS
  Sessions,             \* rows of recovery_sessions
  Calls,                \* call_session_id values the gateway and operators use
  Links,                \* payment link ids Razorpay may generate
  Handlers,             \* requests served at the same time, a goroutine each
  MaxRequests,          \* requests served in all (bounds behaviours)
  PromiseDates,         \* promise dates reported: a tick, or Null (unparseable)
  HandEdited,           \* sessions whose timer an operator moves by hand
  MaxContactAttempts,   \* recovery_sessions.max_contact_attempts
  FollowUpCooldown,     \* campaign.followUpCooldown, in ticks
  LinkValidity,         \* razorpay.linkValidity, in ticks
  Horizon,              \* last tick of the clock (bounds behaviours)
  Null                  \* SQL NULL, and an unset field of a request

ASSUME RecoveryAssumption ==
  /\ MaxContactAttempts \in Nat \ {0}
  /\ FollowUpCooldown \in Nat /\ LinkValidity \in Nat
  /\ LinkValidity <= FollowUpCooldown
  /\ Horizon \in Nat /\ MaxRequests \in Nat
  /\ PromiseDates \subseteq Nat \cup {Null}
  /\ HandEdited \subseteq Sessions
  /\ Null \notin Nat \cup Sessions \cup Calls \cup Links

VARIABLES
  now,      \* the wall clock, in ticks
  row,      \* recovery_sessions
  audit,    \* audit_log, as the number of rows of each type per session
  plink,    \* payment links at Razorpay
  req,      \* the request each handler serves
  served,   \* number of requests begun
  acked     \* payment events answered 200, never delivered again

vars == <<now, row, audit, plink, req, served, acked>>

(***************************************************************************)
(* Types.                                                                  *)
(***************************************************************************)
Statuses == {"pending", "active", "link_sent", "promised",
             "refused", "unclear", "recovered", "failed"}

EventTypes == {"session_assigned", "call_ended", "payment_link_sent",
               "payment_link_failed", "promise_logged", "stopped_refused",
               "stopped_max_attempts", "payment_captured"}

Row == [status: Statuses, call: Calls \cup {Null},
        attempts: 0 .. MaxContactAttempts,
        next: Nat \cup {Null}, link: Links \cup {Null}]

OutcomeWrite == [status: {"link_sent", "promised", "refused", "failed", "unclear"},
                 next: Nat \cup {Null}, link: Links \cup {Null}]

\* A payment event names a link (payment_link.paid) or, through the failed
\* payment's id, a session (payment.captured).
PaymentEvents == [kind: {"link_paid"}, of: Links] \cup [kind: {"captured"}, of: Sessions]

PCs == {"idle", "audit_assigned", "create_link", "record", "mark", "audit_captured"}

Request == [pc: PCs, sess: Sessions \cup {Null}, call: Calls \cup {Null},
            seen: Statuses \cup {Null}, write: OutcomeWrite \cup {Null},
            event: PaymentEvents \cup {Null}]

Idle == [pc |-> "idle", sess |-> Null, call |-> Null, seen |-> Null,
         write |-> Null, event |-> Null]

NoLink == [state |-> "none", expires |-> 0, sess |-> Null]
PLink == [state: {"none", "live", "paid"}, expires: Nat, sess: Sessions \cup {Null}]

TypeOK ==
  /\ now \in Nat
  /\ row \in [Sessions -> Row]
  /\ audit \in [Sessions -> [EventTypes -> Nat]]
  /\ plink \in [Links -> PLink]
  /\ req \in [Handlers -> Request]
  /\ served \in Nat
  /\ acked \subseteq PaymentEvents

Init ==
  /\ now = 0
  /\ row = [s \in Sessions |-> [status |-> "pending", call |-> Null,
                                attempts |-> 0, next |-> 0, link |-> Null]]
  /\ audit = [s \in Sessions |-> [e \in EventTypes |-> 0]]
  /\ plink = [l \in Links |-> NoLink]
  /\ req = [r \in Handlers |-> Idle]
  /\ served = 0
  /\ acked = {}

(***************************************************************************)
(* The scheduling predicates of store.go, shared by assignment and queue.  *)
(***************************************************************************)
\* A bug: nothing counts the attempts made.
NoBudget(s) ==
  /\ row[s].next # Null
  /\ row[s].status \in {"pending", "unclear", "link_sent", "promised"}

\* A bug: the status list, redundant while every timer is right, is dropped.
TimerDecides(s) ==
  /\ row[s].next # Null
  /\ row[s].attempts < MaxContactAttempts

StillContactable(s) ==
  /\ row[s].next # Null
  /\ row[s].attempts < MaxContactAttempts
  /\ row[s].status \in {"pending", "unclear", "link_sent", "promised"}

EligibleNow(s) == StillContactable(s) /\ row[s].next <= now

LongestWaiting(s) ==
  EligibleNow(s) /\ \A t \in Sessions : EligibleNow(t) => row[s].next <= row[t].next

(***************************************************************************)
(* Audit rows, appended and never changed.                                 *)
(***************************************************************************)
Log(s, events) ==
  audit' = [audit EXCEPT ![s] =
              [e \in EventTypes |-> IF e \in events THEN audit[s][e] + 1 ELSE audit[s][e]]]

(***************************************************************************)
(* POST /calls/assign: AssignNextPending, then the session_assigned row.   *)
(***************************************************************************)
CallIsFree(c, s) == \A t \in Sessions \ {s} : row[t].call # c

\* Handler r begins a request, whose first statement leaves it in state "begun".
Begin(r, begun) ==
  /\ req[r].pc = "idle"
  /\ served < MaxRequests
  /\ served' = served + 1
  /\ req' = [req EXCEPT ![r] = begun]

\* Handler r answers its request.
Answer(r) ==
  /\ req' = [req EXCEPT ![r] = Idle]
  /\ UNCHANGED served

AssignNextPending(r, c, s) ==
  /\ LongestWaiting(s)
  /\ CallIsFree(c, s)
  /\ row' = [row EXCEPT ![s].status = "active", ![s].call = c,
                        ![s].attempts = @ + 1]
  /\ Begin(r, [Idle EXCEPT !.pc = "audit_assigned", !.sess = s])
  /\ UNCHANGED <<now, audit, plink, acked>>

AuditAssigned(r) ==
  /\ req[r].pc = "audit_assigned"
  /\ Log(req[r].sess, {"session_assigned"})
  /\ Answer(r)
  /\ UNCHANGED <<now, row, plink, acked>>

(***************************************************************************)
(* POST /calls/{call}/end: read the session by call, create the payment    *)
(* link when the customer agreed, then record the outcome if the session   *)
(* is still in a status an outcome may be recorded from.                   *)
(***************************************************************************)
EndSessionAllowedFrom == {"active", "unclear"}

\* A bug: the follow-up is due before the link of this call has expired.
DueAtOnce == now

FollowUp == now + FollowUpCooldown

PromisedFollowUp(date) ==
  IF date = Null THEN FollowUp
  ELSE IF date < now THEN now ELSE date

\* buildOutcomeWrite: decided from the row as it was read, never again.
BuildOutcomeWrite(s, outcome, date, link) ==
  CASE outcome = "AGREED" ->
         [status |-> "link_sent", next |-> FollowUp, link |-> link]
    [] outcome = "PROMISED" ->
         [status |-> "promised", next |-> PromisedFollowUp(date), link |-> Null]
    [] outcome = "REFUSED" ->
         [status |-> "refused", next |-> Null, link |-> Null]
    [] outcome = "UNCLEAR" /\ row[s].attempts >= MaxContactAttempts ->
         [status |-> "failed", next |-> Null, link |-> Null]
    [] OTHER ->
         [status |-> "unclear", next |-> FollowUp, link |-> Null]

OutcomeEvents(status) ==
  {"call_ended"} \cup
  CASE status = "link_sent" -> {"payment_link_sent"}
    [] status = "promised" -> {"promise_logged"}
    [] status = "refused" -> {"stopped_refused"}
    [] status = "failed" -> {"stopped_max_attempts"}
    [] OTHER -> {}

\* The outcome and the date of it, when one is reported.
Reports == [outcome: {"AGREED", "REFUSED", "UNCLEAR"}, date: {Null}]
             \cup [outcome: {"PROMISED"}, date: PromiseDates]

EndSession(r, c, report) ==
  /\ \E s \in Sessions :
       /\ row[s].call = c
       /\ row[s].status \in EndSessionAllowedFrom
       /\ LET read == [Idle EXCEPT !.sess = s, !.call = c, !.seen = row[s].status] IN
            IF report.outcome = "AGREED"
            THEN Begin(r, [read EXCEPT !.pc = "create_link"])
            ELSE Begin(r, [read EXCEPT !.pc = "record",
                    !.write = BuildOutcomeWrite(s, report.outcome, report.date, Null)])
  /\ UNCHANGED <<now, row, audit, plink, acked>>

\* Razorpay mints link l with an expiry the request carries.
Mint(l, s) ==
  /\ plink[l].state = "none"
  /\ plink' = [plink EXCEPT ![l] = [state |-> "live", expires |-> now + LinkValidity,
                                    sess |-> s]]

CreatePaymentLink(r, l) ==
  /\ req[r].pc = "create_link"
  /\ Mint(l, req[r].sess)
  /\ req' = [req EXCEPT ![r].pc = "record",
                        ![r].write = BuildOutcomeWrite(req[r].sess, "AGREED", Null, l)]
  /\ UNCHANGED <<now, row, audit, served, acked>>

\* An error or a timeout: the provider may have created the link all the same.
PaymentLinkFails(r) ==
  /\ req[r].pc = "create_link"
  /\ UNCHANGED plink \/ \E l \in Links : Mint(l, req[r].sess)
  /\ Log(req[r].sess, {"payment_link_failed"})
  /\ Answer(r)
  /\ UNCHANGED <<now, row, acked>>

ApplyOutcome(s, write) ==
  /\ row' = [row EXCEPT ![s].status = write.status, ![s].next = write.next,
                        ![s].link = IF write.link = Null THEN @ ELSE write.link]
  /\ Log(s, OutcomeEvents(write.status))

\* A bug: the status checked before the provider was called is trusted.
TrustTheFirstRead(s) == TRUE

OutcomeRecordable(s) == row[s].status \in EndSessionAllowedFrom

\* A bug: the audit rows are written outside the transaction, before the check.
LogThenRecord(r) ==
  /\ req[r].pc = "record"
  /\ LET s == req[r].sess IN
       /\ Log(s, OutcomeEvents(req[r].write.status))
       /\ IF OutcomeRecordable(s)
            THEN row' = [row EXCEPT ![s].status = req[r].write.status]
            ELSE UNCHANGED row
  /\ Answer(r)
  /\ UNCHANGED <<now, plink, acked>>

RecordOutcome(r) ==
  /\ req[r].pc = "record"
  /\ IF OutcomeRecordable(req[r].sess)
       THEN ApplyOutcome(req[r].sess, req[r].write)
       ELSE UNCHANGED <<row, audit>>
  /\ Answer(r)
  /\ UNCHANGED <<now, plink, acked>>

(***************************************************************************)
(* POST /webhooks/razorpay, payment_link.paid and payment.captured: find   *)
(* the session, MarkRecovered, then the payment_captured row.  The event   *)
(* is acknowledged when the handler ends without an error.                 *)
(***************************************************************************)
Paid(l) == [kind |-> "link_paid", of |-> l]
Captured(s) == [kind |-> "captured", of |-> s]

FindSession(r, s, event) ==
  /\ event \notin acked
  /\ Begin(r, [Idle EXCEPT !.pc = "mark", !.sess = s, !.event = event])
  /\ UNCHANGED <<now, row, audit, plink, acked>>

HandlePaymentCaptured(r, s) == FindSession(r, s, Captured(s))

HandlePaymentLinkPaid(r, l) ==
  /\ plink[l].state = "paid"
  /\ \E s \in Sessions : row[s].link = l /\ FindSession(r, s, Paid(l))

\* ErrSessionNotFound: no row carries the link, and the event is acknowledged.
LinkUnknown(r, l) ==
  /\ plink[l].state = "paid"
  /\ \A s \in Sessions : row[s].link # l
  /\ acked' = acked \cup {Paid(l)}
  /\ Begin(r, Idle)
  /\ UNCHANGED <<now, row, audit, plink>>

\* A bug: whether this delivery is the first is not decided by the UPDATE.
EveryDeliveryWins(s) == TRUE

FirstToRecover(s) == row[s].status # "recovered"

MarkRecovered(r) ==
  /\ req[r].pc = "mark"
  /\ LET s == req[r].sess IN
       IF FirstToRecover(s)
       THEN /\ row' = [row EXCEPT ![s].status = "recovered", ![s].next = Null]
            /\ req' = [req EXCEPT ![r].pc = "audit_captured"]
            /\ UNCHANGED <<served, acked>>
       ELSE /\ Answer(r)
            /\ acked' = acked \cup {req[r].event}
            /\ UNCHANGED row
  /\ UNCHANGED <<now, audit, plink>>

AuditCaptured(r) ==
  /\ req[r].pc = "audit_captured"
  /\ Log(req[r].sess, {"payment_captured"})
  /\ acked' = acked \cup {req[r].event}
  /\ Answer(r)
  /\ UNCHANGED <<now, row, plink>>

(***************************************************************************)
(* Everything around the handlers.                                         *)
(***************************************************************************)
Abort(r) ==
  /\ req[r].pc # "idle"
  /\ Answer(r)
  /\ UNCHANGED <<now, row, audit, plink, acked>>

\* Notification is off, so a customer pays a link somebody read off the session.
CustomerPays(l) ==
  /\ plink[l].state = "live"
  /\ now < plink[l].expires
  /\ \E s \in Sessions : row[s].link = l
  /\ plink' = [plink EXCEPT ![l].state = "paid"]
  /\ UNCHANGED <<now, row, audit, req, served, acked>>

SetNextEligibleAt(s, at) ==
  /\ row' = [row EXCEPT ![s].next = at]
  /\ UNCHANGED <<now, audit, plink, req, served, acked>>

Tick ==
  /\ now < Horizon
  /\ now' = now + 1
  /\ UNCHANGED <<row, audit, plink, req, served, acked>>

Handle(r) ==
  \/ \E c \in Calls, s \in Sessions : AssignNextPending(r, c, s)
  \/ AuditAssigned(r)
  \/ \E c \in Calls, report \in Reports : EndSession(r, c, report)
  \/ \E l \in Links : CreatePaymentLink(r, l)
  \/ PaymentLinkFails(r)
  \/ RecordOutcome(r)
  \/ \E s \in Sessions : HandlePaymentCaptured(r, s)
  \/ \E l \in Links : HandlePaymentLinkPaid(r, l)
  \/ \E l \in Links : LinkUnknown(r, l)
  \/ MarkRecovered(r)
  \/ AuditCaptured(r)
  \/ Abort(r)

Environment ==
  \/ \E l \in Links : CustomerPays(l)
  \/ \E s \in HandEdited, at \in 0 .. Horizon : SetNextEligibleAt(s, at)
  \/ Tick

Next == (\E r \in Handlers : Handle(r)) \/ Environment

Spec == Init /\ [][Next]_vars

(***************************************************************************)
(* Safety.                                                                 *)
(***************************************************************************)
Settled(s) == audit[s]["payment_link_sent"] + audit[s]["promise_logged"]
                + audit[s]["stopped_refused"] + audit[s]["stopped_max_attempts"]

\* One contact has one settling outcome: requests racing to end a call, or an
\* operator completing it by hand, record at most one link, promise, refusal
\* or stop for each call made, and none for a call still open.
OneOutcomePerContact ==
  \A s \in Sessions :
    /\ Settled(s) <= row[s].attempts
    /\ row[s].status \in EndSessionAllowedFrom => Settled(s) < row[s].attempts

\* The confirmed-recovery metric counts payment_captured rows: concurrent or
\* repeated deliveries of payment events never write a second one, and only a
\* recovered session has one.
CapturedOnce ==
  \A s \in Sessions :
    /\ audit[s]["payment_captured"] <= 1
    /\ audit[s]["payment_captured"] = 1 => row[s].status = "recovered"

\* A payment event answered 200 is never sent again: by then its session has
\* recovered, and no outcome still under way takes that back.  The one event that
\* is acknowledged in vain names a link a later AGREED of the session replaced.
AckedIsRecovered ==
  /\ \A s \in Sessions : Captured(s) \in acked => row[s].status = "recovered"
  /\ \A l \in Links : Paid(l) \in acked =>
       row[plink[l].sess].status = "recovered" \/ row[plink[l].sess].link # l

\* The follow-up call never reaches a customer whose recorded payment link can
\* still be paid, however the requests of the earlier call interleaved.  It
\* says nothing of sessions whose timer an operator moved.
NoCallWhileLinkLive ==
  \A s \in Sessions \ HandEdited :
    row[s].status = "active" /\ row[s].link # Null => plink[row[s].link].expires <= now

\* The audit trail never disagrees with the state it audits: a stop, a refusal
\* or a link is on the row exactly when it is in the trail, a payment aside.
TrailMatchesStatus ==
  \A s \in Sessions :
    /\ row[s].status = "refused" => audit[s]["stopped_refused"] = 1
    /\ row[s].status = "failed" => audit[s]["stopped_max_attempts"] = 1
    /\ row[s].status = "promised" => audit[s]["promise_logged"] > 0
    /\ row[s].status # "recovered" =>
         /\ audit[s]["stopped_refused"] > 0 => row[s].status = "refused"
         /\ audit[s]["stopped_max_attempts"] > 0 => row[s].status = "failed"
    /\ row[s].link # Null <=> audit[s]["payment_link_sent"] > 0

\* The whole store, its racing handlers and its timers implement the policy the
\* customer is promised, hand-edited timers included.
PhaseOf(status) ==
  CASE status \in {"pending", "link_sent", "promised"} -> "waiting"
    [] status = "active" -> "calling"
    [] status = "unclear" -> "undecided"
    [] status \in {"refused", "failed"} -> "stopped"
    [] status = "recovered" -> "paid"

Policy == INSTANCE ContactPolicy
            WITH phase <- [s \in Sessions |-> PhaseOf(row[s].status)],
                 contacts <- [s \in Sessions |-> row[s].attempts]

ImplementsPolicy == Policy!Spec

(***************************************************************************)
(* What a comment of the code says and the code does not do.               *)
(***************************************************************************)
\* Of two requests racing to end a call the loser, which read the session
\* before the winner moved it, is rejected.
RaceLoserRejected ==
  [][\A r \in Handlers :
       RecordOutcome(r) /\ row' # row => row[req[r].sess].status = req[r].seen]_vars
=============================================================================
