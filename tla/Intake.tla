------------------------------- MODULE Intake -------------------------------
(***************************************************************************)
(* How recovery sessions come to be: campaigns an operator loads           *)
(* (CreateCampaign) and payment.failed events Razorpay delivers at least   *)
(* once (HandlePaymentFailed), with the payment.captured events that may   *)
(* overtake them.                                                          *)
(*                                                                         *)
(* Each statement is atomic (the store has one connection) and a handler   *)
(* is a sequence of statements; no transaction spans them, so a statement  *)
(* that fails, or a process that dies, leaves the earlier ones in place.   *)
(* Razorpay delivers an event again until it is answered 200, and may have *)
(* two deliveries under way at once.                                       *)
(***************************************************************************)
EXTENDS Naturals, Sequences, FiniteSets

CONSTANTS
  Campaigns,   \* campaign ids an operator may load, one request each
  Payments,    \* failed payments of Razorpay
  Unnamed,     \* payments whose event carries no payment id
  Batches,     \* lists of accounts: a payment id, or Null when not given
  Handlers,    \* requests served at the same time, a goroutine each
  MaxFaults,   \* statements that fail and processes that die (bounds failures)
  Null         \* SQL NULL, and an unset field of a request

ASSUME IntakeAssumption ==
  /\ Unnamed \subseteq Payments
  /\ Batches \subseteq Seq(Payments \cup {Null}) \ {<<>>}
  /\ MaxFaults \in Nat
  /\ Null \notin Campaigns \cup Payments
  /\ IsFiniteSet(Campaigns) /\ IsFiniteSet(Handlers)

VARIABLES
  campaign,   \* campaigns
  rows,       \* recovery_sessions in order of insertion, with their audit rows
  req,        \* the request each handler serves
  fired,      \* payments that failed: Razorpay has an event to deliver
  captured,   \* payments captured since, by another attempt
  acked,      \* payment.failed events answered 200, never delivered again
  confirmed,  \* payment.captured events answered 200
  torn,       \* campaigns some request on which ended in an error
  faults      \* failures so far

vars == <<campaign, rows, req, fired, captured, acked, confirmed, torn, faults>>

Row == [camp: Campaigns, payment: Payments \cup {Null}, recovered: BOOLEAN,
        audit: SUBSET {"session_created", "webhook_received"}]

Campaign == [status: {"none", "active", "paused"}, total: Nat, born: Nat]

PCs == {"idle", "load", "audit_loaded", "dedupe", "insert", "increment",
        "audit_webhook", "audit_created"}

Request == [pc: PCs, camp: Campaigns \cup {Null}, payment: Payments \cup {Null},
            accounts: Seq(Payments \cup {Null}), sess: Nat]

Idle == [pc |-> "idle", camp |-> Null, payment |-> Null, accounts |-> <<>>, sess |-> 0]

TypeOK ==
  /\ campaign \in [Campaigns -> Campaign]
  /\ rows \in Seq(Row)
  /\ req \in [Handlers -> Request]
  /\ \A r \in Handlers : req[r].sess \in 0 .. Len(rows)
  /\ fired \subseteq Payments /\ captured \subseteq fired
  /\ acked \subseteq fired /\ confirmed \subseteq captured
  /\ torn \subseteq Campaigns
  /\ faults \in 0 .. MaxFaults

Init ==
  /\ campaign = [c \in Campaigns |-> [status |-> "none", total |-> 0, born |-> 0]]
  /\ rows = <<>>
  /\ req = [r \in Handlers |-> Idle]
  /\ fired = {} /\ captured = {} /\ acked = {} /\ confirmed = {}
  /\ torn = {}
  /\ faults = 0

Step(r, to) == req' = [req EXCEPT ![r] = to]

Begin(r, to) == req[r].pc = "idle" /\ Step(r, to)

\* The handler answers 500: an event is delivered again later.
Fails(r) == Step(r, Idle) /\ torn' = torn \cup ({req[r].camp} \ {Null})

(***************************************************************************)
(* Statements.                                                             *)
(***************************************************************************)
Born == Cardinality({c \in Campaigns : campaign[c].status # "none"})

MostRecentActive(c) ==
  /\ campaign[c].status = "active"
  /\ \A d \in Campaigns : campaign[d].status = "active" => campaign[d].born <= campaign[c].born

NoneActive == \A c \in Campaigns : campaign[c].status # "active"

\* A bug: the partial unique index on razorpay_payment_id is missing.
NoIndex(p) == TRUE

PaymentFree(p) == p # Null => \A i \in 1 .. Len(rows) : rows[i].payment # p

\* GetSessionByRazorpayPaymentID finds a row: none has an unset id.
Known(p) == \E i \in 1 .. Len(rows) : rows[i].payment = p

InsertRow(c, p) ==
  rows' = Append(rows, [camp |-> c, payment |-> p, recovered |-> FALSE, audit |-> {}])

InsertAuditLog(i, event) == rows' = [rows EXCEPT ![i].audit = @ \cup {event}]

NullIfEmpty(p) == IF p \in Unnamed THEN Null ELSE p

(***************************************************************************)
(* POST /campaigns: the campaign with its total, then account by account.  *)
(***************************************************************************)
CreateCampaign(r, c, accounts) ==
  /\ campaign[c].status = "none"
  /\ campaign' = [campaign EXCEPT ![c] =
                    [status |-> "active", total |-> Len(accounts), born |-> Born]]
  /\ Begin(r, [Idle EXCEPT !.pc = "load", !.camp = c, !.accounts = accounts])
  /\ UNCHANGED <<rows, fired, captured, acked, confirmed, torn, faults>>

LoadAccount(r) ==
  /\ req[r].pc = "load"
  /\ LET p == Head(req[r].accounts) IN
       IF PaymentFree(p)
       THEN /\ InsertRow(req[r].camp, p)
            /\ Step(r, [req[r] EXCEPT !.pc = "audit_loaded", !.sess = Len(rows) + 1])
            /\ UNCHANGED torn
       ELSE Fails(r) /\ UNCHANGED rows
  /\ UNCHANGED <<campaign, fired, captured, acked, confirmed, faults>>

AuditLoaded(r) ==
  /\ req[r].pc = "audit_loaded"
  /\ InsertAuditLog(req[r].sess, "session_created")
  /\ LET left == Tail(req[r].accounts) IN
       Step(r, IF left = <<>> THEN Idle
               ELSE [req[r] EXCEPT !.pc = "load", !.accounts = left])
  /\ UNCHANGED <<campaign, fired, captured, acked, confirmed, torn, faults>>

(***************************************************************************)
(* POST /webhooks/razorpay, payment.failed.                                *)
(***************************************************************************)
\* A bug: an event that meets no active campaign is answered 500.
RetryUntilLoaded(r, p) == FALSE /\ Begin(r, Idle)

\* With no active campaign the event is acknowledged and dropped.
Drop(r, p) ==
  /\ NoneActive
  /\ acked' = acked \cup {p}
  /\ Begin(r, Idle)
  /\ UNCHANGED <<campaign, rows, fired, captured, confirmed, torn, faults>>

HandlePaymentFailed(r, p) ==
  /\ p \in fired \ acked
  /\ \/ Drop(r, p)
     \/ \E c \in Campaigns :
          /\ MostRecentActive(c)
          /\ Begin(r, [Idle EXCEPT !.pc = "dedupe", !.camp = c, !.payment = p])
          /\ UNCHANGED <<campaign, rows, fired, captured, acked, confirmed, torn, faults>>

\* A bug: the event is acknowledged by the id the row stores, not its own.
AckStored(r) == acked' = acked \cup {NullIfEmpty(req[r].payment)} /\ Step(r, Idle)

Ack(r) == acked' = acked \cup {req[r].payment} /\ Step(r, Idle)

\* A bug: an event that passes the check is answered 200 at once, and its customer
\* queued afterwards.
AnswerFirst(r) ==
  /\ req[r].pc = "dedupe"
  /\ acked' = acked \cup {req[r].payment}
  /\ Step(r, IF req[r].payment \notin Unnamed /\ Known(req[r].payment)
             THEN Idle ELSE [req[r] EXCEPT !.pc = "insert"])
  /\ UNCHANGED <<campaign, rows, fired, captured, confirmed, torn, faults>>

\* The check that keeps a redelivered event from queueing the customer again.
Dedupe(r) ==
  /\ req[r].pc = "dedupe"
  /\ IF req[r].payment \notin Unnamed /\ Known(req[r].payment)
       THEN Ack(r)
       ELSE Step(r, [req[r] EXCEPT !.pc = "insert"]) /\ UNCHANGED acked
  /\ UNCHANGED <<campaign, rows, fired, captured, confirmed, torn, faults>>

InsertSession(r) ==
  /\ req[r].pc = "insert"
  /\ LET p == NullIfEmpty(req[r].payment) IN
       IF PaymentFree(p)
       THEN /\ InsertRow(req[r].camp, p)
            /\ Step(r, [req[r] EXCEPT !.pc = "increment", !.sess = Len(rows) + 1])
            /\ UNCHANGED torn
       ELSE Fails(r) /\ UNCHANGED rows
  /\ UNCHANGED <<campaign, fired, captured, acked, confirmed, faults>>

\* A bug: the total is recomputed from the rows, some of which are still to come.
Recount(r) ==
  /\ req[r].pc = "increment"
  /\ campaign' = [campaign EXCEPT ![req[r].camp].total =
        Cardinality({i \in 1 .. Len(rows) : rows[i].camp = req[r].camp})]
  /\ Step(r, [req[r] EXCEPT !.pc = "audit_webhook"])
  /\ UNCHANGED <<rows, fired, captured, acked, confirmed, torn, faults>>

IncrementCampaignTotal(r) ==
  /\ req[r].pc = "increment"
  /\ campaign' = [campaign EXCEPT ![req[r].camp].total = @ + 1]
  /\ Step(r, [req[r] EXCEPT !.pc = "audit_webhook"])
  /\ UNCHANGED <<rows, fired, captured, acked, confirmed, torn, faults>>

AuditWebhook(r) ==
  /\ req[r].pc = "audit_webhook"
  /\ InsertAuditLog(req[r].sess, "webhook_received")
  /\ Step(r, [req[r] EXCEPT !.pc = "audit_created"])
  /\ UNCHANGED <<campaign, fired, captured, acked, confirmed, torn, faults>>

AuditCreated(r) ==
  /\ req[r].pc = "audit_created"
  /\ InsertAuditLog(req[r].sess, "session_created")
  /\ Ack(r)
  /\ UNCHANGED <<campaign, fired, captured, confirmed, torn, faults>>

(***************************************************************************)
(* payment.captured, by the failed payment's id: its session recovers, or  *)
(* no session has the payment and the event is acknowledged.  What happens *)
(* between the statements of a recovery is the subject of module Recovery. *)
(***************************************************************************)
HandlePaymentCaptured(r, p) ==
  /\ p \in captured \ confirmed
  /\ req[r].pc = "idle"
  /\ rows' = [i \in 1 .. Len(rows) |->
                [rows[i] EXCEPT !.recovered = @ \/ rows[i].payment = p]]
  /\ confirmed' = confirmed \cup {p}
  /\ UNCHANGED <<campaign, req, fired, captured, acked, torn, faults>>

(***************************************************************************)
(* Everything around the handlers.                                         *)
(***************************************************************************)
Abort(r) ==
  /\ req[r].pc # "idle"
  /\ faults < MaxFaults
  /\ faults' = faults + 1
  /\ Fails(r)
  /\ UNCHANGED <<campaign, rows, fired, captured, acked, confirmed>>

PaymentFails(p) ==
  /\ fired' = fired \cup {p}
  /\ UNCHANGED <<campaign, rows, req, captured, acked, confirmed, torn, faults>>

\* The capture of a payment without an id matches no row and changes nothing.
PaymentCaptured(p) ==
  /\ p \in fired \ Unnamed
  /\ captured' = captured \cup {p}
  /\ UNCHANGED <<campaign, rows, req, fired, acked, confirmed, torn, faults>>

PauseCampaign(c) ==
  /\ campaign[c].status = "active"
  /\ campaign' = [campaign EXCEPT ![c].status = "paused"]
  /\ UNCHANGED <<rows, req, fired, captured, acked, confirmed, torn, faults>>

\* The next statement of the request handler r serves.
Continue(r) ==
  \/ LoadAccount(r)
  \/ AuditLoaded(r)
  \/ Dedupe(r)
  \/ InsertSession(r)
  \/ IncrementCampaignTotal(r)
  \/ AuditWebhook(r)
  \/ AuditCreated(r)

Deliver(p) == \E r \in Handlers : HandlePaymentFailed(r, p)

Next ==
  \/ \E r \in Handlers :
       \/ \E c \in Campaigns, accounts \in Batches : CreateCampaign(r, c, accounts)
       \/ Continue(r)
       \/ \E p \in Payments : HandlePaymentCaptured(r, p)
       \/ Abort(r)
  \/ \E p \in Payments : Deliver(p) \/ PaymentFails(p) \/ PaymentCaptured(p)
  \/ \E c \in Campaigns : PauseCampaign(c)

\* A goroutine that can run does, and Razorpay keeps delivering an event that
\* was not answered 200; a handler is free for it again and again.
Fairness ==
  /\ \A r \in Handlers : WF_vars(Continue(r))
  /\ \A p \in Payments : SF_vars(Deliver(p))

Spec == Init /\ [][Next]_vars /\ Fairness

(***************************************************************************)
(* Properties.                                                             *)
(***************************************************************************)
RowsOf(c) == {i \in 1 .. Len(rows) : rows[i].camp = c}

AtWork(c) == \E r \in Handlers : req[r].camp = c

\* However deliveries race, fail and repeat, and whatever operators load, a
\* failed payment that has an id queues its customer once.
OneSessionPerPayment ==
  \A i, j \in 1 .. Len(rows) : rows[i].payment # Null /\ rows[i].payment = rows[j].payment
                               => i = j

\* The total of a campaign counts its sessions exactly, once the requests on it
\* are done, unless one of them ended in an error between two statements.
TotalExactUnlessTorn ==
  \A c \in Campaigns :
    ~ AtWork(c) /\ c \notin torn => campaign[c].total = Cardinality(RowsOf(c))

\* An event answered 200 while a campaign has been active throughout left its
\* customer in the queue: no delivery is acknowledged on another's promise.
AckedIsQueued ==
  [][\A p \in Payments \ Unnamed :
       p \in acked' \ acked => NoneActive \/ \E i \in 1 .. Len(rows) : rows[i].payment = p]_vars

\* Every failed payment is eventually queued or dropped, through retries.
EveryFailureSettled == \A p \in Payments : p \in fired ~> p \in acked
=============================================================================
