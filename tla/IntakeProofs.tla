--------------------------- MODULE IntakeProofs ---------------------------
(***************************************************************************)
(* Proofs about module Intake for all finite sets of campaigns and of      *)
(* handlers, any payments, any batches and any number of failures.         *)
(***************************************************************************)
EXTENDS Intake, SequenceTheorems, FiniteSetTheorems, TLAPS

Accounts == Seq(Payments \cup {Null})

(***************************************************************************)
(* Type correctness.                                                       *)
(***************************************************************************)
\* What a request knows at each of its statements: its campaign, which exists; the
\* accounts still to load; the event it serves; the row it audits.
RequestOK(r) ==
  /\ req[r].pc = "idle" => req[r].camp = Null
  /\ req[r].pc # "idle" => req[r].camp \in Campaigns /\ campaign[req[r].camp].status # "none"
  /\ req[r].pc \in {"load", "audit_loaded"} => req[r].accounts # <<>>
  /\ req[r].pc \in {"dedupe", "insert", "increment", "audit_webhook", "audit_created"} =>
       req[r].payment \in fired
  /\ req[r].pc \in {"audit_loaded", "increment", "audit_webhook", "audit_created"} =>
       req[r].sess \in 1 .. Len(rows)

RowsOK == \A i \in 1 .. Len(rows) : campaign[rows[i].camp].status # "none"

TypeInv == TypeOK /\ RowsOK /\ \A r \in Handlers : RequestOK(r)

\* A step starts, continues or ends the request of one handler, or of none.
LEMMA OneHandler ==
  ASSUME TypeOK, NEW r \in Handlers, NEW to, Step(r, to), to \in Request
  PROVE  /\ req' \in [Handlers -> Request] /\ req'[r] = to
         /\ \A q \in Handlers \ {r} : req'[q] = req[q]
BY DEF Step, TypeOK

LEMMA IdleRequest == Idle \in Request
BY EmptySeq DEF Idle, Request, PCs

LEMMA RowsTyped ==
  ASSUME TypeOK
  PROVE  Len(rows) \in Nat /\ \A i \in 1 .. Len(rows) : rows[i] \in Row /\ rows[i].camp \in Campaigns
<1>1. Len(rows) \in Nat /\ \A i \in 1 .. Len(rows) : rows[i] \in Row
  BY ElementOfSeq, LenProperties DEF TypeOK
<1>2. QED
  BY <1>1 DEF Row

\* Rows are appended to, or changed in place.
LEMMA RowAppended ==
  ASSUME TypeOK, NEW c \in Campaigns, NEW p \in Payments \cup {Null}, InsertRow(c, p)
  PROVE  /\ rows' \in Seq(Row) /\ Len(rows') = Len(rows) + 1 /\ Len(rows) \in Nat
         /\ \A i \in 1 .. Len(rows) : rows'[i] = rows[i]
         /\ rows'[Len(rows) + 1].camp = c /\ rows'[Len(rows) + 1].payment = p
<1>. DEFINE new == [camp |-> c, payment |-> p, recovered |-> FALSE, audit |-> {}]
<1>1. new \in Row /\ new.camp = c /\ new.payment = p
  BY DEF Row
<1>2. rows' = Append(rows, new)
  BY DEF InsertRow
<1>. HIDE DEF new
<1>3. QED
  BY <1>1, <1>2, AppendProperties, LenProperties DEF TypeOK

LEMMA RowsAudited ==
  ASSUME TypeOK, NEW i \in 1 .. Len(rows), NEW event \in {"session_created", "webhook_received"},
         InsertAuditLog(i, event)
  PROVE  /\ rows' \in Seq(Row) /\ Len(rows') = Len(rows)
         /\ \A j \in 1 .. Len(rows) : rows'[j].camp = rows[j].camp /\ rows'[j].payment = rows[j].payment
<1>. DEFINE new == [rows[i] EXCEPT !.audit = @ \cup {event}]
<1>1. \A j \in 1 .. Len(rows) : rows[j] \in Row
  BY ElementOfSeq DEF TypeOK
<1>2. new \in Row /\ new.camp = rows[i].camp /\ new.payment = rows[i].payment
  BY <1>1 DEF Row
<1>3. rows' = [rows EXCEPT ![i] = new]
  BY DEF InsertAuditLog
<1>. HIDE DEF new
<1>4. /\ rows' \in Seq(Row) /\ Len(rows') = Len(rows)
      /\ \A j \in 1 .. Len(rows) : rows'[j] = IF j = i THEN new ELSE rows[j]
  BY <1>2, <1>3, ExceptSeq DEF TypeOK
<1>5. QED
  BY <1>2, <1>4

LEMMA RowsRecovered ==
  ASSUME TypeOK, NEW p \in Payments,
         rows' = [i \in 1 .. Len(rows) |-> [rows[i] EXCEPT !.recovered = @ \/ rows[i].payment = p]]
  PROVE  /\ rows' \in Seq(Row) /\ Len(rows') = Len(rows)
         /\ \A j \in 1 .. Len(rows) : rows'[j].camp = rows[j].camp /\ rows'[j].payment = rows[j].payment
<1>1. Len(rows) \in Nat /\ \A j \in 1 .. Len(rows) : rows[j] \in Row
  BY ElementOfSeq, LenProperties DEF TypeOK
<1>2. ASSUME NEW j \in 1 .. Len(rows)
      PROVE  /\ rows'[j] \in Row
             /\ rows'[j].camp = rows[j].camp /\ rows'[j].payment = rows[j].payment
  <2>1. rows'[j] = [rows[j] EXCEPT !.recovered = @ \/ rows[j].payment = p]
    OBVIOUS
  <2>2. QED
    BY <1>1, <2>1 DEF Row
<1>3. rows' \in [1 .. Len(rows) -> Row]
  BY <1>2
<1>4. rows' \in Seq(Row) /\ Len(rows') = Len(rows)
  BY <1>1, <1>3, SeqDef, LenProperties
<1>5. QED
  BY <1>2, <1>4

\* Nothing that a request relies on is taken back: campaigns stay, rows stay, and
\* the events Razorpay has stay fired.
Grows ==
  /\ campaign' \in [Campaigns -> Campaign] /\ rows' \in Seq(Row) /\ Len(rows) <= Len(rows')
  /\ \A c \in Campaigns : campaign[c].status # "none" => campaign'[c].status # "none"
  /\ RowsOK'
  /\ fired \subseteq fired' /\ fired' \subseteq Payments
  /\ captured' \subseteq fired' /\ acked' \subseteq fired' /\ confirmed' \subseteq captured'
  /\ torn \subseteq torn' /\ torn' \subseteq Campaigns /\ faults' \in 0 .. MaxFaults

LEMMA Keeps ==
  ASSUME TypeInv, Grows, req' \in [Handlers -> Request],
         \A q \in Handlers : req'[q] = req[q] \/ (RequestOK(q)' /\ req'[q].sess \in 0 .. Len(rows'))
  PROVE  TypeInv'
<1>1. Len(rows) \in Nat /\ Len(rows') \in Nat
  BY LenProperties DEF TypeInv, TypeOK, Grows
<1>2. ASSUME NEW q \in Handlers PROVE RequestOK(q)' /\ req'[q].sess \in 0 .. Len(rows')
  <2>1. CASE req'[q] = req[q]
    <3>1. RequestOK(q) /\ req[q].sess \in 0 .. Len(rows)
      BY DEF TypeInv, TypeOK
    <3>2. QED
      BY <1>1, <2>1, <3>1 DEF RequestOK, Grows
  <2>2. QED
    BY <2>1
<1>3. QED
  BY <1>2 DEF TypeInv, TypeOK, Grows

LEMMA StepKeeps ==
  ASSUME TypeInv, Grows, NEW r \in Handlers, NEW to \in Request, Step(r, to),
         RequestOK(r)', to.sess \in 0 .. Len(rows')
  PROVE  TypeInv'
<1>1. /\ req' \in [Handlers -> Request] /\ req'[r] = to
      /\ \A q \in Handlers \ {r} : req'[q] = req[q]
  BY OneHandler DEF TypeInv
<1>2. QED
  BY <1>1, Keeps

\* A request that is over is in order.
LEMMA EndKeeps ==
  ASSUME TypeInv, Grows, NEW r \in Handlers, Step(r, Idle)
  PROVE  TypeInv'
<1>1. req'[r] = Idle
  BY IdleRequest, OneHandler DEF TypeInv
<1>2. RequestOK(r)'
  BY <1>1 DEF RequestOK, Idle
<1>3. Idle.sess \in 0 .. Len(rows')
  BY LenProperties DEF Idle, Grows
<1>4. QED
  BY <1>2, <1>3, IdleRequest, StepKeeps

LEMMA TornGrows ==
  ASSUME TypeInv, NEW r \in Handlers
  PROVE  torn \cup ({req[r].camp} \ {Null}) \subseteq Campaigns
BY DEF TypeInv, TypeOK, Request

LEMMA CreateCampaignKeeps ==
  ASSUME TypeInv, NEW r \in Handlers, NEW c \in Campaigns, NEW accounts \in Batches,
         CreateCampaign(r, c, accounts)
  PROVE  TypeInv'
<1>. DEFINE to == [Idle EXCEPT !.pc = "load", !.camp = c, !.accounts = accounts]
<1>1. accounts \in Accounts /\ accounts # <<>> /\ Len(accounts) \in Nat
  BY IntakeAssumption, LenProperties DEF Accounts
<1>2. /\ to \in Request /\ to.pc = "load" /\ to.camp = c /\ to.accounts = accounts /\ to.sess = 0
  BY <1>1 DEF Idle, Request, PCs, Accounts
<1>3. Step(r, to)
  BY DEF CreateCampaign, Begin
<1>. HIDE DEF to
<1>4. Born \in Nat
  BY IntakeAssumption, FS_Subset, FS_CardinalityType DEF Born
<1>5. Grows
  <2>1. campaign' = [campaign EXCEPT ![c] = [status |-> "active", total |-> Len(accounts), born |-> Born]]
    BY DEF CreateCampaign
  <2>2. campaign' \in [Campaigns -> Campaign] /\ \A d \in Campaigns : campaign[d].status # "none" => campaign'[d].status # "none"
    BY <1>1, <1>4, <2>1 DEF TypeInv, TypeOK, Campaign
  <2>3. \A i \in 1 .. Len(rows) : rows[i].camp \in Campaigns
    BY RowsTyped DEF TypeInv
  <2>4. rows' = rows /\ Len(rows) \in Nat
    BY LenProperties DEF CreateCampaign, TypeInv, TypeOK
  <2>5. RowsOK'
    BY <2>2, <2>3, <2>4 DEF TypeInv, RowsOK
  <2>6. QED
    BY <2>2, <2>4, <2>5 DEF Grows, CreateCampaign, TypeInv, TypeOK
<1>6. req'[r] = to
  BY <1>2, <1>3, OneHandler DEF TypeInv
<1>7. campaign'[c].status = "active"
  BY DEF CreateCampaign, TypeInv, TypeOK
<1>8. RequestOK(r)'
  BY <1>1, <1>2, <1>6, <1>7 DEF RequestOK
<1>9. QED
  BY <1>2, <1>3, <1>5, <1>8, StepKeeps, LenProperties DEF Grows

\* Rows of the same campaigns, while the campaigns stay.
LEMMA GrowsInPlace ==
  ASSUME TypeInv, rows' \in Seq(Row), Len(rows') = Len(rows),
         \A i \in 1 .. Len(rows) : rows'[i].camp = rows[i].camp,
         campaign' \in [Campaigns -> Campaign],
         \A c \in Campaigns : campaign[c].status # "none" => campaign'[c].status # "none",
         fired \subseteq fired', fired' \subseteq Payments,
         captured' \subseteq fired', acked' \subseteq fired', confirmed' \subseteq captured',
         torn \subseteq torn', torn' \subseteq Campaigns, faults' \in 0 .. MaxFaults
  PROVE  Grows
<1>1. Len(rows) \in Nat /\ \A i \in 1 .. Len(rows) : rows[i].camp \in Campaigns
  BY RowsTyped DEF TypeInv
<1>2. RowsOK'
  BY <1>1 DEF TypeInv, RowsOK
<1>3. QED
  BY <1>1, <1>2 DEF Grows

\* A row more, of a campaign there is.
LEMMA GrowsByRow ==
  ASSUME TypeInv, NEW c \in Campaigns, campaign[c].status # "none", NEW p \in Payments \cup {Null},
         InsertRow(c, p), UNCHANGED <<campaign, fired, captured, acked, confirmed, torn, faults>>
  PROVE  Grows
<1>1. /\ rows' \in Seq(Row) /\ Len(rows') = Len(rows) + 1 /\ Len(rows) \in Nat
      /\ \A i \in 1 .. Len(rows) : rows'[i] = rows[i]
      /\ rows'[Len(rows) + 1].camp = c
  BY RowAppended DEF TypeInv
<1>2. RowsOK'
  BY <1>1 DEF TypeInv, RowsOK
<1>3. QED
  BY <1>1, <1>2 DEF Grows, TypeInv, TypeOK

LEMMA LoadAccountKeeps ==
  ASSUME TypeInv, NEW r \in Handlers, LoadAccount(r)
  PROVE  TypeInv'
<1>. DEFINE p == Head(req[r].accounts)
            to == [req[r] EXCEPT !.pc = "audit_loaded", !.sess = Len(rows) + 1]
<1>1. /\ req[r] \in Request /\ req[r].pc = "load" /\ RequestOK(r) /\ Len(rows) \in Nat
      /\ p \in Payments \cup {Null}
  BY LenProperties, HeadTailProperties DEF TypeInv, TypeOK, LoadAccount, RequestOK, Request
<1>2. CASE PaymentFree(p)
  <2>1. to \in Request /\ to.camp = req[r].camp /\ to.accounts = req[r].accounts /\ to.pc = "audit_loaded"
        /\ to.sess = Len(rows) + 1
    <3>1. Len(rows) + 1 \in Nat /\ "audit_loaded" \in PCs /\ req[r] \in Request
      BY <1>1 DEF PCs
    <3>. HIDE DEF p
    <3>2. QED
      BY <3>1 DEF Request
  <2>2. Step(r, to) /\ InsertRow(req[r].camp, p)
        /\ UNCHANGED <<campaign, fired, captured, acked, confirmed, torn, faults>>
    BY <1>2 DEF LoadAccount
  <2>. HIDE DEF to, p
  <2>3. Grows /\ Len(rows') = Len(rows) + 1
    BY <1>1, <2>2, GrowsByRow, RowAppended DEF RequestOK, TypeInv
  <2>4. req'[r] = to
    BY <2>1, <2>2, OneHandler DEF TypeInv
  <2>5. RequestOK(r)'
    BY <1>1, <2>1, <2>2, <2>3, <2>4 DEF RequestOK
  <2>6. QED
    BY <1>1, <2>1, <2>2, <2>3, <2>5, StepKeeps
<1>3. CASE ~ PaymentFree(p)
  <2>1. Step(r, Idle) /\ torn' = torn \cup ({req[r].camp} \ {Null})
        /\ UNCHANGED <<campaign, rows, fired, captured, acked, confirmed, faults>>
    BY <1>3 DEF LoadAccount, Fails
  <2>2. Grows
    BY <2>1, TornGrows, GrowsInPlace DEF TypeInv, TypeOK
  <2>3. QED
    BY <2>1, <2>2, EndKeeps
<1>4. QED
  BY <1>2, <1>3

\* The row of a request that is at an audit is audited in place.
LEMMA AuditGrows ==
  ASSUME TypeInv, NEW i \in 1 .. Len(rows), NEW event \in {"session_created", "webhook_received"},
         InsertAuditLog(i, event), acked \subseteq acked', acked' \subseteq fired,
         UNCHANGED <<campaign, fired, captured, confirmed, torn, faults>>
  PROVE  Grows /\ Len(rows') = Len(rows)
<1>1. /\ rows' \in Seq(Row) /\ Len(rows') = Len(rows)
      /\ \A j \in 1 .. Len(rows) : rows'[j].camp = rows[j].camp
  BY RowsAudited DEF TypeInv
<1>2. QED
  BY <1>1, GrowsInPlace DEF TypeInv, TypeOK

LEMMA AuditLoadedKeeps ==
  ASSUME TypeInv, NEW r \in Handlers, AuditLoaded(r)
  PROVE  TypeInv'
<1>. DEFINE left == Tail(req[r].accounts)
            to == [req[r] EXCEPT !.pc = "load", !.accounts = left]
<1>1. /\ req[r] \in Request /\ req[r].pc = "audit_loaded" /\ RequestOK(r) /\ left \in Accounts
      /\ req[r].sess \in 1 .. Len(rows)
  BY HeadTailProperties DEF TypeInv, TypeOK, AuditLoaded, RequestOK, Request, Accounts
<1>2. Grows /\ Len(rows') = Len(rows)
  BY <1>1, AuditGrows DEF AuditLoaded, TypeInv, TypeOK
<1>3. CASE left = <<>>
  BY <1>2, <1>3, EndKeeps DEF AuditLoaded
<1>4. CASE left # <<>>
  <2>1. /\ to \in Request /\ to.camp = req[r].camp /\ to.accounts = left /\ to.pc = "load"
        /\ to.sess = req[r].sess
    BY <1>1 DEF Request, PCs, Accounts
  <2>2. Step(r, to) /\ campaign' = campaign
    BY <1>4 DEF AuditLoaded
  <2>. HIDE DEF to, left
  <2>3. req'[r] = to
    BY <2>1, <2>2, OneHandler DEF TypeInv
  <2>4. RequestOK(r)'
    BY <1>1, <1>4, <2>1, <2>2, <2>3 DEF RequestOK
  <2>5. to.sess \in 0 .. Len(rows')
    BY <1>1, <1>2, <2>1
  <2>6. QED
    BY <1>2, <2>1, <2>2, <2>4, <2>5, StepKeeps
<1>5. QED
  BY <1>3, <1>4

\* An event under way, that is not over, is moved to its next statement.
LEMMA MoveKeeps ==
  ASSUME TypeInv, Grows, NEW r \in Handlers, RequestOK(r), req[r].camp \in Campaigns,
         campaign'[req[r].camp].status # "none", req[r].payment \in fired,
         NEW pc \in {"insert", "audit_webhook", "audit_created"},
         pc \in {"audit_webhook", "audit_created"} => req[r].sess \in 1 .. Len(rows),
         Step(r, [req[r] EXCEPT !.pc = pc])
  PROVE  TypeInv'
<1>. DEFINE to == [req[r] EXCEPT !.pc = pc]
<1>1. req[r] \in Request /\ pc \in PCs /\ req[r].sess \in 0 .. Len(rows) /\ Len(rows) \in Nat
  BY LenProperties DEF TypeInv, TypeOK, PCs
<1>2. /\ to \in Request /\ to.pc = pc /\ to.camp = req[r].camp /\ to.payment = req[r].payment
      /\ to.sess = req[r].sess
  BY <1>1 DEF Request
<1>3. Step(r, to)
  OBVIOUS
<1>. HIDE DEF to
<1>4. req'[r] = to
  BY <1>2, <1>3, OneHandler DEF TypeInv
<1>5. Len(rows') \in Nat /\ Len(rows) <= Len(rows')
  BY LenProperties DEF Grows
<1>6. RequestOK(r)'
  BY <1>1, <1>2, <1>4, <1>5 DEF RequestOK, Grows
<1>7. to.sess \in 0 .. Len(rows')
  BY <1>1, <1>2, <1>5
<1>8. QED
  BY <1>2, <1>3, <1>6, <1>7, StepKeeps

\* Nothing but a handler's request changes, and what has been answered 200.
LEMMA QuietGrows ==
  ASSUME TypeInv, acked' \subseteq fired, torn \subseteq torn', torn' \subseteq Campaigns,
         faults' \in 0 .. MaxFaults, UNCHANGED <<campaign, rows, fired, captured, confirmed>>
  PROVE  Grows
BY GrowsInPlace DEF TypeInv, TypeOK

LEMMA HandlePaymentFailedKeeps ==
  ASSUME TypeInv, NEW r \in Handlers, NEW p \in Payments, HandlePaymentFailed(r, p)
  PROVE  TypeInv'
<1>1. p \in fired
  BY DEF HandlePaymentFailed
<1>2. CASE Drop(r, p)
  <2>1. Grows
    BY <1>1, <1>2, QuietGrows DEF Drop, TypeInv, TypeOK
  <2>2. QED
    BY <1>2, <2>1, EndKeeps DEF Drop, Begin
<1>3. ASSUME NEW c \in Campaigns, MostRecentActive(c),
             Begin(r, [Idle EXCEPT !.pc = "dedupe", !.camp = c, !.payment = p]),
             UNCHANGED <<campaign, rows, fired, captured, acked, confirmed, torn, faults>>
      PROVE  TypeInv'
  <2>. DEFINE to == [Idle EXCEPT !.pc = "dedupe", !.camp = c, !.payment = p]
  <2>1. /\ to \in Request /\ to.pc = "dedupe" /\ to.camp = c /\ to.payment = p /\ to.sess = 0
    BY EmptySeq DEF Idle, Request, PCs
  <2>2. Step(r, to)
    BY <1>3 DEF Begin
  <2>. HIDE DEF to
  <2>3. Grows /\ Len(rows') \in Nat
    BY <1>3, QuietGrows, LenProperties DEF TypeInv, TypeOK
  <2>4. req'[r] = to
    BY <2>1, <2>2, OneHandler DEF TypeInv
  <2>5. RequestOK(r)'
    BY <1>1, <1>3, <2>1, <2>4 DEF RequestOK, MostRecentActive
  <2>6. QED
    BY <2>1, <2>2, <2>3, <2>5, StepKeeps
<1>4. QED
  BY <1>2, <1>3 DEF HandlePaymentFailed

LEMMA InsertSessionKeeps ==
  ASSUME TypeInv, NEW r \in Handlers, InsertSession(r)
  PROVE  TypeInv'
<1>. DEFINE p == NullIfEmpty(req[r].payment)
            to == [req[r] EXCEPT !.pc = "increment", !.sess = Len(rows) + 1]
<1>1. /\ req[r] \in Request /\ req[r].pc = "insert" /\ RequestOK(r) /\ Len(rows) \in Nat
      /\ p \in Payments \cup {Null}
  BY LenProperties DEF TypeInv, TypeOK, InsertSession, RequestOK, Request, NullIfEmpty
<1>2. CASE PaymentFree(p)
  <2>1. /\ to \in Request /\ to.camp = req[r].camp /\ to.payment = req[r].payment
        /\ to.pc = "increment" /\ to.sess = Len(rows) + 1
    <3>1. Len(rows) + 1 \in Nat /\ "increment" \in PCs /\ req[r] \in Request
      BY <1>1 DEF PCs
    <3>. HIDE DEF p
    <3>2. QED
      BY <3>1 DEF Request
  <2>2. Step(r, to) /\ InsertRow(req[r].camp, p)
        /\ UNCHANGED <<campaign, fired, captured, acked, confirmed, torn, faults>>
    BY <1>2 DEF InsertSession
  <2>. HIDE DEF to, p
  <2>3. Grows /\ Len(rows') = Len(rows) + 1
    BY <1>1, <2>2, GrowsByRow, RowAppended DEF RequestOK, TypeInv
  <2>4. req'[r] = to
    BY <2>1, <2>2, OneHandler DEF TypeInv
  <2>5. RequestOK(r)'
    BY <1>1, <2>1, <2>2, <2>3, <2>4 DEF RequestOK
  <2>6. QED
    BY <1>1, <2>1, <2>2, <2>3, <2>5, StepKeeps
<1>3. CASE ~ PaymentFree(p)
  <2>1. Step(r, Idle) /\ torn' = torn \cup ({req[r].camp} \ {Null})
        /\ UNCHANGED <<campaign, rows, fired, captured, acked, confirmed, faults>>
    BY <1>3 DEF InsertSession, Fails
  <2>2. Grows
    BY <2>1, TornGrows, QuietGrows DEF TypeInv, TypeOK
  <2>3. QED
    BY <2>1, <2>2, EndKeeps
<1>4. QED
  BY <1>2, <1>3

\* The rest of an event's statements.
LEMMA EventKeeps ==
  ASSUME TypeInv, NEW r \in Handlers,
         Dedupe(r) \/ IncrementCampaignTotal(r) \/ AuditWebhook(r) \/ AuditCreated(r)
  PROVE  TypeInv'
<1>1. /\ RequestOK(r) /\ req[r].camp \in Campaigns /\ campaign[req[r].camp].status # "none"
      /\ req[r].payment \in fired
  BY DEF TypeInv, RequestOK, Dedupe, IncrementCampaignTotal, AuditWebhook, AuditCreated
<1>2. CASE Dedupe(r)
  <2>1. Grows
    BY <1>1, <1>2, QuietGrows DEF Dedupe, Ack, TypeInv, TypeOK
  <2>2. CASE Ack(r)
    BY <2>1, <2>2, EndKeeps DEF Ack
  <2>3. CASE Step(r, [req[r] EXCEPT !.pc = "insert"])
    BY <1>1, <1>2, <2>1, <2>3, MoveKeeps DEF Dedupe
  <2>4. QED
    BY <1>2, <2>2, <2>3 DEF Dedupe
<1>3. CASE IncrementCampaignTotal(r)
  <2>1. /\ campaign' \in [Campaigns -> Campaign]
        /\ \A c \in Campaigns : campaign[c].status # "none" => campaign'[c].status # "none"
    <3>. DEFINE counted == [campaign[req[r].camp] EXCEPT !.total = @ + 1]
    <3>1. \A c \in Campaigns : campaign[c] \in Campaign
      BY DEF TypeInv, TypeOK
    <3>2. counted \in Campaign /\ counted.status = campaign[req[r].camp].status
      BY <1>1, <3>1 DEF Campaign
    <3>3. campaign' = [campaign EXCEPT ![req[r].camp] = counted]
      BY <1>3 DEF IncrementCampaignTotal
    <3>. HIDE DEF counted
    <3>4. QED
      BY <1>1, <3>2, <3>3 DEF TypeInv, TypeOK
  <2>2. Grows
    BY <1>3, <2>1, GrowsInPlace DEF IncrementCampaignTotal, TypeInv, TypeOK
  <2>3. req[r].sess \in 1 .. Len(rows)
    BY <1>1, <1>3 DEF RequestOK, IncrementCampaignTotal
  <2>4. QED
    BY <1>1, <1>3, <2>1, <2>2, <2>3, MoveKeeps DEF IncrementCampaignTotal
<1>4. CASE AuditWebhook(r) \/ AuditCreated(r)
  <2>1. req[r].sess \in 1 .. Len(rows)
    BY <1>1, <1>4 DEF RequestOK, AuditWebhook, AuditCreated
  <2>2. Grows
    BY <1>1, <1>4, <2>1, AuditGrows DEF AuditWebhook, AuditCreated, Ack, TypeInv, TypeOK
  <2>3. CASE AuditWebhook(r)
    BY <1>1, <2>1, <2>2, <2>3, MoveKeeps DEF AuditWebhook
  <2>4. CASE AuditCreated(r)
    BY <2>2, <2>4, EndKeeps DEF AuditCreated, Ack
  <2>5. QED
    BY <1>4, <2>3, <2>4
<1>5. QED
  BY <1>2, <1>3, <1>4

\* What goes on around the requests.
LEMMA AroundKeeps ==
  ASSUME TypeInv,
         \/ \E r \in Handlers, p \in Payments : HandlePaymentCaptured(r, p)
         \/ \E p \in Payments : PaymentFails(p) \/ PaymentCaptured(p)
         \/ \E c \in Campaigns : PauseCampaign(c)
  PROVE  TypeInv'
<1>1. ASSUME NEW r \in Handlers, NEW p \in Payments, HandlePaymentCaptured(r, p) PROVE Grows /\ req' = req
  <2>1. /\ rows' \in Seq(Row) /\ Len(rows') = Len(rows)
        /\ \A j \in 1 .. Len(rows) : rows'[j].camp = rows[j].camp
    BY <1>1, RowsRecovered DEF HandlePaymentCaptured, TypeInv
  <2>2. QED
    BY <1>1, <2>1, GrowsInPlace DEF HandlePaymentCaptured, TypeInv, TypeOK
<1>2. ASSUME NEW p \in Payments, PaymentFails(p) \/ PaymentCaptured(p) PROVE Grows /\ req' = req
  BY <1>2, GrowsInPlace DEF PaymentFails, PaymentCaptured, TypeInv, TypeOK
<1>3. ASSUME NEW c \in Campaigns, PauseCampaign(c) PROVE Grows /\ req' = req
  <2>1. /\ campaign' \in [Campaigns -> Campaign]
        /\ \A d \in Campaigns : campaign[d].status # "none" => campaign'[d].status # "none"
    BY <1>3 DEF PauseCampaign, TypeInv, TypeOK, Campaign
  <2>2. QED
    BY <1>3, <2>1, GrowsInPlace DEF PauseCampaign, TypeInv, TypeOK
<1>4. Grows /\ req' = req
  BY <1>1, <1>2, <1>3
<1>5. req' \in [Handlers -> Request] /\ \A q \in Handlers : req'[q] = req[q]
  BY <1>4 DEF TypeInv, TypeOK
<1>6. QED
  BY <1>4, <1>5, Keeps

LEMMA AbortKeeps ==
  ASSUME TypeInv, NEW r \in Handlers, Abort(r)
  PROVE  TypeInv'
<1>1. faults' \in 0 .. MaxFaults
  BY IntakeAssumption DEF Abort, TypeInv, TypeOK
<1>2. Grows
  BY <1>1, TornGrows, QuietGrows DEF Abort, Fails, TypeInv, TypeOK
<1>3. QED
  BY <1>2, EndKeeps DEF Abort, Fails

LEMMA InitTypeInv == Init => TypeInv
<1>. SUFFICES ASSUME Init PROVE TypeInv
  OBVIOUS
<1>1. rows = <<>> /\ rows \in Seq(Row) /\ Len(rows) = 0
  BY EmptySeq DEF Init
<1>2. \A r \in Handlers : req[r] = Idle /\ req[r] \in Request
  BY IdleRequest DEF Init
<1>3. \A r \in Handlers : RequestOK(r) /\ req[r].sess = 0
  BY <1>2 DEF RequestOK, Idle
<1>4. TypeOK
  BY <1>1, <1>2, <1>3, IntakeAssumption DEF Init, TypeOK, Campaign
<1>5. QED
  BY <1>1, <1>3, <1>4 DEF TypeInv, RowsOK

LEMMA NextTypeInv == TypeInv /\ [Next]_vars => TypeInv'
<1>. SUFFICES ASSUME TypeInv, [Next]_vars PROVE TypeInv'
  OBVIOUS
<1>1. CASE UNCHANGED vars
  BY <1>1 DEF vars, TypeInv, TypeOK, RowsOK, RequestOK
<1>2. ASSUME NEW r \in Handlers, Continue(r) PROVE TypeInv'
  BY <1>2, LoadAccountKeeps, AuditLoadedKeeps, InsertSessionKeeps, EventKeeps DEF Continue
<1>3. QED
  BY <1>1, <1>2, CreateCampaignKeeps, HandlePaymentFailedKeeps, AroundKeeps, AbortKeeps DEF Next, Deliver

\* Whatever fails between two statements, requests, rows and events stay well typed:
\* only events that fired are answered, and a request audits a row there is.
THEOREM IntakeTypeCorrect == Spec => []TypeOK
<1>1. TypeInv => TypeOK
  BY DEF TypeInv
<1>2. QED
  BY InitTypeInv, NextTypeInv, <1>1, PTL DEF Spec

(***************************************************************************)
(* What a step does to the rows: a row more, whose payment no row had, or  *)
(* the rows of before with their campaigns and their payments.             *)
(***************************************************************************)
RowsPlaced ==
  /\ Len(rows') = Len(rows)
  /\ \A i \in 1 .. Len(rows) : rows'[i].camp = rows[i].camp /\ rows'[i].payment = rows[i].payment

LEMMA AuditPlaces ==
  ASSUME TypeInv, NEW r \in Handlers, AuditLoaded(r) \/ AuditWebhook(r) \/ AuditCreated(r)
  PROVE  RowsPlaced
<1>1. req[r].sess \in 1 .. Len(rows)
  BY DEF AuditLoaded, AuditWebhook, AuditCreated, TypeInv, RequestOK
<1>2. QED
  BY <1>1, RowsAudited DEF AuditLoaded, AuditWebhook, AuditCreated, RowsPlaced, TypeInv

LEMMA RowStep ==
  ASSUME TypeInv, [Next]_vars
  PROVE  \/ RowsPlaced
         \/ \E c \in Campaigns, p \in Payments \cup {Null} : InsertRow(c, p) /\ PaymentFree(p)
<1>1. ASSUME rows' = rows PROVE RowsPlaced
  BY <1>1 DEF RowsPlaced
<1>2. ASSUME NEW r \in Handlers, LoadAccount(r)
      PROVE  \/ rows' = rows
             \/ \E c \in Campaigns, p \in Payments \cup {Null} : InsertRow(c, p) /\ PaymentFree(p)
  <2>1. req[r].camp \in Campaigns /\ Head(req[r].accounts) \in Payments \cup {Null}
    BY <1>2, HeadTailProperties DEF LoadAccount, TypeInv, TypeOK, RequestOK, Request
  <2>2. QED
    BY <1>2, <2>1 DEF LoadAccount
<1>3. ASSUME NEW r \in Handlers, InsertSession(r)
      PROVE  \/ rows' = rows
             \/ \E c \in Campaigns, p \in Payments \cup {Null} : InsertRow(c, p) /\ PaymentFree(p)
  <2>1. req[r].camp \in Campaigns /\ NullIfEmpty(req[r].payment) \in Payments \cup {Null}
    BY <1>3 DEF InsertSession, TypeInv, TypeOK, RequestOK, Request, NullIfEmpty
  <2>2. QED
    BY <1>3, <2>1 DEF InsertSession
<1>4. ASSUME NEW r \in Handlers, AuditLoaded(r) \/ AuditWebhook(r) \/ AuditCreated(r) PROVE RowsPlaced
  BY <1>4, AuditPlaces
<1>5. ASSUME NEW r \in Handlers, Dedupe(r) \/ IncrementCampaignTotal(r) PROVE rows' = rows
  BY <1>5 DEF Dedupe, IncrementCampaignTotal
<1>6. ASSUME NEW r \in Handlers, NEW p \in Payments, HandlePaymentCaptured(r, p) PROVE RowsPlaced
  BY <1>6, RowsRecovered DEF HandlePaymentCaptured, RowsPlaced, TypeInv
<1>7. ASSUME NEW r \in Handlers, Continue(r)
      PROVE  \/ RowsPlaced
             \/ \E c \in Campaigns, p \in Payments \cup {Null} : InsertRow(c, p) /\ PaymentFree(p)
  BY <1>1, <1>2, <1>3, <1>4, <1>5, <1>7 DEF Continue
<1>8. ASSUME NEW r \in Handlers, NEW p \in Payments, HandlePaymentFailed(r, p) PROVE rows' = rows
  BY <1>8 DEF HandlePaymentFailed, Drop
<1>9. ASSUME \/ UNCHANGED vars
             \/ \E r \in Handlers, c \in Campaigns, accounts \in Batches : CreateCampaign(r, c, accounts)
             \/ \E r \in Handlers : Abort(r)
             \/ \E p \in Payments : PaymentFails(p) \/ PaymentCaptured(p)
             \/ \E c \in Campaigns : PauseCampaign(c)
      PROVE  rows' = rows
  BY <1>9 DEF vars, CreateCampaign, Abort, PaymentFails, PaymentCaptured, PauseCampaign
<1>10. QED
  BY <1>1, <1>6, <1>7, <1>8, <1>9 DEF Next, Deliver

\* However deliveries race and fail and whatever operators load, no two sessions have
\* the payment of one event: the partial unique index holds where the check does not.
THEOREM QueuedOnce == Spec => []OneSessionPerPayment
<1>1. Init => OneSessionPerPayment
  BY EmptySeq DEF Init, OneSessionPerPayment
<1>2. TypeInv /\ OneSessionPerPayment /\ [Next]_vars => OneSessionPerPayment'
  <2>. SUFFICES ASSUME TypeInv, OneSessionPerPayment, [Next]_vars PROVE OneSessionPerPayment'
    OBVIOUS
  <2>1. CASE RowsPlaced
    BY <2>1 DEF RowsPlaced, OneSessionPerPayment
  <2>2. ASSUME NEW c \in Campaigns, NEW p \in Payments \cup {Null}, InsertRow(c, p), PaymentFree(p)
        PROVE  OneSessionPerPayment'
    <3>1. /\ Len(rows') = Len(rows) + 1 /\ Len(rows) \in Nat
          /\ \A i \in 1 .. Len(rows) : rows'[i] = rows[i]
          /\ rows'[Len(rows) + 1].payment = p
      BY <2>2, RowAppended DEF TypeInv
    <3>2. QED
      BY <2>2, <3>1 DEF PaymentFree, OneSessionPerPayment
  <2>3. QED
    BY <2>1, <2>2, RowStep
<1>3. QED
  BY InitTypeInv, NextTypeInv, <1>1, <1>2, PTL DEF Spec

(***************************************************************************)
(* The total.  CreateCampaign counts its accounts before it inserts them,  *)
(* an event is counted after its row: the difference between the total of  *)
(* a campaign and its rows is what the requests under way on it still owe. *)
(***************************************************************************)
Loading == {"load", "audit_loaded"}

Loaders(c) == {r \in Handlers : req[r].camp = c /\ req[r].pc \in Loading}

Counters(c) == {r \in Handlers : req[r].camp = c /\ req[r].pc = "increment"}

\* The rows the load that handler r serves has yet to insert.
Left(r) == IF req[r].pc = "load" THEN Len(req[r].accounts) ELSE Len(req[r].accounts) - 1

Balanced(c) ==
  LET counted == campaign[c].total + Cardinality(Counters(c))
      owed    == Cardinality(RowsOf(c)) IN
    /\ \A r, q \in Loaders(c) : r = q
    /\ \A r \in Loaders(c) : counted = owed + Left(r)
    /\ Loaders(c) = {} => counted = owed

TotalInv == \A c \in Campaigns \ torn : Balanced(c)

LEMMA Numbers ==
  ASSUME TypeOK, NEW c \in Campaigns
  PROVE  /\ campaign[c].total \in Nat
         /\ IsFiniteSet(RowsOf(c)) /\ Cardinality(RowsOf(c)) \in Nat
         /\ IsFiniteSet(Counters(c)) /\ Cardinality(Counters(c)) \in Nat
<1>1. campaign[c].total \in Nat
  BY DEF TypeOK, Campaign
<1>2. IsFiniteSet(1 .. Len(rows))
  BY LenProperties, FS_Interval DEF TypeOK
<1>3. IsFiniteSet(RowsOf(c)) /\ IsFiniteSet(Counters(c))
  BY <1>2, IntakeAssumption, FS_Subset DEF RowsOf, Counters
<1>4. QED
  BY <1>1, <1>3, FS_CardinalityType

\* A handler counts for a campaign while it loads it or is about to count a row of it.
Counts(request, c) == request.camp = c /\ request.pc \in Loading \cup {"increment"}

LEMMA OthersStay ==
  ASSUME TypeOK, NEW r \in Handlers, NEW to \in Request, Step(r, to), NEW c \in Campaigns
  PROVE  /\ \A q \in Handlers \ {r} : /\ q \in Loaders(c)' <=> q \in Loaders(c)
                                      /\ q \in Counters(c)' <=> q \in Counters(c)
                                      /\ Left(q)' = Left(q)
         /\ r \in Loaders(c)' <=> to.camp = c /\ to.pc \in Loading
         /\ r \in Counters(c)' <=> to.camp = c /\ to.pc = "increment"
         /\ Left(r)' = IF to.pc = "load" THEN Len(to.accounts) ELSE Len(to.accounts) - 1
         /\ Loaders(c)' \subseteq Handlers /\ Counters(c)' \subseteq Handlers
<1>1. req'[r] = to /\ \A q \in Handlers \ {r} : req'[q] = req[q]
  BY OneHandler
<1>2. QED
  BY <1>1 DEF Loaders, Counters, Left

LEMMA SameBalance ==
  ASSUME NEW c \in Campaigns, Balanced(c), campaign'[c].total = campaign[c].total,
         RowsOf(c)' = RowsOf(c), Loaders(c)' = Loaders(c), Counters(c)' = Counters(c),
         \A q \in Loaders(c) : Left(q)' = Left(q)
  PROVE  Balanced(c)'
BY DEF Balanced

\* A step of a request that counts for the campaign neither before nor after it.
LEMMA Elsewhere ==
  ASSUME TypeOK, NEW c \in Campaigns, Balanced(c), campaign'[c].total = campaign[c].total,
         RowsOf(c)' = RowsOf(c), NEW r \in Handlers, NEW to \in Request, Step(r, to),
         ~ Counts(req[r], c), ~ Counts(to, c)
  PROVE  Balanced(c)'
<1>1. r \notin Loaders(c) /\ r \notin Counters(c) /\ r \notin Loaders(c)' /\ r \notin Counters(c)'
  BY OthersStay DEF Counts, Loaders, Counters
<1>2. Loaders(c)' = Loaders(c)
  BY <1>1, OthersStay DEF Loaders
<1>3. Counters(c)' = Counters(c)
  BY <1>1, OthersStay DEF Counters
<1>4. \A q \in Loaders(c) : Left(q)' = Left(q)
  BY <1>1, OthersStay DEF Loaders
<1>5. QED
  BY <1>2, <1>3, <1>4, SameBalance

LEMMA SameRows ==
  ASSUME RowsPlaced, NEW c \in Campaigns
  PROVE  RowsOf(c)' = RowsOf(c)
BY DEF RowsPlaced, RowsOf

LEMMA RowMore ==
  ASSUME TypeOK, NEW c \in Campaigns, NEW p \in Payments \cup {Null}, InsertRow(c, p)
  PROVE  /\ Cardinality(RowsOf(c)') = Cardinality(RowsOf(c)) + 1
         /\ \A d \in Campaigns \ {c} : RowsOf(d)' = RowsOf(d)
<1>1. /\ Len(rows') = Len(rows) + 1 /\ Len(rows) \in Nat
      /\ \A i \in 1 .. Len(rows) : rows'[i] = rows[i]
      /\ rows'[Len(rows) + 1].camp = c
  BY RowAppended
<1>2. RowsOf(c)' = RowsOf(c) \cup {Len(rows) + 1} /\ Len(rows) + 1 \notin RowsOf(c)
  BY <1>1 DEF RowsOf
<1>3. Cardinality(RowsOf(c)') = Cardinality(RowsOf(c)) + 1
  <2>1. IsFiniteSet(RowsOf(c))
    BY Numbers
  <2>2. QED
    BY <1>2, <2>1, FS_AddElement
<1>4. \A d \in Campaigns \ {c} : RowsOf(d)' = RowsOf(d)
  BY <1>1 DEF RowsOf
<1>5. QED
  BY <1>3, <1>4

\* The end of a request, after which the campaign it was on is torn or has nothing
\* more to be counted by it.
LEMMA EndBalances ==
  ASSUME TypeInv, TotalInv, NEW r \in Handlers, Step(r, Idle), torn \subseteq torn',
         req[r].pc \in Loading \cup {"increment"} => req[r].camp \in torn' \/ req[r].camp = Null,
         \A c \in Campaigns : campaign'[c].total = campaign[c].total /\ RowsOf(c)' = RowsOf(c)
  PROVE  TotalInv'
<1>1. ASSUME NEW c \in Campaigns \ torn' PROVE Balanced(c)'
  <2>1. ~ Counts(req[r], c) /\ ~ Counts(Idle, c)
    BY <1>1, IntakeAssumption DEF Counts, Idle, Loading
  <2>2. Balanced(c)
    BY <1>1 DEF TotalInv
  <2>3. QED
    BY <1>1, <2>1, <2>2, IdleRequest, Elsewhere DEF TypeInv
<1>2. QED
  BY <1>1 DEF TotalInv

\* A step between statements that count nothing.
LEMMA MoveBalances ==
  ASSUME TypeInv, TotalInv, NEW r \in Handlers, NEW to \in Request, Step(r, to), torn' = torn,
         req[r].pc \notin Loading \cup {"increment"}, to.pc \notin Loading \cup {"increment"},
         \A c \in Campaigns : campaign'[c].total = campaign[c].total /\ RowsOf(c)' = RowsOf(c)
  PROVE  TotalInv'
<1>1. ASSUME NEW c \in Campaigns \ torn' PROVE Balanced(c)'
  <2>1. ~ Counts(req[r], c) /\ ~ Counts(to, c)
    BY DEF Counts
  <2>2. Balanced(c)
    BY <1>1 DEF TotalInv
  <2>3. QED
    BY <1>1, <2>1, <2>2, Elsewhere DEF TypeInv
<1>2. QED
  BY <1>1 DEF TotalInv

LEMMA CreateCampaignBalances ==
  ASSUME TypeInv, TotalInv, NEW r \in Handlers, NEW c \in Campaigns, NEW accounts \in Batches,
         CreateCampaign(r, c, accounts)
  PROVE  TotalInv'
<1>. DEFINE to == [Idle EXCEPT !.pc = "load", !.camp = c, !.accounts = accounts]
<1>1. accounts \in Accounts /\ Len(accounts) \in Nat
  BY IntakeAssumption, LenProperties DEF Accounts
<1>2. /\ to \in Request /\ to.pc = "load" /\ to.camp = c /\ to.accounts = accounts
  BY <1>1 DEF Idle, Request, PCs, Accounts
<1>3. Step(r, to) /\ req[r].camp = Null
  BY DEF CreateCampaign, Begin, TypeInv, RequestOK
<1>. HIDE DEF to
<1>4. /\ campaign'[c].total = Len(accounts)
      /\ \A d \in Campaigns \ {c} : campaign'[d].total = campaign[d].total
      /\ torn' = torn /\ rows' = rows
  BY DEF CreateCampaign, TypeInv, TypeOK
<1>5. \A d \in Campaigns : RowsOf(d)' = RowsOf(d)
  BY <1>4 DEF RowsOf
<1>6. RowsOf(c) = {} /\ Loaders(c) = {} /\ Counters(c) = {}
  <2>1. \A q \in Handlers : req[q].camp # c
    BY IntakeAssumption DEF CreateCampaign, TypeInv, RequestOK
  <2>2. QED
    BY <2>1 DEF CreateCampaign, TypeInv, RowsOK, RowsOf, Loaders, Counters
<1>7. Balanced(c)'
  <2>1. Loaders(c)' = {r} /\ Counters(c)' = {} /\ Left(r)' = Len(accounts)
    BY <1>2, <1>3, <1>6, OthersStay DEF TypeInv, Loading
  <2>2. Cardinality(Counters(c)') = 0 /\ Cardinality(RowsOf(c)') = 0
    BY <1>5, <1>6, <2>1, FS_EmptySet
  <2>3. QED
    BY <1>1, <1>4, <2>1, <2>2 DEF Balanced
<1>8. ASSUME NEW d \in Campaigns \ torn', d # c PROVE Balanced(d)'
  <2>1. ~ Counts(req[r], d) /\ ~ Counts(to, d)
    BY <1>2, <1>3, <1>8, IntakeAssumption DEF Counts
  <2>2. QED
    BY <1>2, <1>3, <1>4, <1>5, <1>8, <2>1, Elsewhere DEF TotalInv, TypeInv
<1>9. QED
  BY <1>7, <1>8 DEF TotalInv

\* A load that inserts a row owes one row less.
LEMMA LoadAccountBalances ==
  ASSUME TypeInv, TotalInv, NEW r \in Handlers, LoadAccount(r)
  PROVE  TotalInv'
<1>0. PICK c \in Campaigns : c = req[r].camp
  BY DEF TypeInv, LoadAccount, RequestOK
<1>. DEFINE p == Head(req[r].accounts)
            to == [req[r] EXCEPT !.pc = "audit_loaded", !.sess = Len(rows) + 1]
<1>1. /\ req[r] \in Request /\ req[r].pc = "load" /\ Len(rows) \in Nat
      /\ p \in Payments \cup {Null} /\ c = req[r].camp /\ Len(req[r].accounts) \in Nat
  BY <1>0, LenProperties, HeadTailProperties DEF TypeInv, TypeOK, LoadAccount, RequestOK, Request
<1>2. CASE PaymentFree(p)
  <2>1. to \in Request /\ to.camp = c /\ to.accounts = req[r].accounts /\ to.pc = "audit_loaded"
    <3>1. Len(rows) + 1 \in Nat /\ "audit_loaded" \in PCs /\ req[r] \in Request
      BY <1>1 DEF PCs
    <3>. HIDE DEF p
    <3>2. QED
      BY <1>1, <3>1 DEF Request
  <2>2. Step(r, to) /\ InsertRow(c, p) /\ campaign' = campaign /\ torn' = torn
    BY <1>1, <1>2 DEF LoadAccount
  <2>. HIDE DEF to, p
  <2>3. ASSUME c \notin torn PROVE Balanced(c)'
    <3>1. Balanced(c) /\ r \in Loaders(c) /\ r \notin Counters(c) /\ Left(r) = Len(req[r].accounts)
      BY <1>1, <2>3 DEF TotalInv, Loaders, Counters, Left, Loading
    <3>2. r \in Loaders(c)' /\ r \notin Counters(c)' /\ Left(r)' = Len(req[r].accounts) - 1
      BY <1>1, <2>1, <2>2, OthersStay DEF TypeInv, Loading
    <3>3. Loaders(c) = {r} /\ Loaders(c)' = {r} /\ Counters(c)' = Counters(c)
      <4>1. Loaders(c) = {r}
        BY <3>1 DEF Balanced
      <4>2. Loaders(c)' = {r}
        BY <1>1, <2>1, <2>2, <3>2, <4>1, OthersStay DEF TypeInv
      <4>3. Counters(c)' = Counters(c)
        BY <1>1, <2>1, <2>2, <3>1, <3>2, OthersStay DEF TypeInv, Counters
      <4>4. QED
        BY <4>1, <4>2, <4>3
    <3>4. Cardinality(RowsOf(c)') = Cardinality(RowsOf(c)) + 1
      BY <1>1, <2>2, RowMore DEF TypeInv
    <3>5. campaign[c].total + Cardinality(Counters(c)) = Cardinality(RowsOf(c)) + Left(r)
      BY <3>1 DEF Balanced
    <3>6. campaign'[c].total + Cardinality(Counters(c)') = Cardinality(RowsOf(c)') + Left(r)'
      <4>1. /\ campaign[c].total \in Nat /\ Cardinality(RowsOf(c)) \in Nat
            /\ Cardinality(Counters(c)) \in Nat
        BY Numbers DEF TypeInv
      <4>2. QED
        BY <1>1, <2>2, <3>1, <3>2, <3>3, <3>4, <3>5, <4>1
    <3>7. QED
      BY <3>3, <3>6 DEF Balanced
  <2>4. ASSUME NEW d \in Campaigns \ torn', d # c PROVE Balanced(d)'
    <3>1. RowsOf(d)' = RowsOf(d)
      BY <1>1, <2>2, <2>4, RowMore DEF TypeInv
    <3>2. ~ Counts(req[r], d) /\ ~ Counts(to, d)
      BY <1>1, <2>1, <2>4 DEF Counts
    <3>3. QED
      BY <2>1, <2>2, <2>4, <3>1, <3>2, Elsewhere DEF TotalInv, TypeInv
  <2>5. QED
    BY <2>2, <2>3, <2>4 DEF TotalInv
<1>3. CASE ~ PaymentFree(p)
  <2>1. Step(r, Idle) /\ torn' = torn \cup ({req[r].camp} \ {Null}) /\ UNCHANGED <<campaign, rows>>
    BY <1>3 DEF LoadAccount, Fails
  <2>2. \A d \in Campaigns : campaign'[d].total = campaign[d].total /\ RowsOf(d)' = RowsOf(d)
    BY <2>1 DEF RowsOf
  <2>3. QED
    BY <2>1, <2>2, EndBalances
<1>4. QED
  BY <1>2, <1>3

\* The audit of a loaded row moves on to the next account, or ends the load.
LEMMA AuditLoadedBalances ==
  ASSUME TypeInv, TotalInv, NEW r \in Handlers, AuditLoaded(r), RowsPlaced
  PROVE  TotalInv'
<1>0. PICK c \in Campaigns : c = req[r].camp
  BY DEF TypeInv, AuditLoaded, RequestOK
<1>. DEFINE left == Tail(req[r].accounts)
            to == IF left = <<>> THEN Idle ELSE [req[r] EXCEPT !.pc = "load", !.accounts = left]
<1>1. /\ req[r] \in Request /\ req[r].pc = "audit_loaded" /\ c = req[r].camp /\ left \in Accounts
      /\ Len(left) = Len(req[r].accounts) - 1 /\ Len(left) \in Nat /\ (left = <<>> <=> Len(left) = 0)
  <2>1. /\ req[r] \in Request /\ req[r].pc = "audit_loaded"
        /\ req[r].accounts \in Accounts /\ req[r].accounts # <<>>
    BY DEF TypeInv, TypeOK, AuditLoaded, RequestOK, Request, Accounts
  <2>2. left \in Accounts /\ Len(left) = Len(req[r].accounts) - 1
    BY <2>1, HeadTailProperties DEF Accounts
  <2>3. Len(left) \in Nat /\ (left = <<>> <=> Len(left) = 0)
    BY <2>2, LenProperties, EmptySeq DEF Accounts
  <2>4. QED
    BY <1>0, <2>1, <2>2, <2>3
<1>2. /\ to \in Request /\ (left = <<>> => to = Idle)
      /\ (left # <<>> => to.camp = c /\ to.accounts = left /\ to.pc = "load")
  BY <1>1, IdleRequest DEF Request, PCs, Accounts
<1>3. Step(r, to) /\ campaign' = campaign /\ torn' = torn
  BY DEF AuditLoaded
<1>. HIDE DEF to, left
<1>4. ASSUME c \notin torn PROVE Balanced(c)'
  <2>1. Balanced(c) /\ r \in Loaders(c) /\ r \notin Counters(c) /\ Left(r) = Len(left)
    BY <1>1, <1>4 DEF TotalInv, Loaders, Counters, Left, Loading
  <2>2. Loaders(c) = {r}
    BY <2>1 DEF Balanced
  <2>3. r \notin Counters(c)' /\ (left = <<>> => r \notin Loaders(c)')
        /\ (left # <<>> => r \in Loaders(c)' /\ Left(r)' = Len(left))
    BY <1>1, <1>2, <1>3, IntakeAssumption, OthersStay DEF TypeInv, Loading, Idle
  <2>4. Counters(c)' = Counters(c)
    BY <1>1, <1>2, <1>3, <2>1, <2>3, OthersStay DEF TypeInv, Counters
  <2>5. Loaders(c)' = IF left = <<>> THEN {} ELSE {r}
    <3>1. \A q \in Handlers \ {r} : q \notin Loaders(c)'
      BY <1>2, <1>3, <2>2, OthersStay DEF TypeInv
    <3>2. Loaders(c)' \subseteq Handlers
      BY <1>2, <1>3, OthersStay DEF TypeInv
    <3>3. QED
      BY <2>3, <3>1, <3>2
  <2>6. campaign[c].total + Cardinality(Counters(c)) = Cardinality(RowsOf(c)) + Len(left)
    BY <2>1 DEF Balanced
  <2>7. RowsOf(c)' = RowsOf(c)
    BY <1>1, SameRows
  <2>8. QED
    BY <1>1, <1>3, <2>3, <2>4, <2>5, <2>6, <2>7, Numbers DEF Balanced, TypeInv
<1>5. ASSUME NEW d \in Campaigns \ torn', d # c PROVE Balanced(d)'
  <2>1. ~ Counts(req[r], d) /\ ~ Counts(to, d)
    BY <1>1, <1>2, <1>5, IntakeAssumption DEF Counts, Idle, Loading
  <2>2. QED
    BY <1>2, <1>3, <1>5, <2>1, SameRows, Elsewhere DEF TotalInv, TypeInv
<1>6. QED
  BY <1>3, <1>4, <1>5 DEF TotalInv

\* An event's row is owed to the total until the next statement counts it.
LEMMA InsertSessionBalances ==
  ASSUME TypeInv, TotalInv, NEW r \in Handlers, InsertSession(r)
  PROVE  TotalInv'
<1>0. PICK c \in Campaigns : c = req[r].camp
  BY DEF TypeInv, InsertSession, RequestOK
<1>. DEFINE p == NullIfEmpty(req[r].payment)
            to == [req[r] EXCEPT !.pc = "increment", !.sess = Len(rows) + 1]
<1>1. /\ req[r] \in Request /\ req[r].pc = "insert" /\ Len(rows) \in Nat
      /\ p \in Payments \cup {Null} /\ c = req[r].camp
  BY <1>0, LenProperties DEF TypeInv, TypeOK, InsertSession, RequestOK, Request, NullIfEmpty
<1>2. CASE PaymentFree(p)
  <2>1. to \in Request /\ to.camp = c /\ to.pc = "increment"
    <3>1. Len(rows) + 1 \in Nat /\ "increment" \in PCs /\ req[r] \in Request
      BY <1>1 DEF PCs
    <3>. HIDE DEF p
    <3>2. QED
      BY <1>1, <3>1 DEF Request
  <2>2. Step(r, to) /\ InsertRow(c, p) /\ campaign' = campaign /\ torn' = torn
    BY <1>1, <1>2 DEF InsertSession
  <2>. HIDE DEF to, p
  <2>3. ASSUME c \notin torn PROVE Balanced(c)'
    <3>1. Balanced(c) /\ r \notin Loaders(c) /\ r \notin Counters(c)
      BY <1>1, <2>3 DEF TotalInv, Loaders, Counters, Loading
    <3>2. r \notin Loaders(c)' /\ r \in Counters(c)'
      BY <1>1, <2>1, <2>2, OthersStay DEF TypeInv, Loading
    <3>3. Loaders(c)' = Loaders(c) /\ Counters(c)' = Counters(c) \cup {r}
      BY <1>1, <2>1, <2>2, <3>1, <3>2, OthersStay DEF TypeInv, Loaders, Counters
    <3>4. \A q \in Loaders(c) : Left(q)' = Left(q) /\ Left(q) \in Int
      <4>1. \A q \in Loaders(c) : q # r /\ q \in Handlers /\ req[q].accounts \in Accounts
        BY <3>1 DEF Loaders, TypeInv, TypeOK, Request, Accounts
      <4>2. \A q \in Loaders(c) : Left(q) \in Int
        BY <4>1, LenProperties DEF Left, Accounts
      <4>3. QED
        BY <1>1, <2>1, <2>2, <4>1, <4>2, OthersStay DEF TypeInv
    <3>5. /\ Cardinality(RowsOf(c)') = Cardinality(RowsOf(c)) + 1
          /\ Cardinality(Counters(c)') = Cardinality(Counters(c)) + 1
      <4>1. Cardinality(RowsOf(c)') = Cardinality(RowsOf(c)) + 1
        BY <1>1, <2>2, RowMore DEF TypeInv
      <4>2. IsFiniteSet(Counters(c))
        BY Numbers DEF TypeInv
      <4>3. Cardinality(Counters(c) \cup {r}) = Cardinality(Counters(c)) + 1
        BY <3>1, <4>2, FS_AddElement
      <4>4. QED
        BY <3>3, <4>1, <4>3
    <3>6. /\ campaign[c].total \in Nat /\ Cardinality(RowsOf(c)) \in Nat
          /\ Cardinality(Counters(c)) \in Nat
      BY Numbers DEF TypeInv
    <3>7. /\ \A a, b \in Loaders(c) : a = b
          /\ \A q \in Loaders(c) : campaign[c].total + Cardinality(Counters(c)) = Cardinality(RowsOf(c)) + Left(q)
          /\ Loaders(c) = {} => campaign[c].total + Cardinality(Counters(c)) = Cardinality(RowsOf(c))
      BY <3>1 DEF Balanced
    <3>8. \A q \in Loaders(c) : campaign'[c].total + Cardinality(Counters(c)') = Cardinality(RowsOf(c)') + Left(q)'
      BY <2>2, <3>4, <3>5, <3>6, <3>7
    <3>9. Loaders(c)' = {} => campaign'[c].total + Cardinality(Counters(c)') = Cardinality(RowsOf(c)')
      BY <2>2, <3>3, <3>5, <3>6, <3>7
    <3>10. \A a, b \in Loaders(c)' : a = b
      BY <3>3, <3>7
    <3>11. \A q \in Loaders(c)' : campaign'[c].total + Cardinality(Counters(c)') = Cardinality(RowsOf(c)') + Left(q)'
      BY <3>3, <3>8
    <3>12. QED
      BY <3>9, <3>10, <3>11 DEF Balanced
  <2>4. ASSUME NEW d \in Campaigns \ torn', d # c PROVE Balanced(d)'
    <3>1. RowsOf(d)' = RowsOf(d)
      BY <1>1, <2>2, <2>4, RowMore DEF TypeInv
    <3>2. ~ Counts(req[r], d) /\ ~ Counts(to, d)
      BY <1>1, <2>1, <2>4 DEF Counts
    <3>3. QED
      BY <2>1, <2>2, <2>4, <3>1, <3>2, Elsewhere DEF TotalInv, TypeInv
  <2>5. QED
    BY <2>2, <2>3, <2>4 DEF TotalInv
<1>3. CASE ~ PaymentFree(p)
  <2>1. Step(r, Idle) /\ torn' = torn \cup ({req[r].camp} \ {Null}) /\ UNCHANGED <<campaign, rows>>
    BY <1>3 DEF InsertSession, Fails
  <2>2. \A d \in Campaigns : campaign'[d].total = campaign[d].total /\ RowsOf(d)' = RowsOf(d)
    BY <2>1 DEF RowsOf
  <2>3. QED
    BY <1>1, <2>1, <2>2, EndBalances
<1>4. QED
  BY <1>2, <1>3

LEMMA IncrementBalances ==
  ASSUME TypeInv, TotalInv, NEW r \in Handlers, IncrementCampaignTotal(r)
  PROVE  TotalInv'
<1>0. PICK c \in Campaigns : c = req[r].camp
  BY DEF TypeInv, IncrementCampaignTotal, RequestOK
<1>. DEFINE to == [req[r] EXCEPT !.pc = "audit_webhook"]
<1>1. req[r] \in Request /\ req[r].pc = "increment" /\ c = req[r].camp
  BY <1>0 DEF TypeInv, TypeOK, IncrementCampaignTotal, RequestOK
<1>2. to \in Request /\ to.pc = "audit_webhook"
  BY <1>1 DEF Request, PCs
<1>3. /\ Step(r, to) /\ torn' = torn /\ rows' = rows
      /\ campaign' = [campaign EXCEPT ![c].total = @ + 1]
  BY <1>1 DEF IncrementCampaignTotal
<1>. HIDE DEF to
<1>4. /\ campaign'[c].total = campaign[c].total + 1
      /\ \A d \in Campaigns \ {c} : campaign'[d].total = campaign[d].total
  BY <1>1, <1>3 DEF TypeInv, TypeOK, Campaign
<1>5. \A d \in Campaigns : RowsOf(d)' = RowsOf(d)
  BY <1>3 DEF RowsOf
<1>6. ASSUME c \notin torn PROVE Balanced(c)'
  <2>1. Balanced(c) /\ r \notin Loaders(c) /\ r \in Counters(c)
    BY <1>1, <1>6 DEF TotalInv, Loaders, Counters, Loading
  <2>2. r \notin Loaders(c)' /\ r \notin Counters(c)'
    BY <1>1, <1>2, <1>3, OthersStay DEF TypeInv, Loading
  <2>3. Loaders(c)' = Loaders(c) /\ Counters(c)' = Counters(c) \ {r}
    BY <1>1, <1>2, <1>3, <2>1, <2>2, OthersStay DEF TypeInv, Loaders, Counters
  <2>4. \A q \in Loaders(c) : Left(q)' = Left(q) /\ Left(q) \in Int
    <3>1. \A q \in Loaders(c) : q # r /\ q \in Handlers /\ req[q].accounts \in Accounts
      BY <2>1 DEF Loaders, TypeInv, TypeOK, Request, Accounts
    <3>2. \A q \in Loaders(c) : Left(q) \in Int
      BY <3>1, LenProperties DEF Left, Accounts
    <3>3. QED
      BY <1>1, <1>2, <1>3, <3>1, <3>2, OthersStay DEF TypeInv
  <2>5. Cardinality(Counters(c)') = Cardinality(Counters(c)) - 1
    <3>1. IsFiniteSet(Counters(c))
      BY Numbers DEF TypeInv
    <3>2. Cardinality(Counters(c) \ {r}) = Cardinality(Counters(c)) - 1
      BY <2>1, <3>1, FS_RemoveElement
    <3>3. QED
      BY <2>3, <3>2
  <2>6. QED
    BY <1>1, <1>4, <1>5, <2>1, <2>3, <2>4, <2>5, Numbers DEF Balanced, TypeInv
<1>7. ASSUME NEW d \in Campaigns \ torn', d # c PROVE Balanced(d)'
  <2>1. ~ Counts(req[r], d) /\ ~ Counts(to, d)
    BY <1>1, <1>2, <1>7 DEF Counts, Loading
  <2>2. QED
    BY <1>2, <1>3, <1>4, <1>5, <1>7, <2>1, Elsewhere DEF TotalInv, TypeInv
<1>8. QED
  BY <1>3, <1>6, <1>7 DEF TotalInv

\* The rest of an event's statements, and how a delivery begins.
LEMMA EventBalances ==
  ASSUME TypeInv, TotalInv, NEW r \in Handlers,
         \/ Dedupe(r)
         \/ AuditWebhook(r) /\ RowsPlaced
         \/ AuditCreated(r) /\ RowsPlaced
         \/ \E p \in Payments : HandlePaymentFailed(r, p)
  PROVE  TotalInv'
<1>1. /\ torn' = torn /\ req[r] \in Request /\ req[r].pc \notin Loading \cup {"increment"}
      /\ \A c \in Campaigns : campaign'[c].total = campaign[c].total
  BY DEF Dedupe, AuditWebhook, AuditCreated, HandlePaymentFailed, Drop, Begin, Loading, TypeInv, TypeOK
<1>2. \A c \in Campaigns : RowsOf(c)' = RowsOf(c)
  BY SameRows DEF Dedupe, HandlePaymentFailed, Drop, RowsOf
<1>3. \/ Step(r, Idle)
      \/ \E pc \in {"insert", "audit_created"} : Step(r, [req[r] EXCEPT !.pc = pc])
      \/ \E c \in Campaigns, p \in Payments : Step(r, [Idle EXCEPT !.pc = "dedupe", !.camp = c, !.payment = p])
  BY DEF Dedupe, Ack, AuditWebhook, AuditCreated, HandlePaymentFailed, Drop, Begin
<1>4. CASE Step(r, Idle)
  BY <1>1, <1>2, <1>4, EndBalances
<1>5. ASSUME NEW pc \in {"insert", "audit_created"}, Step(r, [req[r] EXCEPT !.pc = pc]) PROVE TotalInv'
  <2>. DEFINE to == [req[r] EXCEPT !.pc = pc]
  <2>1. to \in Request /\ to.pc = pc
    BY <1>1 DEF Request, PCs
  <2>2. Step(r, to)
    BY <1>5
  <2>. HIDE DEF to
  <2>3. to.pc \notin Loading \cup {"increment"}
    BY <2>1 DEF Loading
  <2>4. QED
    BY <1>1, <1>2, <2>1, <2>2, <2>3, MoveBalances
<1>6. ASSUME NEW c \in Campaigns, NEW p \in Payments,
             Step(r, [Idle EXCEPT !.pc = "dedupe", !.camp = c, !.payment = p])
      PROVE  TotalInv'
  <2>. DEFINE to == [Idle EXCEPT !.pc = "dedupe", !.camp = c, !.payment = p]
  <2>1. to \in Request /\ to.pc = "dedupe"
    BY EmptySeq DEF Idle, Request, PCs
  <2>2. Step(r, to)
    BY <1>6
  <2>. HIDE DEF to
  <2>3. to.pc \notin Loading \cup {"increment"}
    BY <2>1 DEF Loading
  <2>4. QED
    BY <1>1, <1>2, <2>1, <2>2, <2>3, MoveBalances
<1>7. QED
  BY <1>3, <1>4, <1>5, <1>6

LEMMA AbortBalances ==
  ASSUME TypeInv, TotalInv, NEW r \in Handlers, Abort(r)
  PROVE  TotalInv'
<1>1. /\ Step(r, Idle) /\ torn' = torn \cup ({req[r].camp} \ {Null})
      /\ \A c \in Campaigns : campaign'[c].total = campaign[c].total /\ RowsOf(c)' = RowsOf(c)
  BY DEF Abort, Fails, RowsOf
<1>2. QED
  BY <1>1, EndBalances

LEMMA AroundBalances ==
  ASSUME TypeInv, TotalInv, RowsPlaced,
         \/ UNCHANGED vars
         \/ \E r \in Handlers, p \in Payments : HandlePaymentCaptured(r, p)
         \/ \E p \in Payments : PaymentFails(p) \/ PaymentCaptured(p)
         \/ \E c \in Campaigns : PauseCampaign(c)
  PROVE  TotalInv'
<1>1. /\ req' = req /\ torn' = torn
      /\ \A c \in Campaigns : campaign'[c].total = campaign[c].total
  <2>1. ASSUME NEW d \in Campaigns, PauseCampaign(d)
        PROVE  \A c \in Campaigns : campaign'[c].total = campaign[c].total
    BY <2>1 DEF PauseCampaign, TypeInv, TypeOK, Campaign
  <2>2. campaign' = campaign \/ \E d \in Campaigns : PauseCampaign(d)
    BY DEF vars, HandlePaymentCaptured, PaymentFails, PaymentCaptured
  <2>3. req' = req /\ torn' = torn
    BY DEF vars, HandlePaymentCaptured, PaymentFails, PaymentCaptured, PauseCampaign
  <2>4. QED
    BY <2>1, <2>2, <2>3
<1>2. \A c \in Campaigns : /\ RowsOf(c)' = RowsOf(c)
                           /\ Loaders(c)' = Loaders(c) /\ Counters(c)' = Counters(c)
                           /\ \A q \in Loaders(c) : Left(q)' = Left(q)
  BY <1>1, SameRows DEF Loaders, Counters, Left
<1>3. QED
  BY <1>1, <1>2, SameBalance DEF TotalInv

LEMMA NextTotalInv == TypeInv /\ TotalInv /\ [Next]_vars => TotalInv'
<1>. SUFFICES ASSUME TypeInv, TotalInv, [Next]_vars PROVE TotalInv'
  OBVIOUS
<1>1. ASSUME NEW r \in Handlers, AuditLoaded(r) \/ AuditWebhook(r) \/ AuditCreated(r) PROVE RowsPlaced
  BY <1>1, AuditPlaces
<1>2. ASSUME NEW r \in Handlers, Continue(r) PROVE TotalInv'
  BY <1>1, <1>2, LoadAccountBalances, AuditLoadedBalances, InsertSessionBalances, IncrementBalances,
     EventBalances DEF Continue
<1>3. ASSUME \/ UNCHANGED vars
             \/ \E r \in Handlers, p \in Payments : HandlePaymentCaptured(r, p)
             \/ \E p \in Payments : PaymentFails(p) \/ PaymentCaptured(p)
             \/ \E c \in Campaigns : PauseCampaign(c)
      PROVE  RowsPlaced
  <2>1. CASE \E r \in Handlers, p \in Payments : HandlePaymentCaptured(r, p)
    BY <2>1, RowsRecovered DEF HandlePaymentCaptured, RowsPlaced, TypeInv
  <2>2. CASE rows' = rows
    BY <2>2 DEF RowsPlaced
  <2>3. QED
    BY <1>3, <2>1, <2>2 DEF vars, PaymentFails, PaymentCaptured, PauseCampaign
<1>4. QED
  BY <1>2, <1>3, CreateCampaignBalances, EventBalances, AbortBalances, AroundBalances DEF Next, Deliver

LEMMA InitTotalInv == Init => TotalInv
<1>. SUFFICES ASSUME Init, NEW c \in Campaigns PROVE Balanced(c)
  BY DEF TotalInv
<1>1. RowsOf(c) = {} /\ Loaders(c) = {} /\ Counters(c) = {}
  BY EmptySeq, IntakeAssumption DEF Init, RowsOf, Loaders, Counters, Idle
<1>2. campaign[c].total = 0 /\ Cardinality({}) = 0
  BY FS_EmptySet DEF Init
<1>3. QED
  BY <1>1, <1>2 DEF Balanced

\* The increments that run beside a load and beside each other lose nothing: once its
\* requests are done a campaign's total counts its sessions, unless one ended in an error.
THEOREM TotalExact == Spec => []TotalExactUnlessTorn
<1>1. TypeInv /\ TotalInv => TotalExactUnlessTorn
  <2>. SUFFICES ASSUME TypeInv, TotalInv, NEW c \in Campaigns, ~ AtWork(c), c \notin torn
                PROVE  campaign[c].total = Cardinality(RowsOf(c))
    BY DEF TotalExactUnlessTorn
  <2>1. Loaders(c) = {} /\ Counters(c) = {}
    BY DEF AtWork, Loaders, Counters
  <2>2. Cardinality(Counters(c)) = 0
    BY <2>1, FS_EmptySet
  <2>3. QED
    BY <2>1, <2>2, Numbers DEF TotalInv, Balanced, TypeInv
<1>2. QED
  BY InitTypeInv, NextTypeInv, InitTotalInv, NextTotalInv, <1>1, PTL DEF Spec

(***************************************************************************)
(* What an acknowledgement rests on.                                       *)
(***************************************************************************)
Inserted == {"increment", "audit_webhook", "audit_created"}

\* An event past its insert has its row, at the place the request remembers.
RowOfEvent(r) ==
  req[r].pc \in Inserted => rows[req[r].sess].payment = NullIfEmpty(req[r].payment)

EventInv == \A r \in Handlers : RowOfEvent(r)

\* No row is lost, and none changes its payment.
PaymentsStay ==
  Len(rows) <= Len(rows') /\ \A i \in 1 .. Len(rows) : rows'[i].payment = rows[i].payment

LEMMA PaymentsKept ==
  ASSUME TypeInv, [Next]_vars
  PROVE  PaymentsStay
<1>1. Len(rows) \in Nat
  BY LenProperties DEF TypeInv, TypeOK
<1>2. CASE RowsPlaced
  BY <1>1, <1>2 DEF RowsPlaced, PaymentsStay
<1>3. ASSUME NEW c \in Campaigns, NEW p \in Payments \cup {Null}, InsertRow(c, p) PROVE PaymentsStay
  <2>1. Len(rows') = Len(rows) + 1 /\ \A i \in 1 .. Len(rows) : rows'[i] = rows[i]
    BY <1>3, RowAppended DEF TypeInv
  <2>2. QED
    BY <1>1, <2>1 DEF PaymentsStay
<1>4. QED
  BY <1>2, <1>3, RowStep

LEMMA OthersRows ==
  ASSUME TypeInv, EventInv, PaymentsStay, NEW q \in Handlers, req'[q] = req[q]
  PROVE  RowOfEvent(q)'
<1>1. req[q].pc \in Inserted => req[q].sess \in 1 .. Len(rows)
  BY DEF TypeInv, RequestOK, Inserted
<1>2. QED
  BY <1>1 DEF EventInv, RowOfEvent, PaymentsStay

\* One request moves: the others have their rows, and so has it.
LEMMA OneMoves ==
  ASSUME TypeInv, EventInv, PaymentsStay, NEW r \in Handlers, NEW to \in Request, Step(r, to),
         to.pc \in Inserted => rows'[to.sess].payment = NullIfEmpty(to.payment)
  PROVE  EventInv'
<1>1. req'[r] = to /\ \A q \in Handlers \ {r} : req'[q] = req[q]
  BY OneHandler DEF TypeInv
<1>2. RowOfEvent(r)'
  BY <1>1 DEF RowOfEvent
<1>3. \A q \in Handlers \ {r} : RowOfEvent(q)'
  BY <1>1, OthersRows
<1>4. QED
  BY <1>2, <1>3 DEF EventInv

LEMMA NotInserted ==
  ASSUME TypeInv, EventInv, PaymentsStay, NEW r \in Handlers, NEW to \in Request, Step(r, to),
         to.pc \notin Inserted
  PROVE  EventInv'
BY OneMoves

LEMMA InsertSessionRow ==
  ASSUME TypeInv, EventInv, PaymentsStay, NEW r \in Handlers, InsertSession(r),
         PaymentFree(NullIfEmpty(req[r].payment))
  PROVE  EventInv'
<1>. DEFINE to == [req[r] EXCEPT !.pc = "increment", !.sess = Len(rows) + 1]
<1>1. /\ req[r] \in Request /\ req[r].camp \in Campaigns /\ Len(rows) + 1 \in Nat
      /\ NullIfEmpty(req[r].payment) \in Payments \cup {Null}
  BY LenProperties DEF TypeInv, TypeOK, InsertSession, RequestOK, Request, NullIfEmpty
<1>2. to \in Request /\ to.sess = Len(rows) + 1 /\ to.payment = req[r].payment
  BY <1>1 DEF Request, PCs
<1>3. Step(r, to) /\ InsertRow(req[r].camp, NullIfEmpty(req[r].payment))
  BY DEF InsertSession
<1>. HIDE DEF to
<1>4. rows'[to.sess].payment = NullIfEmpty(to.payment)
  BY <1>1, <1>2, <1>3, RowAppended DEF TypeInv
<1>5. QED
  BY <1>2, <1>3, <1>4, OneMoves

LEMMA NextStatementRow ==
  ASSUME TypeInv, EventInv, PaymentsStay, NEW r \in Handlers,
         IncrementCampaignTotal(r) \/ AuditWebhook(r)
  PROVE  EventInv'
<1>1. PICK pc \in {"audit_webhook", "audit_created"} : Step(r, [req[r] EXCEPT !.pc = pc])
  BY DEF IncrementCampaignTotal, AuditWebhook
<1>. DEFINE to == [req[r] EXCEPT !.pc = pc]
<1>2. /\ req[r] \in Request /\ req[r].sess \in 1 .. Len(rows)
      /\ rows[req[r].sess].payment = NullIfEmpty(req[r].payment)
  BY DEF TypeInv, TypeOK, RequestOK, IncrementCampaignTotal, AuditWebhook, EventInv, RowOfEvent, Inserted
<1>3. to \in Request /\ to.sess = req[r].sess /\ to.payment = req[r].payment
  BY <1>2 DEF Request, PCs
<1>4. Step(r, to)
  BY <1>1
<1>. HIDE DEF to
<1>5. rows'[to.sess].payment = NullIfEmpty(to.payment)
  BY <1>2, <1>3 DEF PaymentsStay
<1>6. QED
  BY <1>3, <1>4, <1>5, OneMoves

LEMMA RequestTyped ==
  ASSUME TypeOK, NEW r \in Handlers
  PROVE  req[r] \in Request /\ Len(rows) + 1 \in Nat
BY LenProperties DEF TypeOK

\* A request that starts, ends or has not inserted its row yet.
LEMMA BeforeInsert ==
  ASSUME TypeInv, EventInv, PaymentsStay, NEW r \in Handlers, NEW to, Step(r, to),
         \/ to = Idle
         \/ \E c \in Campaigns, accounts \in Batches : to = [Idle EXCEPT !.pc = "load", !.camp = c, !.accounts = accounts]
         \/ \E c \in Campaigns, p \in Payments : to = [Idle EXCEPT !.pc = "dedupe", !.camp = c, !.payment = p]
         \/ to = [req[r] EXCEPT !.pc = "audit_loaded", !.sess = Len(rows) + 1]
         \/ \E left \in Accounts : to = [req[r] EXCEPT !.pc = "load", !.accounts = left]
         \/ to = [req[r] EXCEPT !.pc = "insert"]
  PROVE  EventInv'
<1>1. req[r] \in Request /\ Len(rows) + 1 \in Nat
  BY RequestTyped DEF TypeInv
<1>2. CASE to = Idle
  <2>1. Idle.pc \notin Inserted
    BY DEF Idle, Inserted
  <2>2. QED
    BY <1>2, <2>1, IdleRequest, NotInserted
<1>3. ASSUME NEW c \in Campaigns, NEW accounts \in Batches,
             to = [Idle EXCEPT !.pc = "load", !.camp = c, !.accounts = accounts]
      PROVE  EventInv'
  <2>1. accounts \in Accounts
    BY IntakeAssumption DEF Accounts
  <2>2. to \in Request /\ to.pc = "load"
    BY <1>3, <2>1 DEF Idle, Request, PCs, Accounts
  <2>3. QED
    BY <2>2, NotInserted DEF Inserted
<1>4. ASSUME NEW c \in Campaigns, NEW p \in Payments,
             to = [Idle EXCEPT !.pc = "dedupe", !.camp = c, !.payment = p]
      PROVE  EventInv'
  <2>1. to \in Request /\ to.pc = "dedupe"
    BY <1>4, EmptySeq DEF Idle, Request, PCs
  <2>2. QED
    BY <2>1, NotInserted DEF Inserted
<1>5. CASE to = [req[r] EXCEPT !.pc = "audit_loaded", !.sess = Len(rows) + 1]
  <2>1. to \in Request /\ to.pc = "audit_loaded"
    BY <1>1, <1>5 DEF Request, PCs
  <2>2. QED
    BY <2>1, NotInserted DEF Inserted
<1>6. ASSUME NEW left \in Accounts, to = [req[r] EXCEPT !.pc = "load", !.accounts = left]
      PROVE  EventInv'
  <2>1. to \in Request /\ to.pc = "load"
    BY <1>1, <1>6 DEF Request, PCs, Accounts
  <2>2. QED
    BY <2>1, NotInserted DEF Inserted
<1>7. CASE to = [req[r] EXCEPT !.pc = "insert"]
  <2>1. to \in Request /\ to.pc = "insert"
    BY <1>1, <1>7 DEF Request, PCs
  <2>2. QED
    BY <2>1, NotInserted DEF Inserted
<1>8. QED
  BY <1>2, <1>3, <1>4, <1>5, <1>6, <1>7

LEMMA NextEventInv == TypeInv /\ EventInv /\ [Next]_vars => EventInv'
<1>. SUFFICES ASSUME TypeInv, EventInv, [Next]_vars PROVE EventInv'
  OBVIOUS
<1>1. PaymentsStay
  BY PaymentsKept
<1>2. ASSUME req' = req PROVE EventInv'
  <2>1. \A q \in Handlers : RowOfEvent(q)'
    BY <1>1, <1>2, OthersRows
  <2>2. QED
    BY <2>1 DEF EventInv
<1>3. ASSUME NEW r \in Handlers, Step(r, Idle) PROVE EventInv'
  BY <1>1, <1>3, BeforeInsert
<1>4. ASSUME NEW r \in Handlers, LoadAccount(r) PROVE EventInv'
  <2>1. Step(r, Idle) \/ Step(r, [req[r] EXCEPT !.pc = "audit_loaded", !.sess = Len(rows) + 1])
    BY <1>4 DEF LoadAccount, Fails
  <2>2. QED
    BY <1>1, <2>1, BeforeInsert
<1>5. ASSUME NEW r \in Handlers, AuditLoaded(r) PROVE EventInv'
  <2>1. Tail(req[r].accounts) \in Accounts
    BY <1>5, HeadTailProperties DEF AuditLoaded, TypeInv, TypeOK, RequestOK, Request, Accounts
  <2>2. Step(r, Idle) \/ Step(r, [req[r] EXCEPT !.pc = "load", !.accounts = Tail(req[r].accounts)])
    BY <1>5 DEF AuditLoaded
  <2>3. QED
    BY <1>1, <2>1, <2>2, BeforeInsert
<1>6. ASSUME NEW r \in Handlers, Dedupe(r) PROVE EventInv'
  <2>1. Step(r, Idle) \/ Step(r, [req[r] EXCEPT !.pc = "insert"])
    BY <1>6 DEF Dedupe, Ack
  <2>2. QED
    BY <1>1, <2>1, BeforeInsert
<1>7. ASSUME NEW r \in Handlers, InsertSession(r) PROVE EventInv'
  <2>1. Step(r, Idle) \/ PaymentFree(NullIfEmpty(req[r].payment))
    BY <1>7 DEF InsertSession, Fails
  <2>2. QED
    BY <1>1, <1>3, <1>7, <2>1, InsertSessionRow
<1>8. ASSUME NEW r \in Handlers, IncrementCampaignTotal(r) \/ AuditWebhook(r) PROVE EventInv'
  BY <1>1, <1>8, NextStatementRow
<1>9. ASSUME NEW r \in Handlers, AuditCreated(r) \/ Abort(r) PROVE EventInv'
  BY <1>3, <1>9 DEF AuditCreated, Ack, Abort, Fails
<1>10. ASSUME NEW r \in Handlers, NEW c \in Campaigns, NEW accounts \in Batches, CreateCampaign(r, c, accounts)
       PROVE  EventInv'
  BY <1>1, <1>10, BeforeInsert DEF CreateCampaign, Begin
<1>11. ASSUME NEW r \in Handlers, NEW p \in Payments, HandlePaymentFailed(r, p) PROVE EventInv'
  <2>1. Step(r, Idle) \/ \E c \in Campaigns : Step(r, [Idle EXCEPT !.pc = "dedupe", !.camp = c, !.payment = p])
    BY <1>11 DEF HandlePaymentFailed, Drop, Begin
  <2>2. QED
    BY <1>1, <1>3, <2>1, BeforeInsert
<1>12. ASSUME \/ UNCHANGED vars
              \/ \E r \in Handlers, p \in Payments : HandlePaymentCaptured(r, p)
              \/ \E p \in Payments : PaymentFails(p) \/ PaymentCaptured(p)
              \/ \E c \in Campaigns : PauseCampaign(c)
       PROVE  req' = req
  BY <1>12 DEF vars, HandlePaymentCaptured, PaymentFails, PaymentCaptured, PauseCampaign
<1>13. ASSUME NEW r \in Handlers, Continue(r) PROVE EventInv'
  BY <1>4, <1>5, <1>6, <1>7, <1>8, <1>9, <1>13 DEF Continue
<1>14. QED
  BY <1>2, <1>9, <1>10, <1>11, <1>12, <1>13 DEF Next, Deliver

\* No delivery is acknowledged on another's promise: an event that is answered 200 while
\* some campaign is active has, at that moment, the session of its payment in the table.
THEOREM AckedAfterQueued == Spec => AckedIsQueued
<1>. DEFINE Queued(p) == NoneActive \/ \E i \in 1 .. Len(rows) : rows[i].payment = p
            Answered == \A p \in Payments \ Unnamed : p \in acked' \ acked => Queued(p)
<1>1. TypeInv /\ EventInv /\ [Next]_vars => [Answered]_vars
  <2>. SUFFICES ASSUME TypeInv, EventInv, [Next]_vars, NEW p \in Payments \ Unnamed, p \in acked' \ acked
                PROVE  Queued(p)
    OBVIOUS
  <2>1. \/ \E r \in Handlers : Dedupe(r) \/ AuditCreated(r)
        \/ \E r \in Handlers, e \in Payments : HandlePaymentFailed(r, e)
    BY DEF Next, Continue, Deliver, vars, CreateCampaign, LoadAccount, AuditLoaded, InsertSession,
           IncrementCampaignTotal, AuditWebhook, HandlePaymentCaptured, Abort, PaymentFails,
           PaymentCaptured, PauseCampaign
  <2>2. ASSUME NEW r \in Handlers, Dedupe(r) PROVE Queued(p)
    BY <2>2 DEF Dedupe, Ack, Known
  <2>3. ASSUME NEW r \in Handlers, AuditCreated(r) PROVE Queued(p)
    <3>1. /\ req[r].payment = p /\ req[r].sess \in 1 .. Len(rows)
          /\ rows[req[r].sess].payment = NullIfEmpty(req[r].payment)
      BY <2>3 DEF AuditCreated, Ack, TypeInv, RequestOK, EventInv, RowOfEvent, Inserted
    <3>2. QED
      BY <3>1 DEF NullIfEmpty
  <2>4. ASSUME NEW r \in Handlers, NEW e \in Payments, HandlePaymentFailed(r, e) PROVE Queued(p)
    BY <2>4 DEF HandlePaymentFailed, Drop
  <2>5. QED
    BY <2>1, <2>2, <2>3, <2>4
<1>2. Init => EventInv
  BY DEF Init, EventInv, RowOfEvent, Idle, Inserted
<1>3. [Answered]_vars <=> [\A p \in Payments \ Unnamed :
        p \in acked' \ acked => NoneActive \/ \E i \in 1 .. Len(rows) : rows[i].payment = p]_vars
  OBVIOUS
<1>. HIDE DEF Answered
<1>4. Spec => [][Answered]_vars
  BY InitTypeInv, NextTypeInv, NextEventInv, <1>1, <1>2, PTL DEF Spec
<1>5. QED
  BY <1>3, <1>4, PTL DEF AckedIsQueued
=============================================================================
