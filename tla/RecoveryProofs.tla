--------------------------- MODULE RecoveryProofs ---------------------------
(***************************************************************************)
(* Proofs about module Recovery: its types, what is counted once, calls,   *)
(* the audit trail, the payment links, from the request that creates one   *)
(* over the row that carries it to the event that is acknowledged for it,  *)
(* and that it implements ContactPolicy.  Then about CampaignViews, which  *)
(* runs it: whom the queue shows as finished with, and what the metrics    *)
(* count.  Every theorem follows from an inductive invariant, built on the *)
(* type invariant and on what each request knows in each control state.    *)
(***************************************************************************)
EXTENDS CampaignViews, FiniteSetTheorems, WellFoundedInduction, TLAPS

(***************************************************************************)
(* Type correctness.  A handler that is past its first statement knows its *)
(* session, and what it is about to write or acknowledge.                  *)
(***************************************************************************)
Knows(q) ==
  /\ q.pc # "idle" => q.sess \in Sessions
  /\ q.pc = "record" => q.write \in OutcomeWrite
  /\ q.pc \in {"mark", "audit_captured"} => q.event \in PaymentEvents

RequestOK == \A r \in Handlers : Knows(req[r])

TypeInv == TypeOK /\ RequestOK

\* An outcome is written with a status the schema has, a timer that is a time
\* or NULL, and the link it was given.
LEMMA OutcomeWriteType ==
  ASSUME TypeOK, NEW s \in Sessions, NEW report \in Reports,
         NEW link \in Links \cup {Null}
  PROVE  BuildOutcomeWrite(s, report.outcome, report.date, link) \in OutcomeWrite
<1>. USE RecoveryAssumption
<1>1. now \in Nat /\ FollowUp \in Nat
  BY DEF TypeOK, FollowUp
<1>2. report.outcome \in {"AGREED", "REFUSED", "UNCLEAR", "PROMISED"}
      /\ report.date \in Nat \cup {Null}
  BY DEF Reports
<1>3. PromisedFollowUp(report.date) \in Nat
  BY <1>1, <1>2 DEF PromisedFollowUp
<1>4. QED
  BY <1>1, <1>2, <1>3 DEF BuildOutcomeWrite, OutcomeWrite

\* Appending audit rows keeps the log a count of rows.
LEMMA LogType ==
  ASSUME TypeOK, NEW s \in Sessions, NEW events, Log(s, events)
  PROVE  audit' \in [Sessions -> [EventTypes -> Nat]]
BY DEF Log, TypeOK

\* Writing a status, a timer and a link keeps every row well typed.
LEMMA WriteType ==
  ASSUME TypeOK, NEW s \in Sessions, NEW status \in Statuses,
         NEW next \in Nat \cup {Null}, NEW link \in Links \cup {Null}
  PROVE  /\ [row EXCEPT ![s].status = status, ![s].next = next] \in [Sessions -> Row]
         /\ [row EXCEPT ![s].status = status, ![s].next = next, ![s].link = link]
              \in [Sessions -> Row]
<1>1. row[s] \in Row
  BY DEF TypeOK
<1>2. QED
  BY <1>1 DEF TypeOK, Row

\* A handler that moves on to a well-typed state leaves the others alone.
LEMMA MoveType ==
  ASSUME TypeInv, NEW r \in Handlers, NEW q \in Request, Knows(q),
         req' = [req EXCEPT ![r] = q]
  PROVE  req' \in [Handlers -> Request] /\ RequestOK'
BY DEF TypeInv, TypeOK, RequestOK, Knows, OutcomeWrite, PaymentEvents

LEMMA AnswerType ==
  ASSUME TypeInv, NEW r \in Handlers, req' = [req EXCEPT ![r] = Idle]
  PROVE  req' \in [Handlers -> Request] /\ RequestOK'
<1>1. Idle \in Request /\ Knows(Idle)
  BY DEF Idle, Request, PCs, Knows
<1>2. QED
  BY <1>1, MoveType

LEMMA InitTypeInv == Init => TypeInv
BY RecoveryAssumption
   DEF Init, TypeInv, TypeOK, RequestOK, Knows, Row, Statuses, PLink, NoLink, Request, PCs, Idle

LEMMA NextTypeInv == TypeInv /\ [Next]_vars => TypeInv'
<1>. USE RecoveryAssumption
<1>. SUFFICES ASSUME TypeInv, [Next]_vars PROVE TypeInv'
  OBVIOUS
<1>0. TypeOK /\ RequestOK
  BY DEF TypeInv
<1>1. ASSUME NEW r \in Handlers, NEW c \in Calls, NEW s \in Sessions,
             AssignNextPending(r, c, s)
      PROVE  TypeInv'
  <2>. DEFINE q == [Idle EXCEPT !.pc = "audit_assigned", !.sess = s]
  <2>1. row[s] \in Row /\ row[s].attempts + 1 \in 0 .. MaxContactAttempts
    BY <1>0, <1>1
    DEF TypeOK, Row, AssignNextPending, LongestWaiting, EligibleNow, StillContactable
  <2>2. row' \in [Sessions -> Row]
    BY <1>0, <1>1, <2>1 DEF TypeOK, AssignNextPending, Row, Statuses
  <2>3. q \in Request /\ Knows(q)
    BY DEF Idle, Request, PCs, Knows
  <2>4. req' \in [Handlers -> Request] /\ RequestOK' /\ served' \in Nat
    <3>1. req' = [req EXCEPT ![r] = q] /\ served' \in Nat
      BY <1>0, <1>1 DEF AssignNextPending, Begin, TypeOK
    <3>. HIDE DEF q
    <3>. QED BY <2>3, <3>1, MoveType
  <2>5. QED
    BY <1>0, <1>1, <2>2, <2>4 DEF AssignNextPending, TypeInv, TypeOK
<1>2. ASSUME NEW r \in Handlers, AuditAssigned(r) PROVE TypeInv'
  <2>1. req[r].sess \in Sessions
    BY <1>0, <1>2 DEF RequestOK, Knows, AuditAssigned
  <2>2. QED
    BY <1>0, <1>2, <2>1, LogType, AnswerType DEF AuditAssigned, Answer, TypeInv, TypeOK
<1>3. ASSUME NEW r \in Handlers, NEW c \in Calls, NEW report \in Reports,
             EndSession(r, c, report)
      PROVE  TypeInv'
  <2>1. PICK s \in Sessions :
          LET read == [Idle EXCEPT !.sess = s, !.call = c, !.seen = row[s].status] IN
            IF report.outcome = "AGREED"
            THEN Begin(r, [read EXCEPT !.pc = "create_link"])
            ELSE Begin(r, [read EXCEPT !.pc = "record",
                    !.write = BuildOutcomeWrite(s, report.outcome, report.date, Null)])
    BY <1>3 DEF EndSession
  <2>. DEFINE read == [Idle EXCEPT !.sess = s, !.call = c, !.seen = row[s].status]
              write == BuildOutcomeWrite(s, report.outcome, report.date, Null)
              q1 == [read EXCEPT !.pc = "create_link"]
              q2 == [read EXCEPT !.pc = "record", !.write = write]
  <2>2. row[s].status \in Statuses
    BY <1>0 DEF TypeOK, Row
  <2>3. write \in OutcomeWrite
    BY <1>0, OutcomeWriteType
  <2>4. q1 \in Request /\ Knows(q1)
    BY <2>2 DEF Idle, Request, PCs, Knows
  <2>5. q2 \in Request /\ Knows(q2)
    <3>. HIDE DEF write
    <3>. QED BY <2>2, <2>3 DEF Idle, Request, PCs, Knows
  <2>6. Begin(r, q1) \/ Begin(r, q2)
    BY <2>1
  <2>7. req' \in [Handlers -> Request] /\ RequestOK' /\ served' \in Nat
    <3>. HIDE DEF q1, q2
    <3>. QED BY <1>0, <2>4, <2>5, <2>6, MoveType DEF Begin, TypeOK
  <2>8. QED
    BY <1>0, <1>3, <2>7 DEF EndSession, TypeInv, TypeOK
<1>4. ASSUME NEW r \in Handlers, NEW l \in Links, CreatePaymentLink(r, l) PROVE TypeInv'
  <2>. DEFINE write == BuildOutcomeWrite(req[r].sess, "AGREED", Null, l)
              q == [req[r] EXCEPT !.pc = "record", !.write = write]
  <2>1. req[r].sess \in Sessions /\ req[r] \in Request
    BY <1>0, <1>4 DEF RequestOK, Knows, CreatePaymentLink, TypeOK
  <2>2. [status |-> "link_sent", next |-> FollowUp, link |-> l] \in OutcomeWrite
    BY <1>0 DEF OutcomeWrite, FollowUp, TypeOK
  <2>3. write \in OutcomeWrite
    BY <2>2 DEF BuildOutcomeWrite
  <2>4. plink' \in [Links -> PLink]
    BY <1>0, <1>4, <2>1 DEF CreatePaymentLink, Mint, TypeOK, PLink
  <2>5. q \in Request /\ Knows(q)
    <3>. HIDE DEF write
    <3>. QED BY <2>1, <2>3 DEF Request, PCs, Knows
  <2>6. req' = [req EXCEPT ![r] = q]
    BY <1>0, <1>4 DEF CreatePaymentLink, TypeOK
  <2>7. req' \in [Handlers -> Request] /\ RequestOK'
    <3>. HIDE DEF q
    <3>. QED BY <2>5, <2>6, MoveType
  <2>8. QED
    BY <1>0, <1>4, <2>4, <2>7 DEF CreatePaymentLink, TypeInv, TypeOK
<1>5. ASSUME NEW r \in Handlers, PaymentLinkFails(r) PROVE TypeInv'
  <2>1. req[r].sess \in Sessions
    BY <1>0, <1>5 DEF RequestOK, Knows, PaymentLinkFails
  <2>2. plink' \in [Links -> PLink]
    BY <1>0, <1>5, <2>1 DEF PaymentLinkFails, Mint, TypeOK, PLink
  <2>3. audit' \in [Sessions -> [EventTypes -> Nat]]
    BY <1>0, <1>5, <2>1, LogType DEF PaymentLinkFails
  <2>4. QED
    BY <1>0, <1>5, <2>2, <2>3, AnswerType DEF PaymentLinkFails, Answer, TypeInv, TypeOK
<1>6. ASSUME NEW r \in Handlers, RecordOutcome(r) PROVE TypeInv'
  <2>1. /\ req[r].sess \in Sessions /\ req[r].write \in OutcomeWrite
        /\ row[req[r].sess] \in Row
    BY <1>0, <1>6 DEF RequestOK, Knows, RecordOutcome, TypeOK
  <2>2. row' \in [Sessions -> Row]
    <3>. DEFINE s == req[r].sess
                write == req[r].write
                link == IF write.link = Null THEN row[s].link ELSE write.link
    <3>1. /\ write.status \in Statuses /\ write.next \in Nat \cup {Null}
          /\ link \in Links \cup {Null}
      BY <2>1 DEF OutcomeWrite, Statuses, Row
    <3>2. \/ row' = row
          \/ row' = [row EXCEPT ![s].status = write.status, ![s].next = write.next,
                                ![s].link = link]
      BY <1>6 DEF RecordOutcome, ApplyOutcome
    <3>3. row \in [Sessions -> Row]
      BY <1>0 DEF TypeOK
    <3>. HIDE DEF link
    <3>4. [row EXCEPT ![s].status = write.status, ![s].next = write.next, ![s].link = link]
            \in [Sessions -> Row]
      BY <1>0, <2>1, <3>1, WriteType
    <3>. QED BY <3>2, <3>3, <3>4
  <2>3. audit' \in [Sessions -> [EventTypes -> Nat]]
    BY <1>0, <1>6, <2>1, LogType DEF RecordOutcome, ApplyOutcome, TypeOK
  <2>4. QED
    BY <1>0, <1>6, <2>2, <2>3, AnswerType DEF RecordOutcome, Answer, TypeInv, TypeOK
<1>7. ASSUME NEW r \in Handlers, NEW s \in Sessions, NEW event \in PaymentEvents,
             FindSession(r, s, event)
      PROVE  TypeInv'
  <2>. DEFINE q == [Idle EXCEPT !.pc = "mark", !.sess = s, !.event = event]
  <2>1. q \in Request /\ Knows(q)
    BY DEF Idle, Request, PCs, Knows
  <2>2. req' \in [Handlers -> Request] /\ RequestOK' /\ served' \in Nat
    <3>1. req' = [req EXCEPT ![r] = q] /\ served' \in Nat
      BY <1>0, <1>7 DEF FindSession, Begin, TypeOK
    <3>. HIDE DEF q
    <3>. QED BY <2>1, <3>1, MoveType
  <2>3. QED
    BY <1>0, <1>7, <2>2 DEF FindSession, TypeInv, TypeOK
<1>8. ASSUME NEW r \in Handlers, NEW l \in Links, LinkUnknown(r, l) PROVE TypeInv'
  <2>1. req' \in [Handlers -> Request] /\ RequestOK'
    BY <1>8, AnswerType DEF LinkUnknown, Begin
  <2>2. acked' \subseteq PaymentEvents
    BY <1>0, <1>8 DEF LinkUnknown, Paid, PaymentEvents, TypeOK
  <2>3. QED
    BY <1>0, <1>8, <2>1, <2>2 DEF LinkUnknown, Begin, TypeInv, TypeOK
<1>9. ASSUME NEW r \in Handlers, MarkRecovered(r) PROVE TypeInv'
  <2>. DEFINE q == [req[r] EXCEPT !.pc = "audit_captured"]
  <2>1. /\ req[r].sess \in Sessions /\ req[r].event \in PaymentEvents
        /\ req[r] \in Request /\ row[req[r].sess] \in Row
    BY <1>0, <1>9 DEF RequestOK, Knows, MarkRecovered, TypeOK
  <2>2. row' \in [Sessions -> Row]
    <3>1. \/ row' = row
          \/ row' = [row EXCEPT ![req[r].sess].status = "recovered",
                                ![req[r].sess].next = Null]
      BY <1>9 DEF MarkRecovered
    <3>2. row \in [Sessions -> Row] /\ "recovered" \in Statuses
      BY <1>0 DEF TypeOK, Statuses
    <3>3. [row EXCEPT ![req[r].sess].status = "recovered", ![req[r].sess].next = Null]
            \in [Sessions -> Row]
      BY <1>0, <2>1, <3>2, WriteType
    <3>. QED BY <3>1, <3>2, <3>3
  <2>3. q \in Request /\ Knows(q)
    BY <2>1 DEF Request, PCs, Knows
  <2>4. req' \in [Handlers -> Request] /\ RequestOK' /\ served' \in Nat
    BY <1>0, <1>9, <2>3, MoveType, AnswerType DEF MarkRecovered, Answer, TypeOK
  <2>5. QED
    BY <1>0, <1>9, <2>1, <2>2, <2>4 DEF MarkRecovered, TypeInv, TypeOK
<1>10. ASSUME NEW r \in Handlers, AuditCaptured(r) PROVE TypeInv'
  <2>1. req[r].sess \in Sessions /\ req[r].event \in PaymentEvents
    BY <1>0, <1>10 DEF RequestOK, Knows, AuditCaptured
  <2>2. audit' \in [Sessions -> [EventTypes -> Nat]]
    BY <1>0, <1>10, <2>1, LogType DEF AuditCaptured
  <2>3. QED
    BY <1>0, <1>10, <2>1, <2>2, AnswerType DEF AuditCaptured, Answer, TypeInv, TypeOK
<1>11. ASSUME NEW r \in Handlers, Abort(r) PROVE TypeInv'
  BY <1>0, <1>11, AnswerType DEF Abort, Answer, TypeInv, TypeOK
<1>12. ASSUME NEW l \in Links, CustomerPays(l) PROVE TypeInv'
  BY <1>0, <1>12 DEF CustomerPays, TypeInv, TypeOK, RequestOK, Knows, PLink
<1>13. ASSUME NEW s \in HandEdited, NEW at \in 0 .. Horizon, SetNextEligibleAt(s, at)
       PROVE  TypeInv'
  BY <1>0, <1>13 DEF SetNextEligibleAt, TypeInv, TypeOK, RequestOK, Knows, Row
<1>14. CASE Tick
  BY <1>0, <1>14 DEF Tick, TypeInv, TypeOK, RequestOK, Knows
<1>15. CASE UNCHANGED vars
  BY <1>0, <1>15 DEF vars, TypeInv, TypeOK, RequestOK, Knows
<1>16. ASSUME NEW r \in Handlers, NEW s \in Sessions, HandlePaymentCaptured(r, s)
       PROVE  TypeInv'
  <2>1. Captured(s) \in PaymentEvents
    BY DEF Captured, PaymentEvents
  <2>2. QED
    BY <1>7, <1>16, <2>1 DEF HandlePaymentCaptured
<1>17. ASSUME NEW r \in Handlers, NEW l \in Links, HandlePaymentLinkPaid(r, l)
       PROVE  TypeInv'
  <2>1. Paid(l) \in PaymentEvents
    BY DEF Paid, PaymentEvents
  <2>2. QED
    BY <1>7, <1>17, <2>1 DEF HandlePaymentLinkPaid
<1>18. QED
  BY <1>1, <1>2, <1>3, <1>4, <1>5, <1>6, <1>8, <1>9, <1>10, <1>11, <1>12, <1>13,
     <1>14, <1>15, <1>16, <1>17
  DEF Next, Handle, Environment

\* Every reachable state of the store and its handlers is well typed; above all
\* no session is ever called more often than max_contact_attempts allows.
THEOREM TypeCorrect == Spec => []TypeOK
<1>1. TypeInv => TypeOK
  BY DEF TypeInv
<1>2. QED
  BY <1>1, InitTypeInv, NextTypeInv, PTL DEF Spec

(***************************************************************************)
(* What a step can do.  Five operations change a row, its settling or its  *)
(* payment_captured audit rows; every other step is quiet.                 *)
(***************************************************************************)
Minted(l) == plink[l].state # "none"

Quiet ==
  /\ row' = row
  /\ \A s \in Sessions, e \in EventTypes \ {"session_assigned", "payment_link_failed"} :
       audit'[s][e] = audit[s][e]
  /\ \A r \in Handlers : req'[r].pc = "audit_captured" => req'[r] = req[r]

\* Audit rows of the other types are left alone.
LEMMA LogOthers ==
  ASSUME TypeOK, NEW s \in Sessions, NEW events, Log(s, events)
  PROVE  \A t \in Sessions, e \in EventTypes :
           audit'[t][e] = IF t = s /\ e \in events THEN audit[t][e] + 1 ELSE audit[t][e]
BY DEF Log, TypeOK

LEMMA Effects ==
  ASSUME TypeInv, [Next]_vars
  PROVE  \/ \E r \in Handlers, c \in Calls, s \in Sessions : AssignNextPending(r, c, s)
         \/ \E r \in Handlers : RecordOutcome(r)
         \/ \E r \in Handlers : MarkRecovered(r)
         \/ \E r \in Handlers : AuditCaptured(r)
         \/ \E s \in HandEdited, at \in 0 .. Horizon : SetNextEligibleAt(s, at)
         \/ Quiet
<1>0. TypeOK /\ RequestOK
  BY DEF TypeInv
<1>1. ASSUME NEW r \in Handlers, AuditAssigned(r) PROVE Quiet
  <2>1. req[r].sess \in Sessions
    BY <1>0, <1>1 DEF RequestOK, Knows, AuditAssigned
  <2>2. QED
    BY <1>0, <1>1, <2>1, LogOthers DEF AuditAssigned, Answer, Idle, Quiet, TypeOK
<1>2. ASSUME NEW r \in Handlers, NEW c \in Calls, NEW report \in Reports,
             EndSession(r, c, report)
      PROVE  Quiet
  <2>1. PICK s \in Sessions :
          LET read == [Idle EXCEPT !.sess = s, !.call = c, !.seen = row[s].status] IN
            IF report.outcome = "AGREED"
            THEN Begin(r, [read EXCEPT !.pc = "create_link"])
            ELSE Begin(r, [read EXCEPT !.pc = "record",
                    !.write = BuildOutcomeWrite(s, report.outcome, report.date, Null)])
    BY <1>2 DEF EndSession
  <2>. DEFINE read == [Idle EXCEPT !.sess = s, !.call = c, !.seen = row[s].status]
              write == BuildOutcomeWrite(s, report.outcome, report.date, Null)
              q1 == [read EXCEPT !.pc = "create_link"]
              q2 == [read EXCEPT !.pc = "record", !.write = write]
  <2>2. q1.pc = "create_link" /\ q2.pc = "record"
    BY DEF Idle
  <2>3. Begin(r, q1) \/ Begin(r, q2)
    BY <2>1
  <2>4. \A h \in Handlers : req'[h].pc = "audit_captured" => req'[h] = req[h]
    <3>. HIDE DEF q1, q2
    <3>. QED BY <1>0, <2>2, <2>3 DEF Begin, TypeOK
  <2>5. QED
    BY <1>2, <2>4 DEF EndSession, Quiet
<1>3. ASSUME NEW r \in Handlers, NEW l \in Links, CreatePaymentLink(r, l) PROVE Quiet
  BY <1>0, <1>3 DEF CreatePaymentLink, Quiet, TypeOK, Request
<1>4. ASSUME NEW r \in Handlers, PaymentLinkFails(r) PROVE Quiet
  <2>1. req[r].sess \in Sessions
    BY <1>0, <1>4 DEF RequestOK, Knows, PaymentLinkFails
  <2>2. QED
    BY <1>0, <1>4, <2>1, LogOthers DEF PaymentLinkFails, Answer, Idle, Quiet, TypeOK
<1>5. ASSUME NEW r \in Handlers, NEW s \in Sessions, NEW event, FindSession(r, s, event)
      PROVE  Quiet
  BY <1>0, <1>5 DEF FindSession, Begin, Idle, Quiet, TypeOK
<1>6. ASSUME NEW r \in Handlers, NEW l \in Links, LinkUnknown(r, l) PROVE Quiet
  BY <1>0, <1>6 DEF LinkUnknown, Begin, Idle, Quiet, TypeOK
<1>7. ASSUME NEW r \in Handlers, Abort(r) PROVE Quiet
  BY <1>0, <1>7 DEF Abort, Answer, Idle, Quiet, TypeOK
<1>8. ASSUME NEW l \in Links, CustomerPays(l) PROVE Quiet
  BY <1>0, <1>8 DEF CustomerPays, Quiet, TypeOK
<1>9. CASE Tick
  BY <1>9 DEF Tick, Quiet
<1>10. CASE UNCHANGED vars
  BY <1>10 DEF vars, Quiet
<1>11. QED
  BY <1>1, <1>2, <1>3, <1>4, <1>5, <1>6, <1>7, <1>8, <1>9, <1>10
  DEF Next, Handle, Environment, HandlePaymentCaptured, HandlePaymentLinkPaid

\* A recorded outcome as it leaves the row and the trail; a rejected one
\* leaves both.
Applied(s, write) ==
  /\ row[s].status \in EndSessionAllowedFrom
  /\ \A t \in Sessions : t # s => row'[t] = row[t]
  /\ row'[s].status = write.status /\ row'[s].next = write.next
  /\ row'[s].link = IF write.link = Null THEN row[s].link ELSE write.link
  /\ row'[s].attempts = row[s].attempts /\ row'[s].call = row[s].call
  /\ \A t \in Sessions, e \in EventTypes :
       audit'[t][e] = IF t = s /\ e \in OutcomeEvents(write.status)
                      THEN audit[t][e] + 1 ELSE audit[t][e]

LEMMA RecordEffect ==
  ASSUME TypeInv, NEW r \in Handlers, RecordOutcome(r)
  PROVE  /\ \E s \in Sessions, write \in OutcomeWrite :
              /\ s = req[r].sess /\ write = req[r].write
              /\ (row' = row /\ audit' = audit) \/ Applied(s, write)
         /\ \A q \in Handlers : req'[q].pc = "audit_captured" => req'[q] = req[q]
<1>0. TypeOK /\ RequestOK
  BY DEF TypeInv
<1>1. PICK s \in Sessions, write \in OutcomeWrite : s = req[r].sess /\ write = req[r].write
  BY <1>0 DEF RequestOK, Knows, RecordOutcome
<1>2. \A q \in Handlers : req'[q].pc = "audit_captured" => req'[q] = req[q]
  BY <1>0 DEF RecordOutcome, Answer, Idle, TypeOK
<1>3. CASE ~ OutcomeRecordable(s)
  BY <1>1, <1>2, <1>3 DEF RecordOutcome
<1>4. CASE OutcomeRecordable(s)
  <2>1. /\ row' = [row EXCEPT ![s].status = write.status, ![s].next = write.next,
                    ![s].link = IF write.link = Null THEN row[s].link ELSE write.link]
        /\ Log(s, OutcomeEvents(write.status))
    BY <1>1, <1>4 DEF RecordOutcome, ApplyOutcome
  <2>2. row \in [Sessions -> Row]
    BY <1>0 DEF TypeOK
  <2>3. /\ \A t \in Sessions : t # s => row'[t] = row[t]
        /\ row'[s].status = write.status /\ row'[s].next = write.next
        /\ row'[s].link = IF write.link = Null THEN row[s].link ELSE write.link
        /\ row'[s].attempts = row[s].attempts /\ row'[s].call = row[s].call
    BY <2>1, <2>2 DEF Row
  <2>4. \A t \in Sessions, e \in EventTypes :
          audit'[t][e] = IF t = s /\ e \in OutcomeEvents(write.status)
                         THEN audit[t][e] + 1 ELSE audit[t][e]
    BY <1>0, <2>1, LogOthers
  <2>5. QED
    BY <1>1, <1>2, <1>4, <2>3, <2>4 DEF Applied, OutcomeRecordable
<1>5. QED
  BY <1>3, <1>4

(***************************************************************************)
(* One payment_captured row per recovery.  The handler whose UPDATE made   *)
(* the session recovered owes the row until it writes it, nobody else ever *)
(* owes it, and once written nobody does.                                  *)
(***************************************************************************)
Owes(r, s) == req[r].pc = "audit_captured" /\ req[r].sess = s

CaptureInv ==
  /\ CapturedOnce
  /\ \A r \in Handlers, s \in Sessions :
       Owes(r, s) => row[s].status = "recovered" /\ audit[s]["payment_captured"] = 0
  /\ \A r, q \in Handlers, s \in Sessions : Owes(r, s) /\ Owes(q, s) => r = q

\* Whatever leaves the rows' recoveries, the captured counts and the debts
\* alone, or only settles debts without a row, keeps the invariant.
LEMMA CaptureFrame ==
  ASSUME CaptureInv,
         \A s \in Sessions : audit'[s]["payment_captured"] = audit[s]["payment_captured"],
         \A s \in Sessions : row[s].status = "recovered" => row'[s].status = "recovered",
         \A r \in Handlers : req'[r].pc = "audit_captured" => req'[r] = req[r]
  PROVE  CaptureInv'
BY DEF CaptureInv, CapturedOnce, Owes

LEMMA InitCapture == Init => CaptureInv
BY DEF Init, CaptureInv, CapturedOnce, Owes, Idle, EventTypes

LEMMA NextCapture == TypeInv /\ CaptureInv /\ [Next]_vars => CaptureInv'
<1>. SUFFICES ASSUME TypeInv, CaptureInv, [Next]_vars PROVE CaptureInv'
  OBVIOUS
<1>0. TypeOK /\ RequestOK /\ "payment_captured" \in EventTypes
  BY DEF TypeInv, EventTypes
<1>1. ASSUME NEW r \in Handlers, NEW c \in Calls, NEW s \in Sessions,
             AssignNextPending(r, c, s)
      PROVE  CaptureInv'
  <2>1. row[s].status # "recovered"
    BY <1>1 DEF AssignNextPending, LongestWaiting, EligibleNow, StillContactable
  <2>2. \A t \in Sessions : row[t].status = "recovered" => row'[t].status = "recovered"
    BY <1>0, <1>1, <2>1 DEF AssignNextPending, TypeOK
  <2>3. \A q \in Handlers : req'[q].pc = "audit_captured" => req'[q] = req[q]
    BY <1>0, <1>1 DEF AssignNextPending, Begin, Idle, TypeOK
  <2>4. QED
    BY <1>1, <2>2, <2>3, CaptureFrame DEF AssignNextPending
<1>2. ASSUME NEW r \in Handlers, RecordOutcome(r) PROVE CaptureInv'
  <2>1. PICK s \in Sessions, write \in OutcomeWrite :
          (row' = row /\ audit' = audit) \/ Applied(s, write)
    BY <1>2, RecordEffect
  <2>2. "payment_captured" \notin OutcomeEvents(write.status)
    BY DEF OutcomeEvents
  <2>3. \A t \in Sessions : row[t].status = "recovered" => row'[t].status = "recovered"
    BY <2>1 DEF Applied, EndSessionAllowedFrom
  <2>4. \A t \in Sessions : audit'[t]["payment_captured"] = audit[t]["payment_captured"]
    BY <1>0, <2>1, <2>2 DEF Applied
  <2>5. \A q \in Handlers : req'[q].pc = "audit_captured" => req'[q] = req[q]
    BY <1>2, RecordEffect
  <2>6. QED
    BY <2>3, <2>4, <2>5, CaptureFrame
<1>3. ASSUME NEW r \in Handlers, MarkRecovered(r) PROVE CaptureInv'
  <2>. DEFINE s == req[r].sess
  <2>1. s \in Sessions
    BY <1>0, <1>3 DEF RequestOK, Knows, MarkRecovered
  <2>2. CASE FirstToRecover(s)
    <3>1. /\ row' = [row EXCEPT ![s].status = "recovered", ![s].next = Null]
          /\ req' = [req EXCEPT ![r].pc = "audit_captured"]
          /\ audit' = audit
      BY <1>3, <2>2 DEF MarkRecovered
    <3>2. \A t \in Sessions : row'[t].status = IF t = s THEN "recovered" ELSE row[t].status
      BY <1>0, <2>1, <3>1 DEF TypeOK, Row
    <3>3. \A q \in Handlers : /\ q # r => req'[q] = req[q]
                              /\ req'[r].pc = "audit_captured" /\ req'[r].sess = s
      BY <1>0, <3>1 DEF TypeOK, Request
    <3>4. /\ \A t \in Sessions : row'[t].status = IF t = s THEN "recovered" ELSE row[t].status
          /\ \A q \in Handlers, t \in Sessions :
               Owes(q, t)' => Owes(q, t) \/ (q = r /\ t = s)
          /\ audit' = audit
      BY <3>1, <3>2, <3>3 DEF Owes
    <3>5. row[s].status # "recovered"
      BY <2>2 DEF FirstToRecover
    <3>6. audit[s]["payment_captured"] \in Nat
      BY <1>0, <2>1 DEF TypeOK
    <3>7. audit[s]["payment_captured"] # 1 /\ audit[s]["payment_captured"] <= 1
      BY <2>1, <3>5 DEF CaptureInv, CapturedOnce
    <3>8. \A q \in Handlers : ~ Owes(q, s)
      BY <2>1, <3>5 DEF CaptureInv
    <3>9. audit[s]["payment_captured"] = 0 /\ \A q \in Handlers : ~ Owes(q, s)
      BY <3>6, <3>7, <3>8
    <3>10. QED
      BY <2>1, <3>4, <3>9 DEF CaptureInv, CapturedOnce
  <2>3. CASE ~ FirstToRecover(s)
    <3>1. row' = row /\ audit' = audit
      BY <1>3, <2>3 DEF MarkRecovered
    <3>2. \A q \in Handlers : req'[q].pc = "audit_captured" => req'[q] = req[q]
      BY <1>0, <1>3, <2>3 DEF MarkRecovered, Answer, Idle, TypeOK
    <3>3. QED
      BY <3>1, <3>2, CaptureFrame
  <2>4. QED
    BY <2>2, <2>3
<1>4. ASSUME NEW r \in Handlers, AuditCaptured(r) PROVE CaptureInv'
  <2>. DEFINE s == req[r].sess
  <2>1. s \in Sessions /\ Owes(r, s)
    BY <1>0, <1>4 DEF RequestOK, Knows, AuditCaptured, Owes
  <2>2. /\ row' = row
        /\ \A q \in Handlers, t \in Sessions : Owes(q, t)' <=> Owes(q, t) /\ q # r
    BY <1>0, <1>4 DEF AuditCaptured, Answer, Idle, Owes, TypeOK
  <2>3. \A t \in Sessions :
          audit'[t]["payment_captured"] = IF t = s THEN audit[t]["payment_captured"] + 1
                                          ELSE audit[t]["payment_captured"]
    BY <1>0, <1>4, <2>1, LogOthers DEF AuditCaptured
  <2>4. audit[s]["payment_captured"] = 0 /\ row[s].status = "recovered"
        /\ \A q \in Handlers : Owes(q, s) => q = r
    BY <2>1 DEF CaptureInv
  <2>5. QED
    BY <2>1, <2>2, <2>3, <2>4 DEF CaptureInv, CapturedOnce
<1>5. ASSUME NEW s \in HandEdited, NEW at \in 0 .. Horizon, SetNextEligibleAt(s, at)
      PROVE  CaptureInv'
  <2>1. \A t \in Sessions : row'[t].status = row[t].status
    BY <1>0, <1>5 DEF SetNextEligibleAt, TypeOK, Row
  <2>2. QED
    BY <1>5, <2>1, CaptureFrame DEF SetNextEligibleAt
<1>6. CASE Quiet
  BY <1>0, <1>6, CaptureFrame DEF Quiet
<1>7. QED
  BY <1>1, <1>2, <1>3, <1>4, <1>5, <1>6, Effects

\* At-least-once, concurrent delivery of payment events never inflates the
\* confirmed-recovery metric: a session has at most one payment_captured row.
THEOREM CapturedAtMostOnce == Spec => []CapturedOnce
<1>1. CaptureInv => CapturedOnce
  BY DEF CaptureInv
<1>2. QED
  BY <1>1, InitTypeInv, NextTypeInv, InitCapture, NextCapture, PTL DEF Spec

(***************************************************************************)
(* One settling outcome per contact.  The invariant is inductive as it     *)
(* stands: assignment adds an attempt and settles nothing, and a recorded  *)
(* outcome settles at most once and then leaves the recordable statuses.   *)
(***************************************************************************)
SettlingEvents == {"payment_link_sent", "promise_logged", "stopped_refused",
                   "stopped_max_attempts"}

\* Whatever leaves the settling rows and the attempts alone, and opens no
\* session to an outcome, keeps the invariant.
LEMMA ContactFrame ==
  ASSUME OneOutcomePerContact,
         \A s \in Sessions, e \in SettlingEvents : audit'[s][e] = audit[s][e],
         \A s \in Sessions : row'[s].attempts = row[s].attempts,
         \A s \in Sessions : row'[s].status \in EndSessionAllowedFrom
                              => row[s].status \in EndSessionAllowedFrom
  PROVE  OneOutcomePerContact'
BY DEF OneOutcomePerContact, Settled, SettlingEvents

\* Recording an outcome settles the contact once, or not at all.
LEMMA SettlesOnce ==
  ASSUME TypeOK, NEW s \in Sessions, NEW write \in OutcomeWrite,
         \A e \in EventTypes :
           audit'[s][e] = IF e \in OutcomeEvents(write.status) THEN audit[s][e] + 1
                          ELSE audit[s][e]
  PROVE  Settled(s)' = IF write.status = "unclear" THEN Settled(s) ELSE Settled(s) + 1
<1>. DEFINE n == OutcomeEvents(write.status)
            Grows(e) == audit'[s][e] = IF e \in n THEN audit[s][e] + 1 ELSE audit[s][e]
<1>0. /\ audit[s]["payment_link_sent"] \in Nat /\ audit[s]["promise_logged"] \in Nat
      /\ audit[s]["stopped_refused"] \in Nat /\ audit[s]["stopped_max_attempts"] \in Nat
  BY DEF TypeOK, EventTypes
<1>1. /\ Grows("payment_link_sent") /\ Grows("promise_logged")
      /\ Grows("stopped_refused") /\ Grows("stopped_max_attempts")
  BY DEF EventTypes
<1>2. /\ write.status \in {"link_sent", "promised", "refused", "failed", "unclear"}
      /\ n \cap SettlingEvents =
           CASE write.status = "link_sent" -> {"payment_link_sent"}
             [] write.status = "promised" -> {"promise_logged"}
             [] write.status = "refused" -> {"stopped_refused"}
             [] write.status = "failed" -> {"stopped_max_attempts"}
             [] OTHER -> {}
  BY DEF OutcomeEvents, OutcomeWrite, SettlingEvents
<1>3. /\ "payment_link_sent" \in n <=> write.status = "link_sent"
      /\ "promise_logged" \in n <=> write.status = "promised"
      /\ "stopped_refused" \in n <=> write.status = "refused"
      /\ "stopped_max_attempts" \in n <=> write.status = "failed"
  BY <1>2 DEF SettlingEvents
<1>4. QED
  <2>. HIDE DEF n
  <2>. QED BY <1>0, <1>1, <1>2, <1>3 DEF Settled

LEMMA NextContact == TypeInv /\ OneOutcomePerContact /\ [Next]_vars => OneOutcomePerContact'
<1>. SUFFICES ASSUME TypeInv, OneOutcomePerContact, [Next]_vars
     PROVE OneOutcomePerContact'
  OBVIOUS
<1>0. /\ TypeOK /\ RequestOK
      /\ SettlingEvents \subseteq EventTypes \ {"session_assigned", "payment_link_failed"}
      /\ \A s \in Sessions : row[s].attempts \in Nat
      /\ \A s \in Sessions : Settled(s) \in Nat
  BY RecoveryAssumption
  DEF TypeInv, TypeOK, Row, SettlingEvents, EventTypes, Settled
<1>1. ASSUME NEW r \in Handlers, NEW c \in Calls, NEW s \in Sessions,
             AssignNextPending(r, c, s)
      PROVE  OneOutcomePerContact'
  <2>1. \A t \in Sessions : /\ Settled(t)' = Settled(t)
                            /\ t # s => row'[t] = row[t]
    BY <1>0, <1>1 DEF AssignNextPending, TypeOK, Settled
  <2>2. row'[s].attempts = row[s].attempts + 1
    BY <1>0, <1>1 DEF AssignNextPending, TypeOK, Row
  <2>3. QED
    BY <1>0, <2>1, <2>2 DEF OneOutcomePerContact
<1>2. ASSUME NEW r \in Handlers, RecordOutcome(r) PROVE OneOutcomePerContact'
  <2>1. PICK s \in Sessions, write \in OutcomeWrite :
          (row' = row /\ audit' = audit) \/ Applied(s, write)
    BY <1>2, RecordEffect
  <2>2. CASE row' = row /\ audit' = audit
    BY <2>2, ContactFrame
  <2>3. CASE Applied(s, write)
    <3>1. Settled(s)' = IF write.status = "unclear" THEN Settled(s) ELSE Settled(s) + 1
      <4>1. \A e \in EventTypes :
              audit'[s][e] = IF e \in OutcomeEvents(write.status) THEN audit[s][e] + 1
                             ELSE audit[s][e]
        BY <2>3 DEF Applied
      <4>2. QED
        BY <1>0, <4>1, SettlesOnce
    <3>2. \A t \in Sessions \ {s} : Settled(t)' = Settled(t)
      BY <2>3 DEF Applied, Settled, EventTypes
    <3>3. /\ \A t \in Sessions \ {s} : row'[t] = row[t]
          /\ row'[s].attempts = row[s].attempts /\ row'[s].status = write.status
          /\ row[s].status \in EndSessionAllowedFrom
      BY <2>3 DEF Applied
    <3>4. Settled(s) < row[s].attempts
      BY <3>3 DEF OneOutcomePerContact
    <3>5. write.status \in EndSessionAllowedFrom => write.status = "unclear"
      BY DEF OutcomeWrite, EndSessionAllowedFrom
    <3>6. Settled(s)' <= row'[s].attempts
          /\ (row'[s].status \in EndSessionAllowedFrom => Settled(s)' < row'[s].attempts)
      BY <1>0, <3>1, <3>3, <3>4, <3>5
    <3>7. \A t \in Sessions \ {s} :
            /\ Settled(t)' <= row'[t].attempts
            /\ row'[t].status \in EndSessionAllowedFrom => Settled(t)' < row'[t].attempts
      BY <3>2, <3>3 DEF OneOutcomePerContact
    <3>8. QED
      BY <3>6, <3>7 DEF OneOutcomePerContact
  <2>4. QED
    BY <2>1, <2>2, <2>3
<1>3. ASSUME NEW r \in Handlers, MarkRecovered(r) PROVE OneOutcomePerContact'
  <2>1. req[r].sess \in Sessions
    BY <1>0, <1>3 DEF RequestOK, Knows, MarkRecovered
  <2>2. \/ row' = row
        \/ row' = [row EXCEPT ![req[r].sess].status = "recovered", ![req[r].sess].next = Null]
    BY <1>3 DEF MarkRecovered
  <2>3. \A t \in Sessions :
          /\ row'[t].attempts = row[t].attempts
          /\ row'[t].status \in EndSessionAllowedFrom => row[t].status \in EndSessionAllowedFrom
    BY <1>0, <2>1, <2>2 DEF TypeOK, Row, EndSessionAllowedFrom
  <2>4. audit' = audit
    BY <1>3 DEF MarkRecovered
  <2>5. QED
    BY <2>3, <2>4, ContactFrame
<1>4. ASSUME NEW r \in Handlers, AuditCaptured(r) PROVE OneOutcomePerContact'
  <2>1. req[r].sess \in Sessions /\ row' = row /\ Log(req[r].sess, {"payment_captured"})
    BY <1>0, <1>4 DEF RequestOK, Knows, AuditCaptured
  <2>2. \A s \in Sessions, e \in SettlingEvents : audit'[s][e] = audit[s][e]
    BY <1>0, <2>1, LogOthers DEF SettlingEvents
  <2>3. QED
    BY <2>1, <2>2, ContactFrame
<1>5. ASSUME NEW s \in HandEdited, NEW at \in 0 .. Horizon, SetNextEligibleAt(s, at)
      PROVE  OneOutcomePerContact'
  <2>1. \A t \in Sessions : /\ row'[t].attempts = row[t].attempts
                            /\ row'[t].status = row[t].status
    BY <1>0, <1>5 DEF SetNextEligibleAt, TypeOK, Row
  <2>2. QED
    BY <1>5, <2>1, ContactFrame DEF SetNextEligibleAt
<1>6. CASE Quiet
  BY <1>0, <1>6, ContactFrame DEF Quiet
<1>7. QED
  BY <1>1, <1>2, <1>3, <1>4, <1>5, <1>6, Effects

\* However the requests that end calls race, a contact settles at most once.
THEOREM ContactSettlesOnce == Spec => []OneOutcomePerContact
<1>1. Init => OneOutcomePerContact
  BY DEF Init, OneOutcomePerContact, Settled, EventTypes, EndSessionAllowedFrom
<1>2. QED
  BY <1>1, InitTypeInv, NextTypeInv, NextContact, PTL DEF Spec

(***************************************************************************)
(* Module Recovery implements ContactPolicy: the initial states map to     *)
(* initial states, and every step maps to a step of the policy or leaves   *)
(* what it shows unchanged.                                                *)
(***************************************************************************)
\* What a step shows of the row of s: its phase and its contacts.
Shows(s, ph, n) == PhaseOf(row'[s].status) = ph /\ row'[s].attempts = n

\* A step that shows a change of one row only shows that change to the policy.
LEMMA OneRow ==
  ASSUME NEW s \in Sessions, NEW ph, NEW n, Shows(s, ph, n),
         \A t \in Sessions \ {s} : /\ row'[t].status = row[t].status
                                   /\ row'[t].attempts = row[t].attempts
  PROVE  /\ [t \in Sessions |-> PhaseOf(row'[t].status)] =
              [[t \in Sessions |-> PhaseOf(row[t].status)] EXCEPT ![s] = ph]
         /\ [t \in Sessions |-> row'[t].attempts] =
              [[t \in Sessions |-> row[t].attempts] EXCEPT ![s] = n]
<1>1. \A t \in Sessions \ {s} : PhaseOf(row'[t].status) = PhaseOf(row[t].status)
  BY DEF PhaseOf
<1>. QED
  BY <1>1 DEF Shows

\* Rows that keep their status and attempts show nothing.
LEMMA NoRow ==
  ASSUME \A t \in Sessions : /\ row'[t].status = row[t].status
                             /\ row'[t].attempts = row[t].attempts
  PROVE  UNCHANGED Policy!vars
<1>1. \A t \in Sessions : PhaseOf(row'[t].status) = PhaseOf(row[t].status)
  BY DEF PhaseOf
<1>. QED
  BY <1>1 DEF Policy!vars

LEMMA InitPolicy == Init => Policy!Init
BY DEF Init, Policy!Init, PhaseOf

LEMMA NextPolicy == TypeInv /\ [Next]_vars => [Policy!Next]_(Policy!vars)
<1>. SUFFICES ASSUME TypeInv, [Next]_vars PROVE [Policy!Next]_(Policy!vars)
  OBVIOUS
<1>0. TypeOK /\ RequestOK
  BY DEF TypeInv
<1>1. ASSUME NEW r \in Handlers, NEW c \in Calls, NEW s \in Sessions,
             AssignNextPending(r, c, s)
      PROVE  Policy!Next
  <2>1. PhaseOf(row[s].status) \in {"waiting", "undecided"}
        /\ row[s].attempts < MaxContactAttempts
    BY <1>1 DEF AssignNextPending, LongestWaiting, EligibleNow, StillContactable, PhaseOf
  <2>2. row'[s].status = "active" /\ row'[s].attempts = row[s].attempts + 1
        /\ \A t \in Sessions \ {s} : row'[t] = row[t]
    BY <1>0, <1>1 DEF AssignNextPending, TypeOK, Row
  <2>3. Shows(s, "calling", row[s].attempts + 1)
    BY <2>2 DEF Shows, PhaseOf
  <2>4. Policy!Call(s)
    BY <2>1, <2>2, <2>3, OneRow DEF Policy!Call
  <2>5. QED
    BY <2>4 DEF Policy!Next
<1>2. ASSUME NEW r \in Handlers, RecordOutcome(r) PROVE [Policy!Next]_(Policy!vars)
  <2>1. PICK s \in Sessions, write \in OutcomeWrite :
          (row' = row /\ audit' = audit) \/ Applied(s, write)
    BY <1>2, RecordEffect
  <2>2. CASE row' = row
    BY <2>2, NoRow
  <2>3. CASE Applied(s, write)
    <3>1. PhaseOf(row[s].status) \in {"calling", "undecided"}
      BY <2>3 DEF Applied, EndSessionAllowedFrom, PhaseOf
    <3>2. PICK verdict \in {"waiting", "undecided", "stopped"} :
            verdict = PhaseOf(write.status)
      BY DEF OutcomeWrite, PhaseOf
    <3>3. /\ Shows(s, verdict, row[s].attempts)
          /\ \A t \in Sessions \ {s} : /\ row'[t].status = row[t].status
                                        /\ row'[t].attempts = row[t].attempts
      BY <2>3, <3>2 DEF Applied, Shows, PhaseOf
    <3>4. [t \in Sessions |-> PhaseOf(row'[t].status)] =
            [[t \in Sessions |-> PhaseOf(row[t].status)] EXCEPT ![s] = verdict]
      BY <3>3, OneRow, Zenon
    <3>5. [t \in Sessions |-> row'[t].attempts] = [t \in Sessions |-> row[t].attempts]
      BY <3>3 DEF Shows
    <3>6. Policy!Decide(s, verdict)
      BY <3>1, <3>4, <3>5 DEF Policy!Decide
    <3>7. QED
      BY <3>6 DEF Policy!Next
  <2>4. QED
    BY <2>1, <2>2, <2>3
<1>3. ASSUME NEW r \in Handlers, MarkRecovered(r) PROVE [Policy!Next]_(Policy!vars)
  <2>1. PICK s \in Sessions : s = req[r].sess
    BY <1>0, <1>3 DEF RequestOK, Knows, MarkRecovered
  <2>2. CASE row[s].status = "recovered"
    BY <1>3, <2>1, <2>2, NoRow DEF MarkRecovered, FirstToRecover
  <2>3. CASE row[s].status # "recovered"
    <3>1. row' = [row EXCEPT ![s].status = "recovered", ![s].next = Null]
      BY <1>3, <2>1, <2>3 DEF MarkRecovered, FirstToRecover
    <3>2. row'[s].status = "recovered" /\ row'[s].attempts = row[s].attempts
          /\ \A t \in Sessions \ {s} : row'[t] = row[t]
      BY <1>0, <3>1 DEF TypeOK, Row
    <3>3. Shows(s, "paid", row[s].attempts)
      BY <3>2 DEF Shows, PhaseOf
    <3>4. row[s].status \in Statuses
      BY <1>0 DEF TypeOK, Row
    <3>5. PhaseOf(row[s].status) # "paid"
      BY <2>3, <3>4 DEF PhaseOf, Statuses
    <3>6. Policy!Pay(s)
      BY <3>2, <3>3, <3>5, OneRow DEF Policy!Pay
    <3>7. QED
      BY <3>6 DEF Policy!Next
  <2>4. QED
    BY <2>2, <2>3
<1>4. ASSUME NEW r \in Handlers, AuditCaptured(r) PROVE UNCHANGED Policy!vars
  BY <1>4, NoRow DEF AuditCaptured
<1>5. ASSUME NEW s \in HandEdited, NEW at \in 0 .. Horizon, SetNextEligibleAt(s, at)
      PROVE  UNCHANGED Policy!vars
  <2>1. \A t \in Sessions : /\ row'[t].status = row[t].status
                            /\ row'[t].attempts = row[t].attempts
    BY <1>0, <1>5 DEF SetNextEligibleAt, TypeOK, Row
  <2>2. QED
    BY <2>1, NoRow
<1>6. CASE Quiet
  BY <1>6, NoRow DEF Quiet
<1>7. QED
  BY <1>1, <1>2, <1>3, <1>4, <1>5, <1>6, Effects

\* The store, with its racing handlers and its hand-edited timers, implements the
\* policy: budget, one decision per call, no call after a stop, payment at any time.
THEOREM RecoveryImplementsPolicy == Spec => ImplementsPolicy
<1>1. QED
  BY InitTypeInv, NextTypeInv, InitPolicy, NextPolicy, PTL
  DEF Spec, ImplementsPolicy, Policy!Spec

(***************************************************************************)
(* Frames: what the operations that change a row leave alone.              *)
(***************************************************************************)
LEMMA AssignEffect ==
  ASSUME TypeInv, NEW r \in Handlers, NEW c \in Calls, NEW s \in Sessions, AssignNextPending(r, c, s)
  PROVE  /\ row'[s].status = "active" /\ row'[s].call = c
         /\ row'[s].next = row[s].next /\ row'[s].link = row[s].link
         /\ \A t \in Sessions \ {s} : row'[t] = row[t]
         /\ row[s].next \in Nat /\ row[s].next <= now
         /\ row[s].status \in {"pending", "unclear", "link_sent", "promised"}
<1>1. row[s] \in Row /\ row \in [Sessions -> Row]
  BY DEF TypeInv, TypeOK
<1>2. row[s].next \in Nat /\ row[s].next <= now /\ row[s].status \in {"pending", "unclear", "link_sent", "promised"}
  BY <1>1 DEF AssignNextPending, LongestWaiting, EligibleNow, StillContactable, Row
<1>3. QED
  BY <1>1, <1>2 DEF AssignNextPending, Row

LEMMA MarkEffect ==
  ASSUME TypeInv, NEW r \in Handlers, MarkRecovered(r)
  PROVE  /\ req[r].sess \in Sessions /\ audit' = audit
         /\ row'[req[r].sess].status = "recovered"
         /\ \A t \in Sessions : row'[t].link = row[t].link /\ row'[t].call = row[t].call
         /\ \A t \in Sessions \ {req[r].sess} : row'[t] = row[t]
<1>1. req[r].sess \in Sessions /\ row \in [Sessions -> Row] /\ row[req[r].sess] \in Row
  BY DEF TypeInv, TypeOK, RequestOK, Knows, MarkRecovered
<1>2. CASE FirstToRecover(req[r].sess)
  <2>1. row' = [row EXCEPT ![req[r].sess].status = "recovered", ![req[r].sess].next = Null] /\ audit' = audit
    BY <1>2 DEF MarkRecovered
  <2>2. QED
    BY <1>1, <2>1 DEF Row
<1>3. CASE ~ FirstToRecover(req[r].sess)
  BY <1>1, <1>3 DEF MarkRecovered, FirstToRecover
<1>4. QED
  BY <1>2, <1>3

LEMMA EditEffect ==
  ASSUME TypeInv, NEW s \in HandEdited, NEW at \in 0 .. Horizon, SetNextEligibleAt(s, at)
  PROVE  /\ \A t \in Sessions : /\ row'[t].link = row[t].link /\ row'[t].call = row[t].call
                                /\ row'[t].status = row[t].status
                                /\ t \notin HandEdited => row'[t] = row[t]
         /\ audit' = audit
<1>1. s \in Sessions /\ row \in [Sessions -> Row]
  BY RecoveryAssumption DEF TypeInv, TypeOK
<1>2. QED
  BY <1>1 DEF SetNextEligibleAt, Row

(***************************************************************************)
(* One session per call.                                                   *)
(***************************************************************************)
\* The read that ends a call finds one session: no two rows carry one call.
CallBoundOnce ==
  \A s, t \in Sessions : row[s].call # Null /\ row[s].call = row[t].call => s = t

LEMMA CallFrame ==
  ASSUME CallBoundOnce, \A t \in Sessions : row'[t].call = row[t].call
  PROVE  CallBoundOnce'
BY DEF CallBoundOnce

LEMMA NextCallBound == TypeInv /\ CallBoundOnce /\ [Next]_vars => CallBoundOnce'
<1>. SUFFICES ASSUME TypeInv, CallBoundOnce, [Next]_vars PROVE CallBoundOnce'
  OBVIOUS
<1>1. ASSUME NEW r \in Handlers, NEW c \in Calls, NEW s \in Sessions, AssignNextPending(r, c, s)
      PROVE  CallBoundOnce'
  <2>1. row'[s].call = c /\ \A t \in Sessions \ {s} : row'[t].call = row[t].call
    BY <1>1, AssignEffect
  <2>2. CallIsFree(c, s)
    BY <1>1 DEF AssignNextPending
  <2>3. QED
    BY <2>1, <2>2 DEF CallBoundOnce, CallIsFree
<1>2. ASSUME NEW r \in Handlers, RecordOutcome(r) PROVE CallBoundOnce'
  <2>1. PICK s \in Sessions, write \in OutcomeWrite : row' = row \/ Applied(s, write)
    BY <1>2, RecordEffect
  <2>2. QED
    BY <2>1, CallFrame DEF Applied
<1>3. ASSUME NEW r \in Handlers, MarkRecovered(r) PROVE CallBoundOnce'
  BY <1>3, MarkEffect, CallFrame
<1>4. ASSUME NEW r \in Handlers, AuditCaptured(r) PROVE CallBoundOnce'
  BY <1>4, CallFrame DEF AuditCaptured
<1>5. ASSUME NEW s \in HandEdited, NEW at \in 0 .. Horizon, SetNextEligibleAt(s, at) PROVE CallBoundOnce'
  BY <1>5, EditEffect, CallFrame
<1>6. CASE Quiet
  BY <1>6, CallFrame DEF Quiet
<1>7. QED
  BY <1>1, <1>2, <1>3, <1>4, <1>5, <1>6, Effects

\* The request that ends a call finds one session: whoever assigns, and however often
\* the gateway repeats an assignment, no two rows carry one call.
THEOREM OneSessionPerCall == Spec => []CallBoundOnce
<1>1. Init => CallBoundOnce
  BY DEF Init, CallBoundOnce
<1>2. QED
  BY <1>1, InitTypeInv, NextTypeInv, NextCallBound, PTL DEF Spec

(***************************************************************************)
(* Links, from their creation to their payment.                            *)
(***************************************************************************)
WritesLink(q) == q.pc = "record" /\ q.write.link # Null

\* The outcome a request is about to record: it carries a link exactly when the
\* customer agreed, and that link is live, the session's own, out of every row, and
\* expired by the time of the follow-up.
GoodWrite(q) ==
  /\ q.pc = "record" => (q.write.link # Null <=> q.write.status = "link_sent")
  /\ WritesLink(q) =>
       /\ plink[q.write.link].state = "live" /\ plink[q.write.link].sess = q.sess
       /\ q.write.next \in Nat /\ plink[q.write.link].expires <= q.write.next
       /\ \A s \in Sessions : row[s].link # q.write.link

\* The event a request is about to acknowledge is about its session.
GoodEvent(q) ==
  /\ q.pc \in {"mark", "audit_captured"} =>
       \/ q.event = Captured(q.sess)
       \/ \E l \in Links : q.event = Paid(l) /\ plink[l].state = "paid" /\ plink[l].sess = q.sess
  /\ q.pc = "audit_captured" => row[q.sess].status = "recovered"

\* A link is written by one request.
Alone ==
  \A r, q \in Handlers :
    WritesLink(req[r]) /\ WritesLink(req[q]) /\ req[r].write.link = req[q].write.link => r = q

\* The link of a row was created for it, and can be paid no more unless the session
\* waits for its follow-up, at or after the expiry, or has recovered.
GoodRow(s) ==
  row[s].link # Null =>
    /\ plink[row[s].link].state # "none" /\ plink[row[s].link].sess = s
    /\ s \notin HandEdited =>
         \/ plink[row[s].link].expires <= now
         \/ row[s].status = "recovered"
         \/ /\ row[s].status = "link_sent"
            /\ row[s].next # Null => plink[row[s].link].expires <= row[s].next

\* An acknowledged payment of a link was a payment.
GoodAck(l) == Paid(l) \in acked => plink[l].state = "paid"

LinkInv ==
  /\ \A r \in Handlers : GoodWrite(req[r]) /\ GoodEvent(req[r])
  /\ Alone
  /\ \A s \in Sessions : GoodRow(s)
  /\ \A l \in Links : /\ plink[l].state # "none" => plink[l].sess \in Sessions
                      /\ GoodAck(l)
  /\ AckedIsRecovered

\* What a link is never changes back.
LinksGrow ==
  \A l \in Links :
    plink[l].state # "none" =>
      /\ plink'[l].sess = plink[l].sess /\ plink'[l].expires = plink[l].expires
      /\ plink'[l].state # "none" /\ (plink[l].state = "paid" => plink'[l].state = "paid")

SameRows ==
  \A s \in Sessions : /\ row'[s].link = row[s].link /\ row'[s].next = row[s].next
                      /\ row'[s].status = row[s].status

LEMMA LinkTypes ==
  ASSUME TypeOK
  PROVE  /\ now \in Nat
         /\ \A s \in Sessions : row[s].link \in Links \cup {Null} /\ row[s].next \in Nat \cup {Null}
         /\ \A l \in Links : plink[l].expires \in Nat
BY DEF TypeOK, Row, PLink

LEMMA RowsKept ==
  ASSUME TypeInv, LinkInv, SameRows, LinksGrow, now' \in Nat, now <= now'
  PROVE  \A s \in Sessions : GoodRow(s)'
<1>. SUFFICES ASSUME NEW s \in Sessions PROVE GoodRow(s)'
  OBVIOUS
<1>1. GoodRow(s) /\ row[s].link \in Links \cup {Null} /\ now \in Nat
      /\ (row[s].link # Null => plink[row[s].link].expires \in Nat)
  BY LinkTypes DEF TypeInv, LinkInv
<1>2. QED
  BY <1>1 DEF GoodRow, SameRows, LinksGrow

\* A write under way stays good while its link stays live and out of the rows.
LEMMA WriteKept ==
  ASSUME LinkInv, NEW q \in Handlers, req'[q] = req[q],
         WritesLink(req[q]) => /\ plink'[req[q].write.link] = plink[req[q].write.link]
                               /\ \A s \in Sessions : row'[s].link # req[q].write.link
  PROVE  GoodWrite(req[q])'
BY DEF LinkInv, GoodWrite, WritesLink

LEMMA EventKept ==
  ASSUME LinkInv, LinksGrow, NEW q \in Handlers, req'[q] = req[q], req[q].pc # "idle" => req[q].sess \in Sessions,
         \A s \in Sessions : row[s].status = "recovered" => row'[s].status = "recovered"
  PROVE  GoodEvent(req[q])'
BY DEF LinkInv, GoodEvent, LinksGrow, Captured, Paid

LEMMA AckKept ==
  ASSUME LinkInv, LinksGrow, acked' = acked,
         \A s \in Sessions : row[s].status = "recovered" => row'[s].status = "recovered",
         \A s \in Sessions : row'[s].link = row[s].link \/ (row'[s].link \in Links /\ plink[row'[s].link].state = "live")
  PROVE  (\A l \in Links : GoodAck(l))' /\ AckedIsRecovered'
<1>1. \A l \in Links : GoodAck(l)'
  BY DEF LinkInv, GoodAck, LinksGrow
<1>2. ASSUME NEW l \in Links, Paid(l) \in acked
      PROVE  row'[plink'[l].sess].status = "recovered" \/ row'[plink'[l].sess].link # l
  <2>1. plink[l].state = "paid" /\ plink[l].sess \in Sessions /\ plink'[l].sess = plink[l].sess
    BY <1>2 DEF LinkInv, GoodAck, LinksGrow
  <2>2. row[plink[l].sess].status = "recovered" \/ row[plink[l].sess].link # l
    BY <1>2 DEF LinkInv, AckedIsRecovered
  <2>3. QED
    BY <2>1, <2>2
<1>3. QED
  BY <1>1, <1>2 DEF LinkInv, AckedIsRecovered

\* A request moves to a state in which it carries no new link.
LEMMA AloneKept ==
  ASSUME LinkInv, \A q \in Handlers : req'[q] = req[q] \/ ~ WritesLink(req[q])'
  PROVE  Alone'
BY DEF LinkInv, Alone, WritesLink

(***************************************************************************)
(* The steps.                                                              *)
(***************************************************************************)
\* Rows, links and acknowledgements stay; one request moves, or none.
LEMMA RequestMoves ==
  ASSUME TypeInv, LinkInv, now' \in Nat, now <= now', row' = row, plink' = plink, acked' = acked,
         NEW r \in Handlers, NEW to, req' = [req EXCEPT ![r] = to],
         to.pc = "record" => to.write.link = Null /\ to.write.status # "link_sent",
         GoodEvent(to)
  PROVE  LinkInv'
<1>1. req'[r] = to /\ \A q \in Handlers \ {r} : req'[q] = req[q]
  BY DEF TypeInv, TypeOK
<1>2. SameRows /\ LinksGrow
  BY DEF SameRows, LinksGrow
<1>3. \A q \in Handlers : GoodWrite(req[q])'
  <2>1. GoodWrite(req[r])'
    BY <1>1 DEF GoodWrite, WritesLink
  <2>2. ASSUME NEW q \in Handlers \ {r} PROVE GoodWrite(req[q])'
    BY <1>1, WriteKept DEF LinkInv, GoodWrite
  <2>3. QED
    BY <2>1, <2>2
<1>4. \A q \in Handlers : GoodEvent(req[q])'
  <2>1. GoodEvent(req[r])'
    BY <1>1 DEF GoodEvent
  <2>2. ASSUME NEW q \in Handlers \ {r} PROVE GoodEvent(req[q])'
    BY <1>1, <1>2, EventKept DEF TypeInv, RequestOK, Knows
  <2>3. QED
    BY <2>1, <2>2
<1>5. Alone'
  BY <1>1, AloneKept DEF WritesLink
<1>6. QED
  <2>1. (\A l \in Links : GoodAck(l))' /\ AckedIsRecovered'
    BY <1>2, AckKept
  <2>2. \A l \in Links : plink'[l].state # "none" => plink'[l].sess \in Sessions
    BY DEF LinkInv
  <2>3. \A s \in Sessions : GoodRow(s)'
    BY <1>2, RowsKept
  <2>4. QED
    BY <1>3, <1>4, <1>5, <2>1, <2>2, <2>3 DEF LinkInv

LEMMA AnswerLinks ==
  ASSUME TypeInv, LinkInv, UNCHANGED <<now, row, plink, acked>>, NEW r \in Handlers, Answer(r)
  PROVE  LinkInv'
<1>1. req' = [req EXCEPT ![r] = Idle] /\ Idle.pc = "idle" /\ now \in Nat
  BY LinkTypes DEF Answer, Idle, TypeInv
<1>2. GoodEvent(Idle)
  BY <1>1 DEF GoodEvent
<1>3. now' \in Nat /\ now <= now'
  BY <1>1
<1>. HIDE DEF Idle
<1>4. QED
  BY <1>1, <1>2, <1>3, RequestMoves

LEMMA EndSessionLinks ==
  ASSUME TypeInv, LinkInv, NEW r \in Handlers, NEW c \in Calls, NEW report \in Reports, EndSession(r, c, report)
  PROVE  LinkInv'
<1>1. PICK s \in Sessions :
        LET read == [Idle EXCEPT !.sess = s, !.call = c, !.seen = row[s].status] IN
          IF report.outcome = "AGREED"
          THEN Begin(r, [read EXCEPT !.pc = "create_link"])
          ELSE Begin(r, [read EXCEPT !.pc = "record",
                  !.write = BuildOutcomeWrite(s, report.outcome, report.date, Null)])
  BY DEF EndSession
<1>. DEFINE read == [Idle EXCEPT !.sess = s, !.call = c, !.seen = row[s].status]
            write == BuildOutcomeWrite(s, report.outcome, report.date, Null)
            q1 == [read EXCEPT !.pc = "create_link"]
            q2 == [read EXCEPT !.pc = "record", !.write = write]
<1>2. report.outcome # "AGREED" => write.link = Null /\ write.status # "link_sent"
  BY DEF BuildOutcomeWrite, Reports
<1>3. q1.pc = "create_link" /\ q2.pc = "record" /\ q2.write = write
  BY DEF Idle
<1>4. req' = [req EXCEPT ![r] = q1] \/ (report.outcome # "AGREED" /\ req' = [req EXCEPT ![r] = q2])
  BY <1>1 DEF Begin
<1>5. now' = now /\ row' = row /\ plink' = plink /\ acked' = acked /\ now \in Nat
  BY LinkTypes DEF EndSession, TypeInv
<1>. HIDE DEF q1, q2, write
<1>6. GoodEvent(q1) /\ GoodEvent(q2)
  BY <1>3 DEF GoodEvent
<1>7. now' \in Nat /\ now <= now'
  BY <1>5
<1>8. QED
  BY <1>2, <1>3, <1>4, <1>5, <1>6, <1>7, RequestMoves

LEMMA FindSessionLinks ==
  ASSUME TypeInv, LinkInv, NEW r \in Handlers, NEW s \in Sessions, NEW event, FindSession(r, s, event),
         \/ event = Captured(s)
         \/ \E l \in Links : event = Paid(l) /\ plink[l].state = "paid" /\ plink[l].sess = s
  PROVE  LinkInv'
<1>. DEFINE q == [Idle EXCEPT !.pc = "mark", !.sess = s, !.event = event]
<1>1. q.pc = "mark" /\ q.sess = s /\ q.event = event
  BY DEF Idle
<1>2. req' = [req EXCEPT ![r] = q] /\ now' = now /\ row' = row /\ plink' = plink /\ acked' = acked
  BY DEF FindSession, Begin
<1>. HIDE DEF q
<1>3. GoodEvent(q)
  BY <1>1 DEF GoodEvent
<1>4. now' \in Nat /\ now <= now'
  BY <1>2, LinkTypes DEF TypeInv
<1>5. QED
  BY <1>1, <1>2, <1>3, <1>4, RequestMoves

LEMMA AssignLinks ==
  ASSUME TypeInv, LinkInv, NEW r \in Handlers, NEW c \in Calls, NEW s \in Sessions, AssignNextPending(r, c, s)
  PROVE  LinkInv'
<1>. DEFINE to == [Idle EXCEPT !.pc = "audit_assigned", !.sess = s]
<1>1. to.pc = "audit_assigned" /\ req' = [req EXCEPT ![r] = to] /\ now' = now /\ plink' = plink /\ acked' = acked
  BY DEF Idle, AssignNextPending, Begin
<1>. HIDE DEF to
<1>2. req'[r] = to /\ \A q \in Handlers \ {r} : req'[q] = req[q]
  BY <1>1 DEF TypeInv, TypeOK
<1>3. /\ \A t \in Sessions : row'[t].link = row[t].link
      /\ \A t \in Sessions : row[t].status = "recovered" => row'[t].status = "recovered"
  BY AssignEffect
<1>4. LinksGrow
  BY <1>1 DEF LinksGrow
<1>5. \A q \in Handlers : GoodWrite(req[q])' /\ GoodEvent(req[q])'
  <2>1. GoodWrite(req[r])' /\ GoodEvent(req[r])'
    BY <1>1, <1>2 DEF GoodWrite, WritesLink, GoodEvent
  <2>2. ASSUME NEW q \in Handlers \ {r} PROVE GoodWrite(req[q])'
    BY <1>1, <1>2, <1>3, WriteKept DEF LinkInv, GoodWrite
  <2>3. ASSUME NEW q \in Handlers \ {r} PROVE GoodEvent(req[q])'
    BY <1>2, <1>3, <1>4, EventKept DEF TypeInv, RequestOK, Knows
  <2>4. QED
    BY <2>1, <2>2, <2>3
<1>6. Alone'
  BY <1>1, <1>2, AloneKept DEF WritesLink
<1>7. \A t \in Sessions : GoodRow(t)'
  <2>1. GoodRow(s)'
    <3>1. GoodRow(s) /\ now \in Nat /\ (row[s].link # Null => plink[row[s].link].expires \in Nat)
      BY LinkTypes DEF LinkInv, TypeInv
    <3>2. /\ row'[s].link = row[s].link /\ row[s].next \in Nat /\ row[s].next <= now
          /\ row[s].status # "recovered"
      BY AssignEffect
    <3>3. row[s].link # Null => plink[row[s].link].expires <= now \/ s \in HandEdited
      BY <3>1, <3>2, RecoveryAssumption DEF GoodRow
    <3>4. QED
      BY <1>1, <3>1, <3>2, <3>3 DEF GoodRow
  <2>2. ASSUME NEW t \in Sessions \ {s} PROVE GoodRow(t)'
    BY <1>1, AssignEffect DEF LinkInv, GoodRow
  <2>3. QED
    BY <2>1, <2>2
<1>8. (\A l \in Links : GoodAck(l))' /\ AckedIsRecovered'
  BY <1>1, <1>3, <1>4, AckKept
<1>9. QED
  BY <1>1, <1>5, <1>6, <1>7, <1>8 DEF LinkInv

\* A link more at the provider: the rows and the writes under way have others.
LEMMA MintEffect ==
  ASSUME TypeInv, LinkInv, NEW l \in Links, NEW s \in Sessions, Mint(l, s)
  PROVE  /\ LinksGrow
         /\ plink'[l].state = "live" /\ plink'[l].sess = s /\ plink'[l].expires = now + LinkValidity
         /\ \A k \in Links \ {l} : plink'[k] = plink[k]
         /\ \A t \in Sessions : row[t].link # l
         /\ \A q \in Handlers : WritesLink(req[q]) => req[q].write.link # l
         /\ \A k \in Links : plink'[k].state # "none" => plink'[k].sess \in Sessions
<1>1. /\ plink'[l].state = "live" /\ plink'[l].sess = s /\ plink'[l].expires = now + LinkValidity
      /\ \A k \in Links \ {l} : plink'[k] = plink[k]
      /\ plink[l].state = "none"
  BY DEF Mint, TypeInv, TypeOK
<1>2. LinksGrow
  BY <1>1 DEF LinksGrow
<1>3. Null \notin Links
  BY RecoveryAssumption
<1>4. \A t \in Sessions : row[t].link # l
  BY <1>1, <1>3 DEF LinkInv, GoodRow
<1>5. \A q \in Handlers : WritesLink(req[q]) => req[q].write.link # l
  BY <1>1 DEF LinkInv, GoodWrite
<1>6. QED
  BY <1>1, <1>2, <1>4, <1>5 DEF LinkInv

\* The links change under rows that do not, while one request moves.
LEMMA LinksChange ==
  ASSUME TypeInv, LinkInv, LinksGrow, now' = now, row' = row, acked' = acked,
         \A l \in Links : plink'[l].state # "none" => plink'[l].sess \in Sessions,
         \A q \in Handlers : WritesLink(req[q]) => plink'[req[q].write.link] = plink[req[q].write.link],
         NEW r \in Handlers, \A q \in Handlers \ {r} : req'[q] = req[q],
         GoodWrite(req[r])', GoodEvent(req[r])', Alone'
  PROVE  LinkInv'
<1>1. SameRows /\ now' \in Nat /\ now <= now'
  BY LinkTypes DEF SameRows, TypeInv
<1>2. ASSUME NEW q \in Handlers \ {r} PROVE GoodWrite(req[q])' /\ GoodEvent(req[q])'
  <2>1. GoodWrite(req[q])'
    BY WriteKept DEF LinkInv, GoodWrite
  <2>2. GoodEvent(req[q])'
    BY EventKept DEF TypeInv, RequestOK, Knows
  <2>3. QED
    BY <2>1, <2>2
<1>3. \A s \in Sessions : GoodRow(s)'
  BY <1>1, RowsKept
<1>4. (\A l \in Links : GoodAck(l))' /\ AckedIsRecovered'
  BY AckKept
<1>5. QED
  BY <1>2, <1>3, <1>4 DEF LinkInv

LEMMA CreateLinks ==
  ASSUME TypeInv, LinkInv, NEW r \in Handlers, NEW l \in Links, CreatePaymentLink(r, l)
  PROVE  LinkInv'
<1>. DEFINE write == [status |-> "link_sent", next |-> FollowUp, link |-> l]
            to == [req[r] EXCEPT !.pc = "record", !.write = write]
<1>1. req[r] \in Request /\ req[r].sess \in Sessions /\ now \in Nat
  BY LinkTypes DEF TypeInv, TypeOK, RequestOK, Knows, CreatePaymentLink
<1>2. to.pc = "record" /\ to.write = write /\ to.sess = req[r].sess
  <2>. HIDE DEF write
  <2>. QED BY <1>1 DEF Request
<1>3. req' = [req EXCEPT ![r] = to] /\ Mint(l, req[r].sess) /\ now' = now /\ row' = row /\ acked' = acked
  BY DEF CreatePaymentLink, BuildOutcomeWrite, TypeInv, TypeOK
<1>4. write.status = "link_sent" /\ write.link = l /\ write.next = now + FollowUpCooldown
  BY DEF FollowUp
<1>. HIDE DEF to, write
<1>5. req'[r] = to /\ \A q \in Handlers \ {r} : req'[q] = req[q]
  BY <1>3 DEF TypeInv, TypeOK
<1>6. /\ LinksGrow
      /\ plink'[l].state = "live" /\ plink'[l].sess = req[r].sess /\ plink'[l].expires = now + LinkValidity
      /\ \A k \in Links \ {l} : plink'[k] = plink[k]
      /\ \A t \in Sessions : row[t].link # l
      /\ \A q \in Handlers : WritesLink(req[q]) => req[q].write.link # l
      /\ \A k \in Links : plink'[k].state # "none" => plink'[k].sess \in Sessions
  BY <1>1, <1>3, MintEffect
<1>7. l # Null /\ now + LinkValidity <= now + FollowUpCooldown /\ now + FollowUpCooldown \in Nat
  BY <1>1, RecoveryAssumption
<1>8. GoodWrite(req[r])'
  BY <1>2, <1>3, <1>4, <1>5, <1>6, <1>7 DEF GoodWrite, WritesLink
<1>9. GoodEvent(req[r])'
  BY <1>2, <1>5 DEF GoodEvent
<1>10. Alone'
  BY <1>2, <1>4, <1>5, <1>6 DEF LinkInv, Alone, WritesLink
<1>11. \A q \in Handlers : WritesLink(req[q]) => plink'[req[q].write.link] = plink[req[q].write.link]
  BY <1>6 DEF WritesLink, TypeInv, RequestOK, Knows, OutcomeWrite
<1>12. QED
  BY <1>3, <1>5, <1>6, <1>8, <1>9, <1>10, <1>11, LinksChange

LEMMA FailsLinks ==
  ASSUME TypeInv, LinkInv, NEW r \in Handlers, PaymentLinkFails(r)
  PROVE  LinkInv'
<1>1. /\ req' = [req EXCEPT ![r] = Idle] /\ Idle.pc = "idle" /\ now' = now /\ row' = row /\ acked' = acked
      /\ req[r].sess \in Sessions
  BY DEF PaymentLinkFails, Answer, Idle, TypeInv, RequestOK, Knows
<1>2. CASE UNCHANGED plink
  BY <1>1, <1>2, AnswerLinks DEF PaymentLinkFails
<1>3. ASSUME NEW l \in Links, Mint(l, req[r].sess) PROVE LinkInv'
  <2>1. /\ LinksGrow
        /\ \A k \in Links \ {l} : plink'[k] = plink[k]
        /\ \A q \in Handlers : WritesLink(req[q]) => req[q].write.link # l
        /\ \A k \in Links : plink'[k].state # "none" => plink'[k].sess \in Sessions
    BY <1>1, <1>3, MintEffect
  <2>2. req'[r] = Idle /\ \A q \in Handlers \ {r} : req'[q] = req[q]
    BY <1>1 DEF TypeInv, TypeOK
  <2>3. GoodWrite(req[r])' /\ GoodEvent(req[r])' /\ ~ WritesLink(req[r])'
    BY <1>1, <2>2 DEF GoodWrite, WritesLink, GoodEvent
  <2>4. Alone'
    BY <2>2, <2>3, AloneKept
  <2>5. \A q \in Handlers : WritesLink(req[q]) => plink'[req[q].write.link] = plink[req[q].write.link]
    BY <2>1 DEF WritesLink, TypeInv, RequestOK, Knows, OutcomeWrite
  <2>6. QED
    BY <1>1, <2>1, <2>2, <2>3, <2>4, <2>5, LinksChange
<1>4. QED
  BY <1>2, <1>3 DEF PaymentLinkFails

\* An outcome that is recorded puts its link, live and nobody else's, on the row.
LEMMA RecordLinks ==
  ASSUME TypeInv, LinkInv, NEW r \in Handlers, RecordOutcome(r)
  PROVE  LinkInv'
<1>1. PICK s \in Sessions, write \in OutcomeWrite :
        /\ s = req[r].sess /\ write = req[r].write
        /\ (row' = row /\ audit' = audit) \/ Applied(s, write)
  BY RecordEffect
<1>2. Answer(r) /\ now' = now /\ plink' = plink /\ acked' = acked /\ req[r].pc = "record"
  BY DEF RecordOutcome
<1>3. CASE row' = row
  BY <1>2, <1>3, AnswerLinks
<1>4. CASE Applied(s, write)
  <2>1. /\ req'[r] = Idle /\ Idle.pc = "idle" /\ \A q \in Handlers \ {r} : req'[q] = req[q]
    BY <1>2 DEF Answer, Idle, TypeInv, TypeOK
  <2>2. /\ row[s].status \in {"active", "unclear"}
        /\ row'[s].status = write.status /\ row'[s].next = write.next
        /\ row'[s].link = IF write.link = Null THEN row[s].link ELSE write.link
        /\ \A t \in Sessions \ {s} : row'[t] = row[t]
    BY <1>4 DEF Applied, EndSessionAllowedFrom
  <2>3. write.link # Null =>
          /\ plink[write.link].state = "live" /\ plink[write.link].sess = s
          /\ write.link \in Links /\ write.status = "link_sent"
          /\ write.next \in Nat /\ plink[write.link].expires <= write.next
    BY <1>1, <1>2 DEF LinkInv, GoodWrite, WritesLink, OutcomeWrite
  <2>4. LinksGrow
    BY <1>2 DEF LinksGrow
  <2>5. \A t \in Sessions : row[t].status = "recovered" => row'[t].status = "recovered"
    BY <2>2
  <2>6. \A q \in Handlers : GoodWrite(req[q])'
    <3>1. GoodWrite(req[r])'
      BY <2>1 DEF GoodWrite, WritesLink
    <3>2. ASSUME NEW q \in Handlers \ {r} PROVE GoodWrite(req[q])'
      <4>1. WritesLink(req[q]) => \A t \in Sessions : row[t].link # req[q].write.link
        BY DEF LinkInv, GoodWrite
      <4>2. WritesLink(req[q]) /\ write.link # Null => req[q].write.link # write.link
        BY <1>1, <1>2 DEF LinkInv, Alone, WritesLink
      <4>3. WritesLink(req[q]) => \A t \in Sessions : row'[t].link # req[q].write.link
        BY <2>2, <4>1, <4>2
      <4>4. QED
        BY <1>2, <2>1, <4>3, WriteKept
    <3>3. QED
      BY <3>1, <3>2
  <2>7. \A q \in Handlers : GoodEvent(req[q])'
    <3>1. GoodEvent(req[r])'
      BY <2>1 DEF GoodEvent
    <3>2. ASSUME NEW q \in Handlers \ {r} PROVE GoodEvent(req[q])'
      BY <2>1, <2>4, <2>5, EventKept DEF TypeInv, RequestOK, Knows
    <3>3. QED
      BY <3>1, <3>2
  <2>8. Alone'
    BY <2>1, AloneKept DEF WritesLink
  <2>9. \A t \in Sessions : GoodRow(t)'
    <3>1. ASSUME NEW t \in Sessions \ {s} PROVE GoodRow(t)'
      BY <1>2, <2>2 DEF LinkInv, GoodRow
    <3>2. CASE write.link = Null
      BY <1>2, <2>2, <3>1, <3>2 DEF LinkInv, GoodRow
    <3>3. CASE write.link # Null
      BY <1>2, <2>2, <2>3, <3>1, <3>3 DEF GoodRow
    <3>4. QED
      BY <3>2, <3>3
  <2>10. (\A l \in Links : GoodAck(l))' /\ AckedIsRecovered'
    <3>1. \A t \in Sessions : row'[t].link = row[t].link \/ (row'[t].link \in Links /\ plink[row'[t].link].state = "live")
      BY <2>2, <2>3
    <3>2. QED
      BY <1>2, <2>4, <2>5, <3>1, AckKept
  <2>11. QED
    BY <1>2, <2>6, <2>7, <2>8, <2>9, <2>10 DEF LinkInv
<1>5. QED
  BY <1>1, <1>3, <1>4

\* An event is acknowledged once its session has recovered.
LEMMA AckAdded ==
  ASSUME TypeInv, LinkInv, UNCHANGED <<now, row, plink>>, NEW r \in Handlers, Answer(r),
         req[r].pc \in {"mark", "audit_captured"}, row[req[r].sess].status = "recovered",
         acked' = acked \cup {req[r].event}
  PROVE  LinkInv'
<1>1. /\ req'[r] = Idle /\ Idle.pc = "idle" /\ \A q \in Handlers \ {r} : req'[q] = req[q]
  BY DEF Answer, Idle, TypeInv, TypeOK
<1>2. LinksGrow /\ SameRows /\ now' \in Nat /\ now <= now'
  BY LinkTypes DEF LinksGrow, SameRows, TypeInv
<1>3. \A q \in Handlers : GoodWrite(req[q])' /\ GoodEvent(req[q])'
  <2>1. GoodWrite(req[r])' /\ GoodEvent(req[r])'
    BY <1>1 DEF GoodWrite, WritesLink, GoodEvent
  <2>2. ASSUME NEW q \in Handlers \ {r} PROVE GoodWrite(req[q])'
    BY <1>1, WriteKept DEF LinkInv, GoodWrite
  <2>3. ASSUME NEW q \in Handlers \ {r} PROVE GoodEvent(req[q])'
    BY <1>1, <1>2, EventKept DEF TypeInv, RequestOK, Knows
  <2>4. QED
    BY <2>1, <2>2, <2>3
<1>4. Alone'
  BY <1>1, AloneKept DEF WritesLink
<1>5. \A s \in Sessions : GoodRow(s)'
  BY <1>2, RowsKept
<1>6. (\A l \in Links : GoodAck(l))' /\ AckedIsRecovered'
  <2>1. CASE req[r].event = Captured(req[r].sess)
    <3>1. \A l \in Links : Paid(l) # req[r].event
      BY <2>1 DEF Captured, Paid
    <3>2. \A s \in Sessions : Captured(s) = req[r].event => s = req[r].sess
      BY <2>1 DEF Captured
    <3>3. QED
      BY <3>1, <3>2 DEF LinkInv, GoodAck, AckedIsRecovered
  <2>2. ASSUME NEW l \in Links, req[r].event = Paid(l), plink[l].state = "paid", plink[l].sess = req[r].sess
        PROVE  (\A k \in Links : GoodAck(k))' /\ AckedIsRecovered'
    <3>1. \A s \in Sessions : Captured(s) # req[r].event
      BY <2>2 DEF Captured, Paid
    <3>2. \A k \in Links : Paid(k) = req[r].event => k = l
      BY <2>2 DEF Paid
    <3>3. QED
      BY <2>2, <3>1, <3>2 DEF LinkInv, GoodAck, AckedIsRecovered
  <2>3. QED
    BY <2>1, <2>2 DEF LinkInv, GoodEvent
<1>7. QED
  BY <1>3, <1>4, <1>5, <1>6 DEF LinkInv

LEMMA MarkLinks ==
  ASSUME TypeInv, LinkInv, NEW r \in Handlers, MarkRecovered(r)
  PROVE  LinkInv'
<1>1. req[r].pc = "mark" /\ now' = now /\ plink' = plink
  BY DEF MarkRecovered
<1>2. CASE ~ FirstToRecover(req[r].sess)
  <2>1. Answer(r) /\ acked' = acked \cup {req[r].event} /\ row' = row /\ row[req[r].sess].status = "recovered"
    BY <1>2 DEF MarkRecovered, FirstToRecover
  <2>2. QED
    BY <1>1, <2>1, AckAdded
<1>3. CASE FirstToRecover(req[r].sess)
  <2>. DEFINE to == [req[r] EXCEPT !.pc = "audit_captured"]
  <2>1. acked' = acked /\ req' = [req EXCEPT ![r] = to]
    BY <1>3 DEF MarkRecovered, TypeInv, TypeOK
  <2>2. to.pc = "audit_captured" /\ to.sess = req[r].sess /\ to.event = req[r].event
    BY DEF TypeInv, TypeOK, Request
  <2>. HIDE DEF to
  <2>3. req'[r] = to /\ \A q \in Handlers \ {r} : req'[q] = req[q]
    BY <2>1 DEF TypeInv, TypeOK
  <2>4. /\ req[r].sess \in Sessions /\ row'[req[r].sess].status = "recovered"
        /\ \A t \in Sessions : row'[t].link = row[t].link
        /\ \A t \in Sessions \ {req[r].sess} : row'[t] = row[t]
    BY MarkEffect
  <2>5. LinksGrow /\ \A t \in Sessions : row[t].status = "recovered" => row'[t].status = "recovered"
    BY <1>1, <2>4 DEF LinksGrow
  <2>6. \A q \in Handlers : GoodWrite(req[q])' /\ GoodEvent(req[q])'
    <3>1. GoodWrite(req[r])'
      BY <2>2, <2>3 DEF GoodWrite, WritesLink
    <3>2. GoodEvent(req[r])'
      BY <1>1, <2>2, <2>3, <2>4 DEF LinkInv, GoodEvent
    <3>3. ASSUME NEW q \in Handlers \ {r} PROVE GoodWrite(req[q])'
      BY <1>1, <2>3, <2>4, WriteKept DEF LinkInv, GoodWrite
    <3>4. ASSUME NEW q \in Handlers \ {r} PROVE GoodEvent(req[q])'
      BY <2>3, <2>5, EventKept DEF TypeInv, RequestOK, Knows
    <3>5. QED
      BY <3>1, <3>2, <3>3, <3>4
  <2>7. Alone'
    BY <2>2, <2>3, AloneKept DEF WritesLink
  <2>8. \A t \in Sessions : GoodRow(t)'
    BY <1>1, <2>4 DEF LinkInv, GoodRow
  <2>9. (\A l \in Links : GoodAck(l))' /\ AckedIsRecovered'
    BY <2>1, <2>4, <2>5, AckKept
  <2>10. QED
    BY <1>1, <2>6, <2>7, <2>8, <2>9 DEF LinkInv
<1>4. QED
  BY <1>2, <1>3

LEMMA AuditCapturedLinks ==
  ASSUME TypeInv, LinkInv, NEW r \in Handlers, AuditCaptured(r)
  PROVE  LinkInv'
<1>1. row[req[r].sess].status = "recovered"
  BY DEF AuditCaptured, LinkInv, GoodEvent
<1>2. QED
  BY <1>1, AckAdded DEF AuditCaptured

\* The event of a link that no row carries, and none ever will again.
LEMMA UnknownLinks ==
  ASSUME TypeInv, LinkInv, NEW r \in Handlers, NEW l \in Links, LinkUnknown(r, l)
  PROVE  LinkInv'
<1>1. /\ plink[l].state = "paid" /\ \A s \in Sessions : row[s].link # l
      /\ acked' = acked \cup {Paid(l)} /\ req' = [req EXCEPT ![r] = Idle]
      /\ now' = now /\ row' = row /\ plink' = plink
  BY DEF LinkUnknown, Begin
<1>2. req'[r] = Idle /\ Idle.pc = "idle" /\ \A q \in Handlers \ {r} : req'[q] = req[q]
  BY <1>1 DEF Idle, TypeInv, TypeOK
<1>3. LinksGrow /\ SameRows /\ now' \in Nat /\ now <= now'
  BY <1>1, LinkTypes DEF LinksGrow, SameRows, TypeInv
<1>4. \A q \in Handlers : GoodWrite(req[q])' /\ GoodEvent(req[q])'
  <2>1. GoodWrite(req[r])' /\ GoodEvent(req[r])'
    BY <1>2 DEF GoodWrite, WritesLink, GoodEvent
  <2>2. ASSUME NEW q \in Handlers \ {r} PROVE GoodWrite(req[q])'
    BY <1>1, <1>2, WriteKept DEF LinkInv, GoodWrite
  <2>3. ASSUME NEW q \in Handlers \ {r} PROVE GoodEvent(req[q])'
    BY <1>1, <1>2, <1>3, EventKept DEF TypeInv, RequestOK, Knows
  <2>4. QED
    BY <2>1, <2>2, <2>3
<1>5. Alone'
  BY <1>2, AloneKept DEF WritesLink
<1>6. \A s \in Sessions : GoodRow(s)'
  BY <1>3, RowsKept
<1>7. (\A k \in Links : GoodAck(k))' /\ AckedIsRecovered'
  <2>1. \A s \in Sessions : Captured(s) # Paid(l)
    BY DEF Captured, Paid
  <2>2. \A k \in Links : Paid(k) = Paid(l) => k = l
    BY DEF Paid
  <2>3. plink[l].sess \in Sessions
    BY <1>1 DEF LinkInv
  <2>4. QED
    BY <1>1, <2>1, <2>2, <2>3 DEF LinkInv, GoodAck, AckedIsRecovered
<1>8. QED
  BY <1>1, <1>4, <1>5, <1>6, <1>7 DEF LinkInv

\* Who pays a link reads it off a row: no write under way carries it.
LEMMA PayLinks ==
  ASSUME TypeInv, LinkInv, NEW l \in Links, CustomerPays(l)
  PROVE  LinkInv'
<1>1. /\ plink[l].state = "live" /\ plink' = [plink EXCEPT ![l].state = "paid"]
      /\ now' = now /\ row' = row /\ acked' = acked /\ req' = req
  BY DEF CustomerPays
<1>2. PICK s \in Sessions : row[s].link = l
  BY DEF CustomerPays
<1>3. /\ plink'[l].state = "paid" /\ plink'[l].sess = plink[l].sess /\ plink'[l].expires = plink[l].expires
      /\ \A k \in Links \ {l} : plink'[k] = plink[k]
  BY <1>1 DEF TypeInv, TypeOK, PLink
<1>4. LinksGrow
  BY <1>3 DEF LinksGrow
<1>5. SameRows /\ now' \in Nat /\ now <= now'
  BY <1>1, LinkTypes DEF SameRows, TypeInv
<1>6. ASSUME NEW q \in Handlers PROVE GoodWrite(req[q])' /\ GoodEvent(req[q])'
  <2>1. WritesLink(req[q]) => req[q].write.link \in Links \ {l}
    BY <1>2 DEF LinkInv, GoodWrite, WritesLink, TypeInv, RequestOK, Knows, OutcomeWrite
  <2>2. GoodWrite(req[q])'
    BY <1>1, <1>3, <2>1, WriteKept DEF LinkInv, GoodWrite
  <2>3. GoodEvent(req[q])'
    BY <1>1, <1>4, EventKept DEF TypeInv, RequestOK, Knows
  <2>4. QED
    BY <2>2, <2>3
<1>7. Alone'
  BY <1>1, AloneKept
<1>8. \A t \in Sessions : GoodRow(t)'
  BY <1>4, <1>5, RowsKept
<1>9. (\A k \in Links : GoodAck(k))' /\ AckedIsRecovered'
  BY <1>1, <1>4, AckKept
<1>10. \A k \in Links : plink'[k].state # "none" => plink'[k].sess \in Sessions
  BY <1>1, <1>3 DEF LinkInv
<1>11. QED
  BY <1>6, <1>7, <1>8, <1>9, <1>10 DEF LinkInv

\* Time passes, or an operator moves a timer.
LEMMA OutsideLinks ==
  ASSUME TypeInv, LinkInv,
         \/ Tick
         \/ UNCHANGED vars
         \/ \E s \in HandEdited, at \in 0 .. Horizon : SetNextEligibleAt(s, at)
  PROVE  LinkInv'
<1>1. plink' = plink /\ acked' = acked /\ req' = req /\ now' \in Nat /\ now \in Nat /\ now <= now'
  BY LinkTypes DEF Tick, vars, SetNextEligibleAt, TypeInv
<1>2. \A t \in Sessions : /\ row'[t].link = row[t].link /\ row'[t].status = row[t].status
                          /\ t \notin HandEdited => row'[t] = row[t]
  BY EditEffect DEF Tick, vars
<1>3. LinksGrow
  BY <1>1 DEF LinksGrow
<1>4. ASSUME NEW q \in Handlers PROVE GoodWrite(req[q])' /\ GoodEvent(req[q])'
  <2>1. GoodWrite(req[q])'
    BY <1>1, <1>2, WriteKept DEF LinkInv, GoodWrite
  <2>2. GoodEvent(req[q])'
    BY <1>1, <1>2, <1>3, EventKept DEF TypeInv, RequestOK, Knows
  <2>3. QED
    BY <2>1, <2>2
<1>5. Alone'
  BY <1>1, AloneKept
<1>6. ASSUME NEW t \in Sessions PROVE GoodRow(t)'
  <2>1. GoodRow(t) /\ (row[t].link # Null => plink[row[t].link].expires \in Nat)
    BY LinkTypes DEF LinkInv, TypeInv
  <2>2. QED
    BY <1>1, <1>2, <2>1 DEF GoodRow
<1>7. (\A k \in Links : GoodAck(k))' /\ AckedIsRecovered'
  BY <1>1, <1>2, <1>3, AckKept
<1>8. QED
  BY <1>1, <1>4, <1>5, <1>6, <1>7 DEF LinkInv

LEMMA InitLinkInv == Init => LinkInv
<1>. SUFFICES ASSUME Init PROVE LinkInv
  OBVIOUS
<1>1. /\ \A r \in Handlers : req[r].pc = "idle"
      /\ \A s \in Sessions : row[s].link = Null
      /\ \A l \in Links : plink[l].state = "none"
      /\ acked = {}
  BY DEF Init, Idle, NoLink
<1>2. QED
  BY <1>1 DEF LinkInv, GoodWrite, GoodEvent, WritesLink, Alone, GoodRow, GoodAck, AckedIsRecovered

LEMMA NextLinkInv == TypeInv /\ LinkInv /\ [Next]_vars => LinkInv'
<1>. SUFFICES ASSUME TypeInv, LinkInv, [Next]_vars PROVE LinkInv'
  OBVIOUS
<1>1. ASSUME NEW r \in Handlers, AuditAssigned(r) \/ Abort(r) PROVE LinkInv'
  BY <1>1, AnswerLinks DEF AuditAssigned, Abort
<1>2. ASSUME NEW r \in Handlers, NEW s \in Sessions, HandlePaymentCaptured(r, s) PROVE LinkInv'
  BY <1>2, FindSessionLinks DEF HandlePaymentCaptured
<1>3. ASSUME NEW r \in Handlers, NEW l \in Links, HandlePaymentLinkPaid(r, l) PROVE LinkInv'
  <2>1. PICK s \in Sessions : plink[l].state = "paid" /\ row[s].link = l /\ FindSession(r, s, Paid(l))
    BY <1>3 DEF HandlePaymentLinkPaid
  <2>2. plink[l].sess = s
    BY <2>1, RecoveryAssumption DEF LinkInv, GoodRow
  <2>3. QED
    BY <2>1, <2>2, FindSessionLinks
<1>4. ASSUME NEW r \in Handlers, Handle(r) PROVE LinkInv'
  BY <1>1, <1>2, <1>3, <1>4, AssignLinks, EndSessionLinks, CreateLinks, FailsLinks, RecordLinks,
     UnknownLinks, MarkLinks, AuditCapturedLinks DEF Handle
<1>5. QED
  BY <1>4, PayLinks, OutsideLinks DEF Next, Environment

\* An event answered 200 is not sent again: its session has recovered by then, and no
\* outcome still under way takes that back, a link that was replaced aside.
THEOREM AckedForGood == Spec => []AckedIsRecovered
<1>1. LinkInv => AckedIsRecovered
  BY DEF LinkInv
<1>2. QED
  BY <1>1, InitTypeInv, NextTypeInv, InitLinkInv, NextLinkInv, PTL DEF Spec

\* The follow-up never calls a customer whose recorded link can still be paid: it rests
\* on LinkValidity <= FollowUpCooldown, and on timers nobody moves by hand.
THEOREM NoCallBeforeExpiry == Spec => []NoCallWhileLinkLive
<1>1. LinkInv => NoCallWhileLinkLive
  BY DEF LinkInv, GoodRow, NoCallWhileLinkLive
<1>2. QED
  BY <1>1, InitTypeInv, NextTypeInv, InitLinkInv, NextLinkInv, PTL DEF Spec

(***************************************************************************)
(* The audit trail.                                                        *)
(***************************************************************************)
Trailed == {"stopped_refused", "stopped_max_attempts", "promise_logged", "payment_link_sent"}

LEMMA TrailFrame ==
  ASSUME TrailMatchesStatus,
         \A s \in Sessions, e \in Trailed : audit'[s][e] = audit[s][e],
         \A s \in Sessions : row'[s].link = row[s].link,
         \A s \in Sessions : \/ row'[s].status = row[s].status
                             \/ row'[s].status = "recovered"
                             \/ /\ row'[s].status = "active"
                                /\ row[s].status \notin {"refused", "failed", "recovered"}
  PROVE  TrailMatchesStatus'
BY DEF TrailMatchesStatus, Trailed

LEMMA TrailApplied ==
  ASSUME TypeInv, TrailMatchesStatus, NEW s \in Sessions, NEW write \in OutcomeWrite, Applied(s, write),
         write.link # Null <=> write.status = "link_sent"
  PROVE  TrailMatchesStatus'
<1>1. /\ row[s].status \in {"active", "unclear"}
      /\ row'[s].status = write.status
      /\ row'[s].link = IF write.link = Null THEN row[s].link ELSE write.link
      /\ \A t \in Sessions \ {s} : row'[t] = row[t]
  BY DEF Applied, EndSessionAllowedFrom
<1>2. \A t \in Sessions, e \in Trailed :
        audit[t][e] \in Nat /\ audit'[t][e] = IF t = s /\ e \in OutcomeEvents(write.status)
                                              THEN audit[t][e] + 1 ELSE audit[t][e]
  BY DEF Applied, Trailed, EventTypes, TypeInv, TypeOK
<1>3. /\ write.status \in {"link_sent", "promised", "refused", "failed", "unclear"}
      /\ "payment_link_sent" \in OutcomeEvents(write.status) <=> write.status = "link_sent"
      /\ "promise_logged" \in OutcomeEvents(write.status) <=> write.status = "promised"
      /\ "stopped_refused" \in OutcomeEvents(write.status) <=> write.status = "refused"
      /\ "stopped_max_attempts" \in OutcomeEvents(write.status) <=> write.status = "failed"
  BY DEF OutcomeEvents, OutcomeWrite
<1>. DEFINE Agrees(t) ==
       /\ row[t].status = "refused" => audit[t]["stopped_refused"] = 1
       /\ row[t].status = "failed" => audit[t]["stopped_max_attempts"] = 1
       /\ row[t].status = "promised" => audit[t]["promise_logged"] > 0
       /\ row[t].status # "recovered" =>
            /\ audit[t]["stopped_refused"] > 0 => row[t].status = "refused"
            /\ audit[t]["stopped_max_attempts"] > 0 => row[t].status = "failed"
       /\ row[t].link # Null <=> audit[t]["payment_link_sent"] > 0
<1>4. \A t \in Sessions : Agrees(t)
  BY DEF TrailMatchesStatus
<1>5. \A t \in Sessions \ {s} : Agrees(t)'
  BY <1>1, <1>2, <1>4 DEF Trailed
<1>6. audit[s]["stopped_refused"] = 0 /\ audit[s]["stopped_max_attempts"] = 0
  BY <1>1, <1>2, <1>4 DEF Trailed
<1>7. /\ audit'[s]["stopped_refused"] = IF write.status = "refused" THEN 1 ELSE 0
      /\ audit'[s]["stopped_max_attempts"] = IF write.status = "failed" THEN 1 ELSE 0
      /\ write.status = "promised" => audit'[s]["promise_logged"] > 0
      /\ audit'[s]["payment_link_sent"] > 0 <=> write.status = "link_sent" \/ audit[s]["payment_link_sent"] > 0
  BY <1>2, <1>3, <1>6 DEF Trailed
<1>8. row'[s].link # Null <=> audit'[s]["payment_link_sent"] > 0
  BY <1>1, <1>4, <1>7
<1>9. Agrees(s)'
  BY <1>1, <1>3, <1>7, <1>8
<1>10. QED
  BY <1>5, <1>9 DEF TrailMatchesStatus

LEMMA NextTrail == TypeInv /\ LinkInv /\ TrailMatchesStatus /\ [Next]_vars => TrailMatchesStatus'
<1>. SUFFICES ASSUME TypeInv, LinkInv, TrailMatchesStatus, [Next]_vars PROVE TrailMatchesStatus'
  OBVIOUS
<1>1. ASSUME NEW r \in Handlers, NEW c \in Calls, NEW s \in Sessions, AssignNextPending(r, c, s)
      PROVE  TrailMatchesStatus'
  <2>1. audit' = audit
    BY <1>1 DEF AssignNextPending
  <2>2. QED
    BY <1>1, <2>1, AssignEffect, TrailFrame
<1>2. ASSUME NEW r \in Handlers, RecordOutcome(r) PROVE TrailMatchesStatus'
  <2>1. PICK s \in Sessions, write \in OutcomeWrite :
          /\ s = req[r].sess /\ write = req[r].write
          /\ (row' = row /\ audit' = audit) \/ Applied(s, write)
    BY <1>2, RecordEffect
  <2>2. write.link # Null <=> write.status = "link_sent"
    BY <1>2, <2>1 DEF RecordOutcome, LinkInv, GoodWrite
  <2>3. CASE row' = row /\ audit' = audit
    BY <2>3, TrailFrame
  <2>4. QED
    BY <2>1, <2>2, <2>3, TrailApplied
<1>3. ASSUME NEW r \in Handlers, MarkRecovered(r) PROVE TrailMatchesStatus'
  BY <1>3, MarkEffect, TrailFrame
<1>4. ASSUME NEW r \in Handlers, AuditCaptured(r) PROVE TrailMatchesStatus'
  <2>1. /\ row' = row /\ req[r].sess \in Sessions /\ Log(req[r].sess, {"payment_captured"})
    BY <1>4 DEF AuditCaptured, TypeInv, RequestOK, Knows
  <2>2. \A s \in Sessions, e \in Trailed : audit'[s][e] = audit[s][e]
    BY <2>1, LogOthers DEF Trailed, EventTypes, TypeInv
  <2>3. QED
    BY <2>1, <2>2, TrailFrame
<1>5. ASSUME NEW s \in HandEdited, NEW at \in 0 .. Horizon, SetNextEligibleAt(s, at) PROVE TrailMatchesStatus'
  BY <1>5, EditEffect, TrailFrame
<1>6. CASE Quiet
  <2>1. \A s \in Sessions, e \in Trailed : audit'[s][e] = audit[s][e]
    BY <1>6 DEF Quiet, Trailed, EventTypes
  <2>2. QED
    BY <1>6, <2>1, TrailFrame DEF Quiet
<1>7. QED
  BY <1>1, <1>2, <1>3, <1>4, <1>5, <1>6, Effects

\* The trail and the state it audits never disagree, whatever requests race: stops and
\* refusals are audited once and only when they happen, and so is every link on a row.
THEOREM TrailIsTrue == Spec => []TrailMatchesStatus
<1>1. Init => TrailMatchesStatus
  BY DEF Init, TrailMatchesStatus, EventTypes
<1>2. QED
  BY <1>1, InitTypeInv, NextTypeInv, InitLinkInv, NextLinkInv, NextTrail, PTL DEF Spec

(***************************************************************************)
(* Timers, and the customers nobody will call again.                       *)
(***************************************************************************)
Waiting == {"pending", "unclear", "link_sent", "promised"}

Scheduled(status, next) == status \in Waiting => next # Null

\* Whoever waits has a timer, or is about to be given one.  Only attempts can be
\* what keeps a waiting customer from being called.
TimerInv ==
  /\ \A r \in Handlers : req[r].pc = "record" => Scheduled(req[r].write.status, req[r].write.next)
  /\ \A s \in Sessions : Scheduled(row[s].status, row[s].next)

LEMMA WriteScheduled ==
  ASSUME TypeOK, NEW s \in Sessions, NEW report \in Reports, NEW link
  PROVE  LET write == BuildOutcomeWrite(s, report.outcome, report.date, link) IN
           Scheduled(write.status, write.next)
<1>1. now \in Nat /\ FollowUpCooldown \in Nat /\ Null \notin Nat /\ PromiseDates \subseteq Nat \cup {Null}
  BY RecoveryAssumption DEF TypeOK
<1>2. FollowUp # Null
  BY <1>1 DEF FollowUp
<1>3. report.outcome = "PROMISED" => PromisedFollowUp(report.date) # Null
  BY <1>1, <1>2 DEF PromisedFollowUp, Reports
<1>4. QED
  BY <1>2, <1>3 DEF BuildOutcomeWrite, Scheduled, Waiting

\* Where the writes of the next state come from.
LEMMA WritesMade ==
  ASSUME TypeInv, [Next]_vars, NEW q \in Handlers, req'[q].pc = "record"
  PROVE  req'[q] = req[q] \/ Scheduled(req'[q].write.status, req'[q].write.next)
<1>0. TypeOK /\ RequestOK /\ req \in [Handlers -> Request]
  BY DEF TypeInv, TypeOK
<1>1. ASSUME NEW r \in Handlers, NEW to, req' = [req EXCEPT ![r] = to],
             to.pc = "record" => Scheduled(to.write.status, to.write.next)
      PROVE  req'[q] = req[q] \/ Scheduled(req'[q].write.status, req'[q].write.next)
  BY <1>0, <1>1
<1>2. ASSUME NEW r \in Handlers, NEW c \in Calls, NEW report \in Reports, EndSession(r, c, report)
      PROVE  req'[q] = req[q] \/ Scheduled(req'[q].write.status, req'[q].write.next)
  <2>1. PICK s \in Sessions :
          LET read == [Idle EXCEPT !.sess = s, !.call = c, !.seen = row[s].status] IN
            IF report.outcome = "AGREED"
            THEN Begin(r, [read EXCEPT !.pc = "create_link"])
            ELSE Begin(r, [read EXCEPT !.pc = "record",
                    !.write = BuildOutcomeWrite(s, report.outcome, report.date, Null)])
    BY <1>2 DEF EndSession
  <2>. DEFINE read == [Idle EXCEPT !.sess = s, !.call = c, !.seen = row[s].status]
              write == BuildOutcomeWrite(s, report.outcome, report.date, Null)
              q1 == [read EXCEPT !.pc = "create_link"]
              q2 == [read EXCEPT !.pc = "record", !.write = write]
  <2>2. Scheduled(write.status, write.next)
    BY <1>0, WriteScheduled
  <2>3. q1.pc = "create_link" /\ q2.write = write
    BY DEF Idle
  <2>4. Begin(r, q1) \/ Begin(r, q2)
    BY <2>1
  <2>. HIDE DEF q1, q2, write
  <2>5. \/ req' = [req EXCEPT ![r] = q1]
        \/ req' = [req EXCEPT ![r] = q2]
    BY <2>4 DEF Begin
  <2>6. QED
    BY <1>1, <2>2, <2>3, <2>5
<1>3. ASSUME NEW r \in Handlers, NEW l \in Links, CreatePaymentLink(r, l)
      PROVE  req'[q] = req[q] \/ Scheduled(req'[q].write.status, req'[q].write.next)
  <2>1. PICK s \in Sessions : s = req[r].sess
    BY <1>0, <1>3 DEF CreatePaymentLink, RequestOK, Knows
  <2>2. PICK report \in Reports : report = [outcome |-> "AGREED", date |-> Null]
    BY DEF Reports
  <2>. DEFINE write == BuildOutcomeWrite(s, report.outcome, report.date, l)
  <2>3. Scheduled(write.status, write.next)
    BY <1>0, WriteScheduled
  <2>4. req' = [req EXCEPT ![r].pc = "record", ![r].write = write]
    BY <1>3, <2>1, <2>2 DEF CreatePaymentLink
  <2>. HIDE DEF write
  <2>5. req'[r].write = write /\ \A h \in Handlers \ {r} : req'[h] = req[h]
    BY <1>0, <2>4 DEF Request
  <2>6. QED
    BY <2>3, <2>5
<1>4. ASSUME NEW r \in Handlers, Answer(r)
      PROVE  req'[q] = req[q] \/ Scheduled(req'[q].write.status, req'[q].write.next)
  BY <1>1, <1>4 DEF Answer, Idle
<1>5. ASSUME NEW r \in Handlers, NEW c \in Calls, NEW s \in Sessions, AssignNextPending(r, c, s)
      PROVE  req'[q] = req[q] \/ Scheduled(req'[q].write.status, req'[q].write.next)
  BY <1>1, <1>5 DEF AssignNextPending, Begin, Idle
<1>6. ASSUME NEW r \in Handlers, NEW s \in Sessions, NEW event, FindSession(r, s, event)
      PROVE  req'[q] = req[q] \/ Scheduled(req'[q].write.status, req'[q].write.next)
  BY <1>1, <1>6 DEF FindSession, Begin, Idle
<1>7. ASSUME NEW r \in Handlers, NEW l \in Links, LinkUnknown(r, l)
      PROVE  req'[q] = req[q] \/ Scheduled(req'[q].write.status, req'[q].write.next)
  BY <1>1, <1>7 DEF LinkUnknown, Begin, Idle
<1>8. ASSUME NEW r \in Handlers, MarkRecovered(r)
      PROVE  req'[q] = req[q] \/ Scheduled(req'[q].write.status, req'[q].write.next)
  <2>1. CASE FirstToRecover(req[r].sess)
    <3>1. req' = [req EXCEPT ![r].pc = "audit_captured"]
      BY <1>8, <2>1 DEF MarkRecovered
    <3>2. q # r
      BY <1>0, <3>1 DEF Request
    <3>3. QED
      BY <1>0, <3>1, <3>2
  <2>2. CASE ~ FirstToRecover(req[r].sess)
    BY <1>4, <1>8, <2>2 DEF MarkRecovered
  <2>3. QED
    BY <2>1, <2>2
<1>9. ASSUME UNCHANGED req
      PROVE  req'[q] = req[q] \/ Scheduled(req'[q].write.status, req'[q].write.next)
  BY <1>9
<1>10. QED
  BY <1>2, <1>3, <1>4, <1>5, <1>6, <1>7, <1>8, <1>9
  DEF Next, Handle, Environment, HandlePaymentCaptured, HandlePaymentLinkPaid, AuditAssigned,
      PaymentLinkFails, RecordOutcome, AuditCaptured, Abort, CustomerPays, SetNextEligibleAt, Tick, vars

LEMMA NextTimerInv == TypeInv /\ TimerInv /\ [Next]_vars => TimerInv'
<1>. SUFFICES ASSUME TypeInv, TimerInv, [Next]_vars PROVE TimerInv'
  OBVIOUS
<1>1. \A r \in Handlers : req'[r].pc = "record" => Scheduled(req'[r].write.status, req'[r].write.next)
  BY WritesMade DEF TimerInv
<1>2. ASSUME NEW s \in Sessions PROVE Scheduled(row'[s].status, row'[s].next)
  <2>0. Scheduled(row[s].status, row[s].next)
    BY DEF TimerInv
  <2>1. ASSUME NEW r \in Handlers, NEW c \in Calls, NEW t \in Sessions, AssignNextPending(r, c, t)
        PROVE  Scheduled(row'[s].status, row'[s].next)
    BY <2>0, <2>1, AssignEffect DEF Scheduled, Waiting
  <2>2. ASSUME NEW r \in Handlers, RecordOutcome(r) PROVE Scheduled(row'[s].status, row'[s].next)
    <3>1. PICK t \in Sessions, write \in OutcomeWrite :
            /\ write = req[r].write
            /\ row' = row \/ Applied(t, write)
      BY <2>2, RecordEffect
    <3>2. Scheduled(write.status, write.next)
      BY <2>2, <3>1 DEF TimerInv, RecordOutcome
    <3>3. QED
      BY <2>0, <3>1, <3>2 DEF Applied
  <2>3. ASSUME NEW r \in Handlers, MarkRecovered(r) PROVE Scheduled(row'[s].status, row'[s].next)
    BY <2>0, <2>3, MarkEffect DEF Scheduled, Waiting
  <2>4. ASSUME NEW t \in HandEdited, NEW at \in 0 .. Horizon, SetNextEligibleAt(t, at)
        PROVE  Scheduled(row'[s].status, row'[s].next)
    <3>1. row \in [Sessions -> Row] /\ t \in Sessions /\ at # Null
      BY RecoveryAssumption DEF TypeInv, TypeOK
    <3>2. row'[s].next = row[s].next \/ row'[s].next = at
      BY <2>4, <3>1 DEF SetNextEligibleAt, Row
    <3>3. row'[s].status = row[s].status
      BY <2>4, EditEffect
    <3>4. QED
      BY <2>0, <3>1, <3>2, <3>3 DEF Scheduled
  <2>5. ASSUME row' = row PROVE Scheduled(row'[s].status, row'[s].next)
    BY <2>0, <2>5
  <2>6. QED
    BY <2>1, <2>2, <2>3, <2>4, <2>5, Effects DEF AuditCaptured, Quiet
<1>3. QED
  BY <1>1, <1>2 DEF TimerInv

LEMMA ClosedIs ==
  ASSUME NEW s \in Sessions
  PROVE  Bucket(s) = "closed" <=> ~ StillContactable(s)
BY DEF Bucket, EligibleNow

\* What a closed session that is in no call is: out of the waiting statuses for good,
\* or out of attempts.
LEMMA ClosedStays ==
  ASSUME TypeInv, TimerInv, [Next]_vars, NEW s \in Sessions,
         ~ StillContactable(s), row[s].status # "active"
  PROVE  ~ StillContactable(s)' /\ row'[s].status # "active"
<1>0. row \in [Sessions -> Row] /\ row[s] \in Row
  BY DEF TypeInv, TypeOK
<1>1. row[s].status \notin Waiting \/ ~ (row[s].attempts < MaxContactAttempts)
  BY DEF StillContactable, TimerInv, Scheduled, Waiting
<1>2. ASSUME row'[s].status = row[s].status, row'[s].attempts = row[s].attempts
      PROVE  ~ StillContactable(s)' /\ row'[s].status # "active"
  BY <1>1, <1>2 DEF StillContactable, Waiting
<1>3. ASSUME NEW r \in Handlers, NEW c \in Calls, NEW t \in Sessions, AssignNextPending(r, c, t)
      PROVE  ~ StillContactable(s)' /\ row'[s].status # "active"
  <2>1. t # s
    BY <1>3 DEF AssignNextPending, LongestWaiting, EligibleNow
  <2>2. QED
    BY <1>2, <1>3, <2>1, AssignEffect
<1>4. ASSUME NEW r \in Handlers, RecordOutcome(r)
      PROVE  ~ StillContactable(s)' /\ row'[s].status # "active"
  <2>1. PICK t \in Sessions, write \in OutcomeWrite : row' = row \/ Applied(t, write)
    BY <1>4, RecordEffect
  <2>2. CASE Applied(t, write) /\ t = s
    <3>1. row'[s].status # "active" /\ row'[s].attempts = row[s].attempts /\ row[s].status = "unclear"
      BY <2>2 DEF Applied, OutcomeWrite, EndSessionAllowedFrom
    <3>2. ~ (row'[s].attempts < MaxContactAttempts)
      BY <1>1, <3>1 DEF Waiting
    <3>3. QED
      BY <3>1, <3>2 DEF StillContactable
  <2>3. CASE row' = row \/ (Applied(t, write) /\ t # s)
    BY <1>2, <2>3 DEF Applied
  <2>4. QED
    BY <2>1, <2>2, <2>3
<1>5. ASSUME NEW r \in Handlers, MarkRecovered(r)
      PROVE  ~ StillContactable(s)' /\ row'[s].status # "active"
  <2>1. CASE s = req[r].sess
    BY <1>5, <2>1, MarkEffect DEF StillContactable
  <2>2. CASE s # req[r].sess
    BY <1>2, <1>5, <2>2, MarkEffect
  <2>3. QED
    BY <2>1, <2>2
<1>6. ASSUME NEW t \in HandEdited, NEW at \in 0 .. Horizon, SetNextEligibleAt(t, at)
      PROVE  ~ StillContactable(s)' /\ row'[s].status # "active"
  <2>1. row'[s].status = row[s].status /\ row'[s].attempts = row[s].attempts
    BY <1>0, <1>6, RecoveryAssumption DEF SetNextEligibleAt, Row
  <2>2. QED
    BY <1>2, <2>1
<1>7. ASSUME row' = row
      PROVE  ~ StillContactable(s)' /\ row'[s].status # "active"
  BY <1>2, <1>7
<1>8. QED
  BY <1>3, <1>4, <1>5, <1>6, <1>7, Effects DEF AuditCaptured, Quiet

\* Whoever the queue shows as finished with, a call under way aside, is never called
\* again nor offered again: whatever requests read before, and however the timer is
\* moved by hand.
THEOREM ClosedIsFinal == ViewSpec => ClosedForGood
<1>1. ViewInit => Init /\ TimerInv
  <2>. SUFFICES ASSUME Init PROVE TimerInv
    BY DEF ViewInit
  <2>1. Null \notin Nat /\ 0 \in Nat
    BY RecoveryAssumption
  <2>2. QED
    BY <2>1 DEF Init, TimerInv, Scheduled, Idle
<1>2. [ViewNext]_viewVars => [Next]_vars
  BY DEF ViewNext, viewVars, Store, CountRows, CountCaptured, vars
<1>3. TypeInv /\ TimerInv /\ [Next]_vars =>
        [\A s \in Sessions :
           Bucket(s) = "closed" /\ row[s].status # "active"
             => Bucket(s)' = "closed" /\ row'[s].status # "active"]_viewVars
  <2>. SUFFICES ASSUME TypeInv, TimerInv, [Next]_vars, NEW s \in Sessions,
                       Bucket(s) = "closed", row[s].status # "active"
                PROVE  Bucket(s)' = "closed" /\ row'[s].status # "active"
    OBVIOUS
  <2>1. ~ StillContactable(s)' /\ row'[s].status # "active"
    BY ClosedIs, ClosedStays
  <2>2. QED
    BY <2>1 DEF Bucket, EligibleNow
<1>4. QED
  BY <1>1, <1>2, <1>3, InitTypeInv, NextTypeInv, NextTimerInv, PTL DEF ViewSpec, ClosedForGood

(***************************************************************************)
(* The counts of the metrics.                                              *)
(***************************************************************************)
IsCaptured(s) == audit[s]["payment_captured"] = 1

\* The sum over the sessions counts those with a row, when none has two.
LEMMA CapturedRowsCount ==
  ASSUME \A s \in Sessions : audit[s]["payment_captured"] \in {0, 1}
  PROVE  CapturedRows = Cardinality({s \in Sessions : IsCaptured(s)})
<1> DEFINE Chosen(T) == CHOOSE x \in T : TRUE
           Term(g, T) == IF T = {} THEN 0
                         ELSE audit[Chosen(T)]["payment_captured"] + g[T \ {Chosen(T)}]
           Sums(g) == g = [T \in SUBSET Sessions |-> Term(g, T)]
           count == [T \in SUBSET Sessions |-> Cardinality({s \in T : IsCaptured(s)})]
<1>1. ASSUME NEW T \in SUBSET Sessions, T # {}
      PROVE  /\ Chosen(T) \in T
             /\ count[T] = audit[Chosen(T)]["payment_captured"] + count[T \ {Chosen(T)}]
  <2> DEFINE x == Chosen(T)
             rest == {s \in T \ {x} : IsCaptured(s)}
  <2>1. x \in T
    BY <1>1
  <2> HIDE DEF x
  <2>2. IsFiniteSet(rest) /\ x \notin rest
    BY ViewsAssumption, FS_Subset
  <2>3. Cardinality(rest) \in Nat
    BY <2>2, FS_CardinalityType
  <2>4. {s \in T : IsCaptured(s)} = IF IsCaptured(x) THEN rest \cup {x} ELSE rest
    BY <2>1
  <2>5. Cardinality(rest \cup {x}) = Cardinality(rest) + 1
    BY <2>2, FS_AddElement
  <2>6. audit[x]["payment_captured"] = IF IsCaptured(x) THEN 1 ELSE 0
    BY <2>1 DEF IsCaptured
  <2>7. count[T] = Cardinality({s \in T : IsCaptured(s)}) /\ count[T \ {x}] = Cardinality(rest)
    OBVIOUS
  <2> HIDE DEF rest, count
  <2>8. count[T] = audit[x]["payment_captured"] + count[T \ {x}]
    BY <2>3, <2>4, <2>5, <2>6, <2>7
  <2> QED BY <2>1, <2>8 DEF x
<1>2. count[{}] = 0
  <2>1. {s \in {} : IsCaptured(s)} = {}
    OBVIOUS
  <2> QED BY <2>1, FS_EmptySet
<1>3. Sums(count)
  <2>1. ASSUME NEW T \in SUBSET Sessions PROVE count[T] = Term(count, T)
    <3> HIDE DEF count
    <3> QED BY <1>1, <1>2
  <2>2. count = [T \in SUBSET Sessions |-> count[T]]
    OBVIOUS
  <2> HIDE DEF count, Term
  <2> QED BY <2>1, <2>2
<1>4. ASSUME NEW g, Sums(g), NEW T \in SUBSET Sessions
      PROVE  g[T] = count[T]
  <2> DEFINE Bad == {U \in SUBSET Sessions : g[U] # count[U]}
  <2>1. SUFFICES ASSUME Bad # {} PROVE FALSE
    OBVIOUS
  <2>2. IsWellFoundedOn(StrictSubsetOrdering(Sessions), FiniteSubsetsOf(Sessions))
    BY FS_StrictSubsetOrderingWellFounded
  <2>3. Bad \subseteq FiniteSubsetsOf(Sessions)
    BY ViewsAssumption, FS_Subset DEF FiniteSubsetsOf
  <2>4. PICK U \in Bad : \A V \in Bad : ~ (<<V, U>> \in StrictSubsetOrdering(Sessions))
    <3> HIDE DEF Bad
    <3> QED BY <2>1, <2>2, <2>3, WFMin
  <2>5. U \in SUBSET Sessions /\ g[U] # count[U]
    OBVIOUS
  <2>6. g[U] = Term(g, U)
    <3> HIDE DEF Term
    <3> QED BY <1>4, <2>5
  <2>7. U # {}
    BY <1>2, <2>5, <2>6
  <2>8. Chosen(U) \in U /\ g[U \ {Chosen(U)}] = count[U \ {Chosen(U)}]
    <3>1. Chosen(U) \in U
      BY <2>7
    <3> DEFINE x == Chosen(U)
    <3> HIDE DEF x, count
    <3>2. <<U \ {x}, U>> \in StrictSubsetOrdering(Sessions)
      BY <2>5, <3>1 DEF StrictSubsetOrdering, x
    <3>3. U \ {x} \notin Bad
      <4> HIDE DEF Bad
      <4> QED BY <2>4, <3>2
    <3>4. g[U \ {x}] = count[U \ {x}]
      BY <2>5, <3>3
    <3> QED BY <3>1, <3>4 DEF x
  <2> HIDE DEF count
  <2> QED BY <1>1, <2>5, <2>6, <2>7, <2>8
<1>5. CapturedRows = (CHOOSE g : Sums(g))[Sessions]
  BY Zenon DEF CapturedRows, MapThenSumSet, MapThenFoldSet
<1>6. Sums(CHOOSE g : Sums(g))
  <2> HIDE DEF Sums, count
  <2> QED BY <1>3
<1>7. CapturedRows = count[Sessions]
  <2> HIDE DEF Sums, count
  <2> QED BY <1>4, <1>5, <1>6
<1> QED BY <1>7

(***************************************************************************)
(* What the metrics counted never shrinks.                                 *)
(***************************************************************************)
LEMMA RowsAdvance ==
  ASSUME TypeInv, [Next]_vars, NEW s \in Sessions
  PROVE  /\ row[s].status # "pending" => row'[s].status # "pending"
         /\ row[s].status = "recovered" => row'[s].status = "recovered"
         /\ row[s].link # Null => row'[s].link # Null
<1> DEFINE Advances ==
      /\ row[s].status # "pending" => row'[s].status # "pending"
      /\ row[s].status = "recovered" => row'[s].status = "recovered"
      /\ row[s].link # Null => row'[s].link # Null
<1>1. ASSUME NEW r \in Handlers, NEW c \in Calls, NEW t \in Sessions, AssignNextPending(r, c, t)
      PROVE  Advances
  BY <1>1, AssignEffect
<1>2. ASSUME NEW r \in Handlers, RecordOutcome(r)
      PROVE  Advances
  <2>1. PICK t \in Sessions, write \in OutcomeWrite : row' = row \/ Applied(t, write)
    BY <1>2, RecordEffect
  <2> QED BY <2>1 DEF Applied, OutcomeWrite, EndSessionAllowedFrom
<1>3. ASSUME NEW r \in Handlers, MarkRecovered(r)
      PROVE  Advances
  BY <1>3, MarkEffect
<1>4. ASSUME NEW t \in HandEdited, NEW at \in 0 .. Horizon, SetNextEligibleAt(t, at)
      PROVE  Advances
  BY <1>4, EditEffect
<1>5. ASSUME row' = row
      PROVE  Advances
  BY <1>5
<1> QED BY <1>1, <1>2, <1>3, <1>4, <1>5, Effects DEF AuditCaptured, Quiet

\* A count of sessions is a number, and is no less over a larger set of them.
LEMMA CountGrows ==
  ASSUME NEW S \in SUBSET Sessions, NEW T \in SUBSET Sessions, S \subseteq T
  PROVE  /\ Cardinality(S) \in Nat /\ Cardinality(T) \in Nat
         /\ Cardinality(S) <= Cardinality(T)
<1>1. IsFiniteSet(S) /\ IsFiniteSet(T)
  BY ViewsAssumption, FS_Subset
<1> QED BY <1>1, FS_Subset, FS_CardinalityType

LEMMA CountsGrow ==
  ASSUME TypeInv, [Next]_vars
  PROVE  /\ Contacted \in Nat /\ Contacted' \in Nat /\ Contacted <= Contacted'
         /\ Recovered \in Nat /\ Recovered' \in Nat /\ Recovered <= Recovered'
         /\ LinksSent \in Nat /\ LinksSent' \in Nat /\ LinksSent <= LinksSent'
<1>1. {s \in Sessions : row[s].status # "pending"} \subseteq {s \in Sessions : row'[s].status # "pending"}
  BY RowsAdvance
<1>2. {s \in Sessions : row[s].status = "recovered"} \subseteq {s \in Sessions : row'[s].status = "recovered"}
  BY RowsAdvance
<1>3. {s \in Sessions : row[s].link # Null} \subseteq {s \in Sessions : row'[s].link # Null}
  BY RowsAdvance
<1> QED BY <1>1, <1>2, <1>3, CountGrows DEF Contacted, Recovered, LinksSent

\* No more rows than recovered sessions.
LEMMA CapturedAreRecovered ==
  ASSUME TypeInv, CapturedOnce
  PROVE  CapturedRows <= Recovered
<1>1. \A s \in Sessions : audit[s]["payment_captured"] \in {0, 1}
  BY DEF CapturedOnce, TypeInv, TypeOK, EventTypes
<1>2. {s \in Sessions : IsCaptured(s)} \subseteq {s \in Sessions : row[s].status = "recovered"}
  BY DEF IsCaptured, CapturedOnce
<1>3. Cardinality({s \in Sessions : IsCaptured(s)}) <= Recovered
  BY <1>2, CountGrows DEF Recovered
<1> QED BY <1>1, <1>3, CapturedRowsCount

Metrics == [at: {"idle", "rows"}, contacted: Nat, recovered: Nat, links: Nat]

MetricsInv ==
  /\ metrics \in Metrics
  /\ metrics.at = "rows" =>
       /\ metrics.contacted <= Contacted
       /\ metrics.recovered <= Recovered
       /\ metrics.links <= LinksSent

LEMMA ViewStep == [ViewNext]_viewVars => [Next]_vars
BY DEF ViewNext, viewVars, Store, CountRows, CountCaptured, vars

LEMMA NextMetrics == TypeInv /\ MetricsInv /\ [ViewNext]_viewVars => MetricsInv'
<1> SUFFICES ASSUME TypeInv, MetricsInv, [ViewNext]_viewVars PROVE MetricsInv'
  OBVIOUS
<1>1. /\ Contacted \in Nat /\ Contacted' \in Nat /\ Contacted <= Contacted'
      /\ Recovered \in Nat /\ Recovered' \in Nat /\ Recovered <= Recovered'
      /\ LinksSent \in Nat /\ LinksSent' \in Nat /\ LinksSent <= LinksSent'
  BY ViewStep, CountsGrow
<1>2. CASE metrics' = metrics
  BY <1>1, <1>2 DEF MetricsInv, Metrics
<1>3. CASE CountRows
  BY <1>1, <1>3 DEF CountRows, MetricsInv, Metrics
<1>4. CASE CountCaptured
  BY <1>4 DEF CountCaptured, NoMetrics, MetricsInv, Metrics
<1> QED BY <1>2, <1>3, <1>4 DEF ViewNext, Store, viewVars

\* However the statements of other requests come between the two counts of a report,
\* no count in it exceeds the truth at the second, for any number of sessions.
THEOREM ReportsUnderstate == ViewSpec => []NeverOverstated
<1>1. ViewInit => Init /\ TypeInv /\ CaptureInv /\ CapturedOnce /\ MetricsInv
  BY InitTypeInv, InitCapture DEF ViewInit, MetricsInv, Metrics, NoMetrics, CaptureInv
<1>2. TypeInv /\ CaptureInv /\ MetricsInv => NeverOverstated
  BY CapturedAreRecovered DEF MetricsInv, NeverOverstated, CaptureInv
<1> QED BY <1>1, <1>2, ViewStep, NextTypeInv, NextCapture, NextMetrics, PTL DEF ViewSpec
=============================================================================
