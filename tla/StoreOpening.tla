---------------------------- MODULE StoreOpening ----------------------------
(***************************************************************************)
(* Open, run on the database file each time the orchestrator starts: apply *)
(* the schema, look for the column a migration would add, create the three *)
(* unique indexes as far as the rows allow, serve.  The process may die    *)
(* before any statement and is started again on the same file.             *)
(*                                                                         *)
(* The other modules of the store assume its unique indexes.  This one     *)
(* says when they are there.                                               *)
(*                                                                         *)
(* A file is as this version creates it, or older: without the unique      *)
(* indexes, or without next_eligible_at too.  Of a row only the columns    *)
(* with an index are kept.  The schema is one call that runs statements    *)
(* in order and ends at the first that fails.  migrate's ALTER TABLE and   *)
(* backfill need a table without the column, which the schema, applied     *)
(* just before, either has created with it or has failed on: nothing       *)
(* reaches them and they have no action.                                   *)
(***************************************************************************)
EXTENDS Naturals

CONSTANTS
  Sessions,    \* ids of recovery sessions
  Calls,       \* call_session_id values
  Payments,    \* razorpay_payment_id values
  Links,       \* razorpay_link_id values
  MaxCrashes,  \* times the process dies (bounds behaviours)
  Null         \* SQL NULL

ASSUME StoreAssumption ==
  /\ MaxCrashes \in Nat
  /\ Null \notin Calls \cup Payments \cup Links

VARIABLES
  table,    \* recovery_sessions: absent, without next_eligible_at, current
  rows,     \* the indexed columns of its rows, all Null where there is none
  loaded,   \* the ids that have a row
  indexes,  \* the columns whose unique index exists
  pc,       \* where the process is: down, in Open, serving or refused
  legacy,   \* the file is older than this version
  crashes   \* times the process died so far

vars == <<table, rows, loaded, indexes, pc, legacy, crashes>>

Columns == {"call", "payment", "link"}
Row == [call: Calls \cup {Null}, payment: Payments \cup {Null}, link: Links \cup {Null}]
Unset == [call |-> Null, payment |-> Null, link |-> Null]

\* A file of this version has every column from the first.
TypeOK ==
  /\ table \in {"absent", "old", "current"} /\ (table = "old" => legacy)
  /\ rows \in [Sessions -> Row]
  /\ loaded \subseteq Sessions /\ \A s \in Sessions \ loaded : rows[s] = Unset
  /\ indexes \subseteq Columns
  /\ pc \in {"down", "refused", "schema", "migrate", "serving"} \cup Columns
  /\ legacy \in BOOLEAN
  /\ crashes \in 0 .. MaxCrashes

Unique(col) ==
  \A s, t \in Sessions : rows[s][col] # Null /\ rows[s][col] = rows[t][col] => s = t

Init ==
  /\ pc = "down" /\ crashes = 0 /\ indexes = {}
  /\ table \in {"absent", "old", "current"} /\ legacy = (table # "absent")
  /\ loaded \in SUBSET Sessions /\ (table = "absent" => loaded = {})
  /\ rows \in [Sessions -> Row] /\ \A s \in Sessions \ loaded : rows[s] = Unset

(***************************************************************************)
(* Open.                                                                   *)
(***************************************************************************)
Step(from, to) == pc = from /\ pc' = to

Start ==
  /\ pc \in {"down", "refused"}
  /\ pc' = "schema"
  /\ UNCHANGED <<table, rows, loaded, indexes, legacy, crashes>>

\* A bug: next_eligible_at is added to the migration and to the index, but not to the
\* CREATE TABLE of the schema.
ColumnForgotten ==
  /\ IF table = "current" THEN Step("schema", "migrate") /\ UNCHANGED table
     ELSE Step("schema", "refused") /\ table' = "old"
  /\ UNCHANGED <<rows, loaded, indexes, legacy, crashes>>

\* CREATE TABLE skips a table that exists; the index on next_eligible_at then
\* fails where the column is missing, and Open with it.
ApplySchema ==
  /\ IF table = "old" THEN Step("schema", "refused") /\ UNCHANGED table
     ELSE Step("schema", "migrate") /\ table' = "current"
  /\ UNCHANGED <<rows, loaded, indexes, legacy, crashes>>

HasColumn ==
  /\ Step("migrate", "call") /\ table = "current"
  /\ UNCHANGED <<table, rows, loaded, indexes, legacy, crashes>>

Following(col) ==
  CASE col = "call" -> "payment" [] col = "payment" -> "link" [] col = "link" -> "serving"

\* A bug: the first index that does not apply ends the loop.
StopAtFirst(col) ==
  /\ Step(col, IF Unique(col) THEN Following(col) ELSE "serving")
  /\ indexes' = IF Unique(col) THEN indexes \cup {col} ELSE indexes
  /\ UNCHANGED <<table, rows, loaded, legacy, crashes>>

\* A bug: a file whose rows an index rejects is refused.
RefuseDuplicates(col) ==
  /\ Step(col, IF Unique(col) THEN Following(col) ELSE "refused")
  /\ indexes' = IF Unique(col) THEN indexes \cup {col} ELSE indexes
  /\ UNCHANGED <<table, rows, loaded, legacy, crashes>>

\* A failure is logged and the next index tried.
ApplyUniqueIndex(col) ==
  /\ Step(col, Following(col))
  /\ indexes' = IF Unique(col) THEN indexes \cup {col} ELSE indexes
  /\ UNCHANGED <<table, rows, loaded, legacy, crashes>>

(***************************************************************************)
(* Statements that write an indexed column while the process serves.  One  *)
(* that an index rejects changes nothing.                                  *)
(***************************************************************************)
Accepted(s, col, v) == col \in indexes => \A t \in Sessions \ {s} : rows[t][col] # v

Write(s, col, v) ==
  /\ pc = "serving"
  /\ Accepted(s, col, v)
  /\ rows' = [rows EXCEPT ![s][col] = v]
  /\ UNCHANGED <<table, indexes, pc, legacy, crashes>>

\* A bug: the campaign is loaded before the indexes are there.
LoadEarly(s, p) ==
  /\ pc \in {"call", "payment", "link", "serving"} /\ s \notin loaded
  /\ Accepted(s, "payment", p)
  /\ rows' = [rows EXCEPT ![s].payment = p] /\ loaded' = loaded \cup {s}
  /\ UNCHANGED <<table, indexes, pc, legacy, crashes>>

\* CreateCampaign inserts every account of its request as it is.
InsertAccount(s, p) ==
  /\ s \notin loaded /\ loaded' = loaded \cup {s}
  /\ Write(s, "payment", p)

\* HandlePaymentFailed looks for the payment before it inserts.
InsertFailedPayment(s, p) ==
  /\ s \notin loaded /\ loaded' = loaded \cup {s}
  /\ \A t \in Sessions : rows[t].payment # p
  /\ Write(s, "payment", p)

\* AssignNextPending takes the caller's word for the call's id.
BindCall(s, c) == s \in loaded /\ Write(s, "call", c) /\ UNCHANGED loaded

\* RecordOutcome stores an id the provider has just made up.
StoreLink(s, l) ==
  /\ s \in loaded /\ \A t \in Sessions : rows[t].link # l
  /\ Write(s, "link", l) /\ UNCHANGED loaded

(***************************************************************************)
(* The process and the operator.                                           *)
(***************************************************************************)
Crash ==
  /\ pc \notin {"down", "refused"} /\ crashes < MaxCrashes
  /\ pc' = "down" /\ crashes' = crashes + 1
  /\ UNCHANGED <<table, rows, loaded, indexes, legacy>>

\* The deliberate clean-up the warning asks for, at any moment but during Open.
DeleteRow(s) ==
  /\ pc \in {"down", "refused", "serving"}
  /\ s \in loaded /\ loaded' = loaded \ {s}
  /\ rows' = [rows EXCEPT ![s] = Unset]
  /\ UNCHANGED <<table, indexes, pc, legacy, crashes>>

Open == Start \/ ApplySchema \/ HasColumn \/ \E col \in Columns : ApplyUniqueIndex(col)

Serve ==
  \E s \in Sessions :
    \/ \E p \in Payments \cup {Null} : InsertAccount(s, p)
    \/ \E p \in Payments : InsertFailedPayment(s, p)
    \/ \E c \in Calls : BindCall(s, c)
    \/ \E l \in Links : StoreLink(s, l)

Next == Open \/ Serve \/ Crash \/ \E s \in Sessions : DeleteRow(s)

\* The process is started again until it serves, and runs while it is up.
Spec == Init /\ [][Next]_vars /\ WF_vars(Open)

(***************************************************************************)
(* Properties.                                                             *)
(***************************************************************************)
\* A store this version created never serves without all three indexes,
\* wherever its first start was cut off: what Recovery and Intake assume.
FreshStoreIsGuarded == pc = "serving" /\ ~ legacy => indexes = Columns

\* One column with duplicates does not cost the others their index: serving
\* begins with every index the rows allow.
IndexedAsFarAsPossible ==
  [][pc # "serving" /\ pc' = "serving" => indexes' = {col \in Columns : Unique(col)'}]_vars

\* A file that has the column is served in the end, however often the process
\* dies on the way and whatever its rows hold.
OpensEventually == table # "old" ~> pc = "serving"

\* Comment of migrate: a database created by an earlier schema is brought up to
\* date.
EveryDatabaseOpens == pc # "refused"
=============================================================================
