------------------------- MODULE StoreOpeningProofs -------------------------
(***************************************************************************)
(* Proofs about module StoreOpening for every set of sessions and column   *)
(* values and any number of crashes.                                       *)
(***************************************************************************)
EXTENDS StoreOpening, TLAPS

(***************************************************************************)
(* Type correctness.                                                       *)
(***************************************************************************)
LEMMA UnsetType == Unset \in Row
BY DEF Unset, Row

LEMMA NextTypeOK == TypeOK /\ [Next]_vars => TypeOK'
<1>. USE StoreAssumption
<1>. SUFFICES ASSUME TypeOK, [Next]_vars PROVE TypeOK'
  OBVIOUS
<1>1. CASE Open
  <2>1. CASE Start
    BY <2>1 DEF Start, TypeOK
  <2>2. CASE ApplySchema
    BY <2>2 DEF ApplySchema, Step, TypeOK
  <2>3. CASE HasColumn
    BY <2>3 DEF HasColumn, Step, TypeOK, Columns
  <2>4. ASSUME NEW col \in Columns, ApplyUniqueIndex(col) PROVE TypeOK'
    BY <2>4 DEF ApplyUniqueIndex, Step, Following, TypeOK, Columns
  <2>5. QED
    BY <1>1, <2>1, <2>2, <2>3, <2>4 DEF Open
<1>2. ASSUME NEW s \in Sessions, NEW p \in Payments \cup {Null},
             InsertAccount(s, p) \/ InsertFailedPayment(s, p)
      PROVE  TypeOK'
  <2>1. Write(s, "payment", p) /\ loaded' = loaded \cup {s}
    BY <1>2 DEF InsertAccount, InsertFailedPayment
  <2>2. rows' \in [Sessions -> Row]
    BY <2>1 DEF Write, TypeOK, Row
  <2>3. \A t \in Sessions \ loaded' : rows'[t] = Unset
    BY <2>1 DEF Write, TypeOK
  <2>4. QED
    BY <2>1, <2>2, <2>3 DEF Write, TypeOK
<1>3. ASSUME NEW s \in Sessions, NEW c \in Calls, BindCall(s, c) PROVE TypeOK'
  BY <1>3 DEF BindCall, Write, TypeOK, Row, Columns, Unset
<1>4. ASSUME NEW s \in Sessions, NEW l \in Links, StoreLink(s, l) PROVE TypeOK'
  BY <1>4 DEF StoreLink, Write, TypeOK, Row, Columns, Unset
<1>5. CASE Crash
  BY <1>5 DEF Crash, TypeOK
<1>6. ASSUME NEW s \in Sessions, DeleteRow(s) PROVE TypeOK'
  BY <1>6, UnsetType DEF DeleteRow, TypeOK
<1>7. CASE UNCHANGED vars
  BY <1>7 DEF vars, TypeOK
<1>8. QED
  BY <1>1, <1>2, <1>3, <1>4, <1>5, <1>6, <1>7 DEF Next, Serve

LEMMA InitTypeOK == Init => TypeOK
<1>. SUFFICES ASSUME Init PROVE TypeOK
  OBVIOUS
<1>1. legacy \in BOOLEAN /\ (table = "old" => legacy)
  <2>1. legacy = (table # "absent") /\ ("old" # "absent")
    BY DEF Init
  <2>2. QED
    BY <2>1, Zenon
<1>2. QED
  BY <1>1, StoreAssumption DEF Init, TypeOK

\* Every statement of Open, every write and every clean-up keeps the file and
\* the process well typed.
THEOREM TypeCorrect == Spec => []TypeOK
BY InitTypeOK, NextTypeOK, PTL DEF Spec

(***************************************************************************)
(* Which writes an index survives.                                         *)
(***************************************************************************)
\* An index on record tells the truth, through crashes, clean-ups and files that
\* were served without it.
IndexedIsUnique == \A col \in indexes : Unique(col)

\* A write the indexes accept leaves every indexed column unique.
LEMMA WriteKeepsUnique ==
  ASSUME TypeOK, IndexedIsUnique,
         NEW s \in Sessions, NEW col \in Columns, NEW v, Write(s, col, v)
  PROVE  IndexedIsUnique'
<1>1. SUFFICES ASSUME NEW k \in indexes, NEW t \in Sessions, NEW u \in Sessions,
                      rows'[t][k] # Null, rows'[t][k] = rows'[u][k]
               PROVE  u = t
  BY DEF IndexedIsUnique, Unique, Write
<1>2. k \in Columns
  BY DEF TypeOK
<1>3. \A a \in Sessions : rows'[a][k] = IF a = s /\ k = col THEN v ELSE rows[a][k]
  BY <1>2 DEF Write, TypeOK, Row, Columns
<1>4. CASE k = col
  BY <1>1, <1>3, <1>4 DEF Write, Accepted, IndexedIsUnique, Unique
<1>5. CASE k # col
  BY <1>1, <1>3, <1>5 DEF IndexedIsUnique, Unique
<1>6. QED
  BY <1>4, <1>5

\* Where no row is loaded every column is unique: there is nothing to collide.
LEMMA EmptyIsUnique ==
  ASSUME TypeOK, loaded = {}, NEW col \in Columns
  PROVE  Unique(col)
BY DEF TypeOK, Unset, Unique, Columns

(***************************************************************************)
(* The inductive invariant.  While the loop runs, the indexes it is past   *)
(* exist exactly where the rows allow them; and a file of this version is  *)
(* empty until all three exist.                                            *)
(***************************************************************************)
LoopSoFar ==
  /\ pc \in {"payment", "link"} => ("call" \in indexes <=> Unique("call"))
  /\ pc = "link" => ("payment" \in indexes <=> Unique("payment"))

EmptyUntilGuarded == ~ legacy => indexes = Columns \/ loaded = {}

OpenInv ==
  TypeOK /\ IndexedIsUnique /\ LoopSoFar /\ EmptyUntilGuarded /\ FreshStoreIsGuarded

LEMMA InitOpenInv == Init => OpenInv
BY InitTypeOK
   DEF Init, OpenInv, IndexedIsUnique, LoopSoFar, EmptyUntilGuarded, FreshStoreIsGuarded

\* One turn of the loop decides its column by its rows, whatever was there.
LEMMA LoopDecides ==
  ASSUME OpenInv, NEW col \in Columns, ApplyUniqueIndex(col)
  PROVE  /\ rows' = rows /\ \A k \in Columns : Unique(k)' = Unique(k)
         /\ indexes \subseteq indexes'
         /\ \A k \in indexes' : Unique(k)
         /\ \A k \in Columns \ {col} : k \in indexes' <=> k \in indexes
         /\ col \in indexes' <=> Unique(col)
<1>1. rows' = rows /\ \A k \in Columns : Unique(k)' = Unique(k)
  BY DEF ApplyUniqueIndex, Unique
<1>2. indexes' = IF Unique(col) THEN indexes \cup {col} ELSE indexes
  BY DEF ApplyUniqueIndex
<1>3. col \in indexes => Unique(col)
  BY DEF OpenInv, IndexedIsUnique
<1>4. QED
  BY <1>1, <1>2, <1>3 DEF OpenInv, IndexedIsUnique

LEMMA LoopOpenInv ==
  ASSUME OpenInv, NEW col \in Columns, ApplyUniqueIndex(col)
  PROVE  OpenInv'
<1>1. TypeOK /\ TypeOK' /\ pc = col /\ pc' = Following(col) /\ loaded' = loaded /\ legacy' = legacy
  BY NextTypeOK DEF OpenInv, Next, Open, ApplyUniqueIndex, Step
<1>2. indexes' \subseteq Columns
  BY <1>1 DEF TypeOK
<1>3. IndexedIsUnique'
  BY <1>2, LoopDecides DEF IndexedIsUnique
<1>4. LoopSoFar'
  BY <1>1, LoopDecides DEF OpenInv, LoopSoFar, Following, Columns
<1>5. EmptyUntilGuarded'
  BY <1>1, <1>2, LoopDecides DEF OpenInv, EmptyUntilGuarded
<1>6. FreshStoreIsGuarded'
  <2>1. SUFFICES ASSUME col = "link", ~ legacy PROVE indexes' = Columns
    BY <1>1 DEF FreshStoreIsGuarded, Following, Columns
  <2>2. CASE indexes = Columns
    BY <2>2, <1>2, LoopDecides
  <2>3. CASE loaded = {}
    BY <1>1, <1>2, <2>1, <2>3, EmptyIsUnique, LoopDecides DEF OpenInv, LoopSoFar, Columns
  <2>4. QED
    BY <2>1, <2>2, <2>3 DEF OpenInv, EmptyUntilGuarded
<1>7. QED
  BY <1>1, <1>3, <1>4, <1>5, <1>6 DEF OpenInv

\* A statement that writes a column: the process serves, so a fresh file has its
\* indexes already.
LEMMA WriteOpenInv ==
  ASSUME OpenInv, TypeOK', NEW s \in Sessions, NEW col \in Columns, NEW v, Write(s, col, v)
  PROVE  OpenInv'
<1>1. IndexedIsUnique'
  BY WriteKeepsUnique DEF OpenInv
<1>2. pc = "serving" /\ pc' = "serving" /\ indexes' = indexes /\ legacy' = legacy
  BY DEF Write
<1>3. QED
  BY <1>1, <1>2 DEF OpenInv, LoopSoFar, EmptyUntilGuarded, FreshStoreIsGuarded

LEMMA NextOpenInv == OpenInv /\ [Next]_vars => OpenInv'
<1>. SUFFICES ASSUME OpenInv, [Next]_vars PROVE OpenInv'
  OBVIOUS
<1>0. TypeOK /\ TypeOK'
  BY NextTypeOK DEF OpenInv
<1>1. ASSUME rows' = rows, indexes' = indexes, loaded' = loaded, legacy' = legacy,
             pc' \in {"down", "refused", "schema", "migrate", "call"}
      PROVE  OpenInv'
  BY <1>0, <1>1 DEF OpenInv, IndexedIsUnique, Unique, LoopSoFar, EmptyUntilGuarded,
                    FreshStoreIsGuarded
<1>2. CASE Start \/ ApplySchema \/ HasColumn \/ Crash
  BY <1>1, <1>2 DEF Start, ApplySchema, HasColumn, Crash, Step
<1>3. ASSUME NEW col \in Columns, ApplyUniqueIndex(col) PROVE OpenInv'
  BY <1>3, LoopOpenInv
<1>4. CASE Serve
  BY <1>0, <1>4, WriteOpenInv
     DEF Serve, InsertAccount, InsertFailedPayment, BindCall, StoreLink, Columns
<1>5. ASSUME NEW s \in Sessions, DeleteRow(s) PROVE OpenInv'
  <2>1. ASSUME NEW k \in indexes PROVE Unique(k)'
    <3>1. k \in Columns /\ Unset[k] = Null
      BY <1>0 DEF TypeOK, Columns, Unset
    <3>2. \A t \in Sessions : rows'[t][k] = IF t = s THEN Null ELSE rows[t][k]
      BY <1>0, <1>5, <3>1 DEF DeleteRow, TypeOK
    <3>3. Unique(k)
      BY DEF OpenInv, IndexedIsUnique
    <3>4. QED
      BY <3>2, <3>3 DEF Unique
  <2>2. IndexedIsUnique'
    BY <1>5, <2>1 DEF DeleteRow, IndexedIsUnique
  <2>3. QED
    BY <1>0, <1>5, <2>2 DEF DeleteRow, OpenInv, LoopSoFar, EmptyUntilGuarded, FreshStoreIsGuarded
<1>6. CASE UNCHANGED vars
  BY <1>0, <1>6 DEF vars, OpenInv, IndexedIsUnique, Unique, LoopSoFar, EmptyUntilGuarded,
                    FreshStoreIsGuarded
<1>7. QED
  BY <1>2, <1>3, <1>4, <1>5, <1>6 DEF Next, Open

LEMMA AlwaysOpenInv == Spec => []OpenInv
BY InitOpenInv, NextOpenInv, PTL DEF Spec

(***************************************************************************)
(* What is promised.                                                       *)
(***************************************************************************)
\* applyUniqueIndexes never declares an index the rows contradict, and no
\* statement makes one false later.
THEOREM IndexesTellTheTruth == Spec => []IndexedIsUnique
<1>1. OpenInv => IndexedIsUnique
  BY DEF OpenInv
<1>2. QED
  BY <1>1, AlwaysOpenInv, PTL

\* A file that Open created is served with its three indexes, wherever and however
\* often its first starts were cut off.
THEOREM FreshStoresAreGuarded == Spec => []FreshStoreIsGuarded
<1>1. OpenInv => FreshStoreIsGuarded
  BY DEF OpenInv
<1>2. QED
  BY <1>1, AlwaysOpenInv, PTL

\* Only the loop's last turn begins to serve, and the turns before it decided the
\* other columns by the same rows.
LEMMA ServingAsFarAsPossible ==
  ASSUME OpenInv, [Next]_vars, pc # "serving", pc' = "serving"
  PROVE  indexes' = {col \in Columns : Unique(col)'}
<1>0. TypeOK /\ TypeOK'
  BY NextTypeOK DEF OpenInv
<1>1. PICK col \in Columns : ApplyUniqueIndex(col)
  BY <1>0 DEF Next, Open, Start, ApplySchema, HasColumn, Step, Serve, InsertAccount,
     InsertFailedPayment, BindCall, StoreLink, Write, Crash, DeleteRow, vars, Columns
<1>2. col = "link" /\ pc = "link"
  BY <1>1 DEF ApplyUniqueIndex, Step, Following, Columns
<1>3. indexes' \subseteq Columns
  BY <1>0 DEF TypeOK
<1>4. \A k \in Columns : k \in indexes' <=> Unique(k)
  BY <1>1, <1>2, LoopDecides DEF OpenInv, LoopSoFar, Columns
<1>5. \A k \in Columns : Unique(k)' = Unique(k)
  BY <1>1, LoopDecides
<1>6. QED
  BY <1>3, <1>4, <1>5

\* applyUniqueIndexes does not let the duplicates of one column cost another its
\* index.
THEOREM OneColumnSparesTheOthers == Spec => IndexedAsFarAsPossible
<1>1. OpenInv /\ [Next]_vars =>
        [pc # "serving" /\ pc' = "serving" => indexes' = {col \in Columns : Unique(col)'}]_vars
  BY ServingAsFarAsPossible
<1>2. QED
  BY <1>1, AlwaysOpenInv, PTL DEF Spec, IndexedAsFarAsPossible
=============================================================================
