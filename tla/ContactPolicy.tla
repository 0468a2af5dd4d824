--------------------------- MODULE ContactPolicy ---------------------------
(***************************************************************************)
(* What the recovery orchestrator promises the customer behind each        *)
(* session, with no database, no request and no clock:                     *)
(*                                                                         *)
(*   - a customer is called at most MaxContactAttempts times;              *)
(*   - a call has one decision, taken during the call or, when the call    *)
(*     settled nothing, later by an operator;                              *)
(*   - a session that was stopped (refused, or out of attempts) is never   *)
(*     called again, and a paid one never changes again;                   *)
(*   - a payment is accepted whatever the session's phase.                 *)
(*                                                                         *)
(* Module Recovery implements it: see Policy there.                        *)
(***************************************************************************)
EXTENDS Naturals

CONSTANTS
  Sessions,             \* recovery sessions, one per customer
  MaxContactAttempts    \* contact budget of a session

VARIABLES
  phase,                \* where the session stands with the customer
  contacts              \* number of calls made so far

vars == <<phase, contacts>>

Phases == {"waiting", "calling", "undecided", "stopped", "paid"}

Init ==
  /\ phase = [s \in Sessions |-> "waiting"]
  /\ contacts = [s \in Sessions |-> 0]

Call(s) ==
  /\ phase[s] \in {"waiting", "undecided"}
  /\ contacts[s] < MaxContactAttempts
  /\ phase' = [phase EXCEPT ![s] = "calling"]
  /\ contacts' = [contacts EXCEPT ![s] = @ + 1]

Decide(s, verdict) ==
  /\ phase[s] \in {"calling", "undecided"}
  /\ phase' = [phase EXCEPT ![s] = verdict]
  /\ UNCHANGED contacts

Pay(s) ==
  /\ phase[s] # "paid"
  /\ phase' = [phase EXCEPT ![s] = "paid"]
  /\ UNCHANGED contacts

Next ==
  \E s \in Sessions :
    \/ Call(s)
    \/ \E verdict \in {"waiting", "undecided", "stopped"} : Decide(s, verdict)
    \/ Pay(s)

Spec == Init /\ [][Next]_vars
=============================================================================
