------------------------------ MODULE MCIntake ------------------------------
(***************************************************************************)
(* Small instances of Intake: batches of an account without a payment id   *)
(* and of one that collides with a payment Razorpay reports.               *)
(***************************************************************************)
EXTENDS Intake

CONSTANTS p1

MCBatches == {<<Null>>, <<p1, Null>>}
=============================================================================
