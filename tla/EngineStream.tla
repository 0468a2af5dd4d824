---------------------------- MODULE EngineStream ----------------------------
(***************************************************************************)
(* What the gateway may rely on of the events it receives from the         *)
(* inference engine: audio, then one outcome, then the end of the stream,  *)
(* unless the stream breaks before its end.  Nothing ties the outcome to   *)
(* the gateway's half-close: an exception over what the engine read ends   *)
(* its input just as well.                                                 *)
(*                                                                         *)
(* InferenceEngine implements it; GatewayCall takes its steps for those of *)
(* the engine.                                                             *)
(***************************************************************************)
EXTENDS Naturals

VARIABLES
  engine,  \* the engine's end of the stream
  spoken   \* chunks of audio sent

vars == <<engine, spoken>>

Init == engine = "serving" /\ spoken = 0

Speak == engine = "serving" /\ spoken' = spoken + 1 /\ UNCHANGED engine

Classify == engine = "serving" /\ engine' = "classified" /\ UNCHANGED spoken

End == engine = "classified" /\ engine' = "finished" /\ UNCHANGED spoken

Fail == engine \in {"serving", "classified"} /\ engine' = "failed" /\ UNCHANGED spoken

Next == Speak \/ Classify \/ End \/ Fail

Spec == Init /\ [][Next]_vars
=============================================================================
