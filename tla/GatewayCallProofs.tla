-------------------------- MODULE GatewayCallProofs --------------------------
(***************************************************************************)
(* Proofs about GatewayCall, for every capacity of AgentAudioChan and any  *)
(* number of chunks: the type invariant and, from one inductive invariant  *)
(* CallInv, the single sender, the collected verdict, the engine that      *)
(* outlives its caller and the finality of TERMINATED; at the end, that    *)
(* the goroutines of a call never wait for one another in a circle.        *)
(*                                                                         *)
(* TypeOK and CallInv are preserved action by action.  CallInv is proved   *)
(* after Arrivals has said where the events that end a stream come from:   *)
(* it then speaks of control only, and each action is one leaf.            *)
(***************************************************************************)
EXTENDS GatewayCall, TLAPS

(***************************************************************************)
(* Types.                                                                  *)
(***************************************************************************)
\* A step of one goroutine leaves every goroutine at one of its points.
LEMMA StepType ==
  ASSUME TypeOK, NEW g \in Goroutines, NEW from, NEW to \in PCs, Step(g, from, to)
  PROVE  pc' \in [Goroutines -> PCs]
BY DEF TypeOK, Step

LEMMA TransitionType ==
  ASSUME TypeOK, NEW next \in States, transitionTo(next) PROVE state' \in States
BY DEF TypeOK, transitionTo

LEMMA InitType == Init => TypeOK
<1>. SUFFICES ASSUME Init PROVE TypeOK
  OBVIOUS
<1>1. pc \in [Goroutines -> PCs]
  BY DEF Init, PCs
<1>2. {armed, assigned, relayExited, sendFailed, gaveUp, halfClosed, cancelled}
        \subseteq BOOLEAN
  BY Zenon DEF Init
<1>3. audioChan \in Seq({"audio"}) /\ Len(audioChan) <= ChanCap
  BY GatewayAssumption DEF Init
<1>4. inboundErr \in 0 .. 1 /\ spoken \in 0 .. MaxSpoken /\ heard \in 0 .. MaxHeard
  BY GatewayAssumption DEF Init
<1>5. QED
  BY <1>1, <1>2, <1>3, <1>4 DEF Init, TypeOK, States

LEMMA NextType == TypeOK /\ [Next]_vars => TypeOK'
<1>. SUFFICES ASSUME TypeOK, [Next]_vars PROVE TypeOK'
  OBVIOUS
<1>1. CASE Main
  <2>1. CASE ResolveProfile
    BY <2>1, GatewayAssumption DEF ResolveProfile, Step, TypeOK, Goroutines, PCs,
       sessionVars, streamVars, chanVars, peerVars
  <2>2. CASE StartSession
    <3>1. pc' \in [Goroutines -> PCs]
      BY <2>2, StepType DEF StartSession, Goroutines, PCs
    <3>2. cancelled' \in BOOLEAN
      BY <2>2, Zenon DEF StartSession, TypeOK
    <3>3. state' \in States
      BY <2>2 DEF StartSession, States
    <3>4. QED
      BY <2>2, <3>1, <3>2, <3>3 DEF StartSession, TypeOK, callVars, chanVars, peerVars
  <2>3. CASE Select
    <3>1. pc' \in [Goroutines -> PCs]
      BY <2>3, StepType DEF Select, Goroutines, PCs
    <3>2. relayExited' \in BOOLEAN
      BY <2>3, Zenon DEF Select, TypeOK
    <3>3. inboundErr' \in 0 .. 1
      BY <2>3 DEF Select, TypeOK
    <3>4. QED
      BY <2>3, <3>1, <3>2, <3>3 DEF Select, TypeOK, sessionVars, streamVars, peerVars
  <2>4. CASE FirstLook
    BY <2>4, GatewayAssumption DEF FirstLook, MayHalfClose, Collect, Step, TypeOK,
       Goroutines, PCs, sessionVars, streamVars, chanVars, peerVars
  <2>5. CASE SignalInputComplete
    <3>1. pc' \in [Goroutines -> PCs]
      BY <2>5, StepType DEF SignalInputComplete, Collect, Goroutines, PCs, TypeOK
    <3>2. halfClosed' \in BOOLEAN
      BY <2>5, Zenon DEF SignalInputComplete, TypeOK
    <3>3. {result', report'} \subseteq {None, "verdict", "fallback"}
      BY <2>5 DEF SignalInputComplete, Collect, TypeOK
    <3>4. QED
      BY <2>5, <3>1, <3>2, <3>3
      DEF SignalInputComplete, TypeOK, sessionVars, chanVars, peerVars
  <2>6. CASE Await
    <3>1. pc' \in [Goroutines -> PCs]
      BY <2>6, StepType DEF Await, Goroutines, PCs
    <3>2. gaveUp' \in BOOLEAN
      BY <2>6, Zenon DEF Await, TypeOK
    <3>3. QED
      BY <2>6, <3>1, <3>2 DEF Await, TypeOK, sessionVars, streamVars, chanVars, peerVars
  <2>7. CASE SecondLook
    BY <2>7, GatewayAssumption DEF SecondLook, Collect, Step, TypeOK, Goroutines, PCs,
       sessionVars, streamVars, chanVars, peerVars
  <2>8. CASE CancelAgent
    BY <2>8, GatewayAssumption DEF CancelAgent, Step, TypeOK, Goroutines, PCs,
       sessionVars, callVars, chanVars, peerVars
  <2>9. CASE AwaitOutbound
    BY <2>9, GatewayAssumption DEF AwaitOutbound, Step, TypeOK, Goroutines, PCs,
       sessionVars, callVars, streamVars, chanVars, peerVars
  <2>10. CASE EndSession
    BY <2>10, GatewayAssumption DEF EndSession, Step, TypeOK, Goroutines, PCs,
       sessionVars, streamVars, chanVars, peerVars
  <2>11. QED
    BY <1>1, <2>1, <2>2, <2>3, <2>4, <2>5, <2>6, <2>7, <2>8, <2>9, <2>10 DEF Main
<1>2. CASE Inbound
  <2>1. CASE InboundRecv
    BY <2>1, GatewayAssumption DEF InboundRecv, Step, TypeOK, Goroutines, PCs,
       sessionVars, callVars, streamVars, chanVars
  <2>2. CASE SendAudioReturns
    BY <2>2, GatewayAssumption DEF SendAudioReturns, Step, TypeOK, Goroutines, PCs,
       sessionVars, callVars, streamVars, chanVars, peerVars
  <2>3. CASE Publish
    BY <2>3, GatewayAssumption DEF Publish, Step, TypeOK, Goroutines, PCs, sessionVars,
       callVars, streamVars, peerVars
  <2>4. QED
    BY <1>2, <2>1, <2>2, <2>3 DEF Inbound
<1>3. CASE Outbound
  <2>1. CASE NextChunk
    <3>1. pc' \in [Goroutines -> PCs]
      <4>1. {"range", "sending", "exited"} \subseteq PCs
        BY DEF PCs
      <4>2. \E to \in PCs : pc' = [pc EXCEPT !["outbound"] = to]
        BY <2>1, <4>1 DEF NextChunk, Step
      <4>3. QED
        BY <4>2 DEF TypeOK, Goroutines
    <3>2. audioChan' \in Seq({"audio"}) /\ Len(audioChan') <= ChanCap
      <4>1. CASE audioChan' = audioChan
        BY <4>1 DEF TypeOK
      <4>2. CASE audioChan # <<>> /\ audioChan' = Tail(audioChan)
        BY <4>2, GatewayAssumption DEF TypeOK
      <4>3. QED
        BY <2>1, <4>1, <4>2, Zenon DEF NextChunk
    <3>3. closed' \subseteq {"AgentAudioChan", "DoneChan", "OutcomeChan", "outboundDone"}
      BY <2>1 DEF NextChunk, TypeOK
    <3>4. QED
      BY <2>1, <3>1, <3>2, <3>3 DEF NextChunk, TypeOK, sessionVars, callVars, streamVars, peerVars
  <2>2. CASE OutboundFails
    BY <2>2, GatewayAssumption DEF OutboundFails, Step, TypeOK, Goroutines, PCs,
       sessionVars, streamVars, chanVars, peerVars
  <2>3. QED
    BY <1>3, <2>1, <2>2 DEF Outbound
<1>4. CASE ReadPump
  <2>1. CASE RecvOutcome
    BY <2>1, GatewayAssumption DEF RecvOutcome, Recv, Step, TypeOK, Goroutines, PCs,
       sessionVars, callVars, chanVars, peerVars
  <2>2. CASE RecvAudio
    BY <2>2, GatewayAssumption DEF RecvAudio, Recv, Step, TypeOK, Goroutines, PCs,
       sessionVars, callVars, chanVars, peerVars
  <2>3. CASE RecvEOF
    <3>1. pc' \in [Goroutines -> PCs]
      BY <2>3, StepType DEF RecvEOF, Recv, Goroutines, PCs
    <3>2. state' \in States
      BY <2>3, TransitionType DEF RecvEOF, States
    <3>3. toGateway' \in Seq({"audio", "outcome", "eof", "error"})
      BY <2>3 DEF RecvEOF, Recv, TypeOK
    <3>4. QED
      BY <2>3, <3>1, <3>2, <3>3 DEF RecvEOF, TypeOK, callVars, chanVars, peerVars
  <2>4. CASE RecvError
    BY <2>4, GatewayAssumption DEF RecvError, Step, TypeOK, Goroutines, PCs,
       sessionVars, callVars, streamVars, chanVars, peerVars
  <2>5. CASE StoreOutcome
    BY <2>5, GatewayAssumption DEF StoreOutcome, Step, TypeOK, Goroutines, PCs,
       callVars, streamVars, chanVars, peerVars
  <2>6. CASE AnnounceOutcome
    BY <2>6, GatewayAssumption DEF AnnounceOutcome, Step, TypeOK, Goroutines, PCs,
       sessionVars, callVars, streamVars, peerVars
  <2>7. CASE Respond
    <3>1. pc' \in [Goroutines -> PCs]
      BY <2>7, StepType DEF Respond, Goroutines, PCs
    <3>2. state' \in States
      BY <2>7, TransitionType DEF Respond, States
    <3>3. QED
      BY <2>7, <3>1, <3>2 DEF Respond, TypeOK, callVars, streamVars, chanVars, peerVars
  <2>8. CASE ResetIdle
    BY <2>8, GatewayAssumption DEF ResetIdle, Step, TypeOK, Goroutines, PCs, callVars,
       streamVars, chanVars, peerVars
  <2>9. CASE Put
    BY <2>9, GatewayAssumption DEF Put, Step, TypeOK, Goroutines, PCs, sessionVars,
       callVars, streamVars, peerVars
  <2>10. CASE StopIdle
    <3>1. pc' \in [Goroutines -> PCs]
      BY <2>10, StepType DEF StopIdle, Goroutines, PCs
    <3>2. armed' \in BOOLEAN
      BY <2>10, Zenon DEF StopIdle
    <3>3. QED
      BY <2>10, <3>1, <3>2 DEF StopIdle, TypeOK, callVars, streamVars, chanVars, peerVars
  <2>11. CASE SignalDone
    BY <2>11, GatewayAssumption DEF SignalDone, Step, TypeOK, Goroutines, PCs,
       sessionVars, callVars, streamVars, peerVars
  <2>12. CASE CloseAudio
    BY <2>12, GatewayAssumption DEF CloseAudio, Step, TypeOK, Goroutines, PCs,
       sessionVars, callVars, streamVars, peerVars
  <2>13. QED
    BY <1>4, <2>1, <2>2, <2>3, <2>4, <2>5, <2>6, <2>7, <2>8, <2>9, <2>10, <2>11, <2>12 DEF ReadPump
<1>5. CASE Idle
  <2>1. CASE IdleFires
    <3>1. pc' \in [Goroutines -> PCs]
      BY <2>1, StepType DEF IdleFires, Goroutines, PCs
    <3>2. armed' \in BOOLEAN
      BY <2>1, Zenon DEF IdleFires
    <3>3. QED
      BY <2>1, <3>1, <3>2 DEF IdleFires, TypeOK, callVars, streamVars, chanVars, peerVars
  <2>2. CASE IdleLooks
    BY <2>2, GatewayAssumption DEF IdleLooks, Step, TypeOK, Goroutines, PCs,
       sessionVars, callVars, streamVars, chanVars, peerVars
  <2>3. CASE IdleEnds
    <3>1. pc' \in [Goroutines -> PCs]
      BY <2>3, StepType DEF IdleEnds, Goroutines, PCs
    <3>2. state' \in States
      BY <2>3, TransitionType DEF IdleEnds, States
    <3>3. QED
      BY <2>3, <3>1, <3>2 DEF IdleEnds, TypeOK, callVars, streamVars, chanVars, peerVars
  <2>4. QED
    BY <1>5, <2>1, <2>2, <2>3 DEF Idle
<1>6. CASE Peers
  <2>1. CASE EngineSpeaks
    BY <2>1, GatewayAssumption DEF EngineSpeaks, Stream!Speak, Step, TypeOK, Goroutines, PCs,
       sessionVars, callVars, chanVars, peerVars
  <2>2. CASE EngineClassifies
    BY <2>2, GatewayAssumption DEF EngineClassifies, Stream!Classify, Step, TypeOK, Goroutines, PCs,
       sessionVars, callVars, chanVars, peerVars
  <2>3. CASE EngineEnds
    BY <2>3, GatewayAssumption DEF EngineEnds, Stream!End, Step, TypeOK, Goroutines, PCs,
       sessionVars, callVars, chanVars, peerVars
  <2>4. CASE EngineFails
    BY <2>4, GatewayAssumption DEF EngineFails, Stream!Fail, Step, TypeOK, Goroutines, PCs,
       sessionVars, callVars, chanVars, peerVars
  <2>5. CASE HangUp
    BY <2>5, GatewayAssumption DEF HangUp, Step, TypeOK, Goroutines, PCs, sessionVars,
       callVars, streamVars, chanVars
  <2>6. CASE EndsCall
    BY <2>6, GatewayAssumption DEF EndsCall, Step, TypeOK, Goroutines, PCs, sessionVars,
       callVars, streamVars, chanVars
  <2>7. CASE CallerReads
    BY <2>7, GatewayAssumption DEF CallerReads, Step, TypeOK, Goroutines, PCs,
       sessionVars, callVars, streamVars, chanVars, peerVars
  <2>8. QED
    BY <1>6, <2>1, <2>2, <2>3, <2>4, <2>5, <2>6, <2>7 DEF Peers
<1>7. CASE UNCHANGED vars
  BY <1>7 DEF TypeOK, vars, sessionVars, callVars, streamVars, chanVars, peerVars
<1>8. QED
  BY <1>1, <1>2, <1>3, <1>4, <1>5, <1>6, <1>7 DEF Next

\* The variables of a call, and the goroutines that use them, stay typed.
THEOREM CallTypeCorrect == Spec => []TypeOK
BY InitType, NextType, PTL DEF Spec

(***************************************************************************)
(* The inductive invariant.                                                *)
(***************************************************************************)
\* An event of the engine that readPump has not received.
Queued(event) == \E i \in 1 .. Len(toGateway) : toGateway[i] = event

\* Before START_SESSION there is nothing but the handler.
StartInv ==
  pc["main"] \in {"resolve", "start"} =>
    /\ \A g \in Goroutines \ {"main"} : pc[g] = "none"
    /\ inboundErr = 0 /\ ~ armed /\ ~ relayExited /\ ~ halfClosed
    /\ state = "CREATED"

\* A message in inboundErr proves that the relay is over, and only that proof
\* lets the handler half-close.
RelayInv ==
  /\ inboundErr = 1 \/ relayExited => pc["inbound"] = "exited"
  /\ pc["main"] = "half_close" \/ halfClosed => relayExited
  /\ halfClosed => pc["main"] \in {"await", "read", "cancel", "drain", "report", "exited"}

\* An outcome is stored before a reader can be woken for it; after DoneChan is
\* closed readPump stores nothing.
OutcomeInv ==
  /\ "OutcomeChan" \in closed \/ pc["readPump"] = "announce" => outcome = "verdict"
  /\ "DoneChan" \in closed => pc["readPump"] \in {"close", "exited"}

\* Where the handler is, against what it has seen.
HandlerInv ==
  /\ result # None => pc["main"] \in {"cancel", "drain", "report", "exited"}
  /\ pc["main"] = "read" /\ ~ gaveUp => closed \cap {"OutcomeChan", "DoneChan"} # {}
  /\ result = "fallback" /\ ~ gaveUp =>
       HalfCloseFailed \/ (outcome = None /\ "DoneChan" \in closed)
  /\ pc["main"] = "outcome" /\ ~ relayExited => "DoneChan" \in closed

\* Until the handler cancels the stream, it ends for readPump only when the
\* engine is done with it.
EngineInv ==
  /\ Queued("eof") \/ Queued("error") => Over
  /\ pc["readPump"] \in {"stop", "done", "close", "exited"} => Over \/ cancelled
  /\ cancelled => pc["main"] \in {"drain", "report", "exited"}
  /\ pc["main"] = "cancel" /\ ~ gaveUp => outcome # None \/ Over

CallInv == StartInv /\ RelayInv /\ OutcomeInv /\ HandlerInv /\ EngineInv /\ EngineOutlivesCaller

LEMMA InitCall == Init => CallInv
BY GatewayAssumption
DEF Init, CallInv, StartInv, RelayInv, OutcomeInv, HandlerInv, EngineInv,
    EngineOutlivesCaller, Over, HalfCloseFailed, Queued, Goroutines

(***************************************************************************)
(* Where the events that end a stream come from.                           *)
(***************************************************************************)
Endings == {"outcome", "eof", "error"}

\* The engine is where it is once it has sent this event.
Sent(event) ==
  \/ event = "outcome" /\ engine' = "classified"
  \/ event = "eof" /\ engine' = "finished"
  \/ event = "error" /\ engine' = "failed"

\* An event of the queue after a step was there before, or was sent by it.
Arrived == \A event \in Endings : Queued(event)' => Queued(event) \/ Sent(event)

LEMMA Shifted ==
  ASSUME TypeOK, toGateway # <<>>, toGateway' = Tail(toGateway) PROVE Arrived
<1>1. \A i \in 1 .. Len(toGateway') :
        i + 1 \in 1 .. Len(toGateway) /\ toGateway'[i] = toGateway[i + 1]
  BY DEF TypeOK
<1>2. QED
  BY <1>1 DEF Arrived, Queued

LEMMA Appended ==
  ASSUME TypeOK, NEW event \in {"audio"} \cup Endings, event = "audio" \/ Sent(event),
         NEW n \in 0 .. Len(toGateway),
         toGateway' = Append(SubSeq(toGateway, 1, n), event)
  PROVE  Arrived
<1>1. SubSeq(toGateway, 1, n) \in Seq({"audio"} \cup Endings)
      /\ Len(SubSeq(toGateway, 1, n)) = n
      /\ \A i \in 1 .. n : SubSeq(toGateway, 1, n)[i] = toGateway[i]
  BY DEF TypeOK, Endings
<1>2. \A i \in 1 .. Len(toGateway') :
        toGateway'[i] = event \/ (i \in 1 .. Len(toGateway) /\ toGateway'[i] = toGateway[i])
  BY <1>1 DEF TypeOK
<1>3. QED
  BY <1>2 DEF Arrived, Queued, Endings

LEMMA Received ==
  ASSUME TypeOK, NEW event, NEW to, Recv(event, to) PROVE Arrived /\ Queued(event)
<1>1. toGateway # <<>> /\ toGateway' = Tail(toGateway) /\ Head(toGateway) = event
  BY DEF Recv
<1>2. Queued(event)
  BY <1>1 DEF Queued, TypeOK
<1>3. QED
  BY <1>1, <1>2, Shifted

LEMMA Arrivals == TypeOK /\ [Next]_vars => Arrived
<1>. SUFFICES ASSUME TypeOK, [Next]_vars PROVE Arrived
  OBVIOUS
<1>1. CASE toGateway' = toGateway
  BY <1>1 DEF Arrived, Queued
<1>2. CASE RecvOutcome \/ RecvAudio \/ RecvEOF
  BY <1>2, Received DEF RecvOutcome, RecvAudio, RecvEOF
<1>3. ASSUME NEW event \in {"audio"} \cup Endings, event = "audio" \/ Sent(event),
             toGateway' = Append(toGateway, event)
      PROVE  Arrived
  <2>1. SubSeq(toGateway, 1, Len(toGateway)) = toGateway
    BY DEF TypeOK
  <2>2. Len(toGateway) \in 0 .. Len(toGateway)
    BY DEF TypeOK
  <2>3. QED
    BY <1>3, <2>1, <2>2, Appended
<1>4. CASE EngineSpeaks \/ EngineClassifies \/ EngineEnds
  BY <1>3, <1>4 DEF EngineSpeaks, EngineClassifies, EngineEnds, Stream!Classify, Stream!End,
     Endings, Sent
<1>5. CASE EngineFails
  <2>1. Sent("error")
    BY <1>5 DEF EngineFails, Stream!Fail, Sent
  <2>2. QED
    BY <1>5, <2>1, Appended DEF EngineFails, Endings
<1>6. CASE Main
  BY <1>1, <1>6 DEF Main, ResolveProfile, StartSession, Select, FirstLook,
     SignalInputComplete, Await, SecondLook, CancelAgent, AwaitOutbound, EndSession,
     streamVars
<1>7. CASE Inbound
  BY <1>1, <1>7 DEF Inbound, InboundRecv, SendAudioReturns, Publish, streamVars
<1>8. CASE Outbound
  BY <1>1, <1>8 DEF Outbound, NextChunk, OutboundFails, streamVars
<1>9. CASE ReadPump
  BY <1>1, <1>2, <1>9 DEF ReadPump, RecvError, StoreOutcome, AnnounceOutcome, Respond,
     ResetIdle, Put, StopIdle, SignalDone, CloseAudio, streamVars
<1>10. CASE Idle
  BY <1>1, <1>10 DEF Idle, IdleFires, IdleLooks, IdleEnds, streamVars
<1>11. CASE Peers
  BY <1>1, <1>4, <1>5, <1>11 DEF Peers, HangUp, EndsCall, CallerReads, streamVars
<1>12. QED
  BY <1>1, <1>6, <1>7, <1>8, <1>9, <1>10, <1>11 DEF Next, vars, streamVars

(***************************************************************************)
(* CallInv is inductive.                                                   *)
(***************************************************************************)
LEMMA NextCall == TypeOK /\ CallInv /\ [Next]_vars => CallInv'
<1>. SUFFICES ASSUME TypeOK, CallInv, [Next]_vars PROVE CallInv'
  OBVIOUS
<1>0. Arrived
  BY Arrivals
<1>. USE GatewayAssumption DEF CallInv, StartInv, RelayInv, OutcomeInv, HandlerInv,
         EngineInv, EngineOutlivesCaller, HalfCloseFailed, Over, TypeOK, Step, Goroutines
<1>1. CASE Main
  <2>1. CASE ResolveProfile
    BY <1>0, <2>1 DEF ResolveProfile, Arrived, Endings, Sent, sessionVars, streamVars,
       chanVars, peerVars
  <2>2. CASE StartSession
    BY <1>0, <2>2 DEF StartSession, Arrived, Endings, Sent, callVars, chanVars, peerVars
  <2>3. CASE Select
    BY <1>0, <2>3 DEF Select, Arrived, Endings, Sent, sessionVars, streamVars, peerVars
  <2>4. CASE FirstLook
    BY <1>0, <2>4 DEF FirstLook, MayHalfClose, Collect, Arrived, Endings, Sent,
       sessionVars, streamVars, chanVars, peerVars
  <2>5. CASE SignalInputComplete
    <3>1. CASE pc' = [pc EXCEPT !["main"] = "await"] /\ halfClosed' /\ result' = result
      BY <1>0, <2>5, <3>1 DEF SignalInputComplete, Arrived, Endings, Sent,
         sessionVars, chanVars, peerVars
    <3>2. CASE engine = "failed" /\ Collect("fallback") /\ halfClosed' = halfClosed
      BY <1>0, <2>5, <3>2 DEF SignalInputComplete, Collect, Arrived, Endings, Sent,
         sessionVars, chanVars, peerVars
    <3>3. QED
      BY <2>5, <3>1, <3>2, Zenon DEF SignalInputComplete
  <2>6. CASE Await
    BY <1>0, <2>6 DEF Await, Arrived, Endings, Sent, sessionVars, streamVars, chanVars,
       peerVars
  <2>7. CASE SecondLook
    BY <1>0, <2>7 DEF SecondLook, Collect, Arrived, Endings, Sent, sessionVars,
       streamVars, chanVars, peerVars
  <2>8. CASE CancelAgent
    BY <1>0, <2>8 DEF CancelAgent, Arrived, Endings, Sent, sessionVars, callVars,
       chanVars, peerVars
  <2>9. CASE AwaitOutbound
    BY <1>0, <2>9 DEF AwaitOutbound, Arrived, Endings, Sent, sessionVars, callVars,
       streamVars, chanVars, peerVars
  <2>10. CASE EndSession
    BY <1>0, <2>10 DEF EndSession, Arrived, Endings, Sent, sessionVars, streamVars,
       chanVars, peerVars
  <2>11. QED
    BY <1>1, <2>1, <2>2, <2>3, <2>4, <2>5, <2>6, <2>7, <2>8, <2>9, <2>10 DEF Main
<1>2. CASE Inbound
  <2>1. CASE InboundRecv
    BY <1>0, <2>1 DEF InboundRecv, Arrived, Endings, Sent, sessionVars, callVars,
       streamVars, chanVars
  <2>2. CASE SendAudioReturns
    BY <1>0, <2>2 DEF SendAudioReturns, Arrived, Endings, Sent, sessionVars, callVars,
       streamVars, chanVars, peerVars
  <2>3. CASE Publish
    BY <1>0, <2>3 DEF Publish, Arrived, Endings, Sent, sessionVars, callVars,
       streamVars, peerVars
  <2>4. QED
    BY <1>2, <2>1, <2>2, <2>3 DEF Inbound
<1>3. CASE Outbound
  <2>1. CASE NextChunk
    BY <1>0, <2>1 DEF NextChunk, Arrived, Endings, Sent, sessionVars, callVars,
       streamVars, peerVars
  <2>2. CASE OutboundFails
    BY <1>0, <2>2 DEF OutboundFails, Arrived, Endings, Sent, sessionVars, streamVars,
       chanVars, peerVars
  <2>3. QED
    BY <1>3, <2>1, <2>2 DEF Outbound
<1>4. CASE ReadPump
  <2>1. CASE RecvOutcome
    <3>1. Queued("outcome")
      BY <2>1, Received DEF RecvOutcome
    <3>2. QED
      BY <1>0, <2>1, <3>1 DEF RecvOutcome, Recv, Arrived, Endings, Sent, sessionVars,
         callVars, chanVars, peerVars
  <2>2. CASE RecvAudio
    BY <1>0, <2>2 DEF RecvAudio, Recv, Arrived, Endings, Sent, sessionVars, callVars,
       chanVars, peerVars
  <2>3. CASE RecvEOF
    <3>1. Queued("eof")
      BY <2>3, Received DEF RecvEOF
    <3>2. QED
      BY <1>0, <2>3, <3>1 DEF RecvEOF, Recv, transitionTo, Legal, validTransitions,
         Arrived, Endings, Sent, callVars, chanVars, peerVars
  <2>4. CASE RecvError
    <3>1. cancelled \/ Queued("error")
      BY <2>4 DEF RecvError, Queued
    <3>2. QED
      BY <1>0, <2>4, <3>1 DEF RecvError, Arrived, Endings, Sent, sessionVars, callVars,
         streamVars, chanVars, peerVars
  <2>5. CASE StoreOutcome
    BY <1>0, <2>5 DEF StoreOutcome, Arrived, Endings, Sent, callVars, streamVars,
       chanVars, peerVars
  <2>6. CASE AnnounceOutcome
    BY <1>0, <2>6 DEF AnnounceOutcome, Arrived, Endings, Sent, sessionVars, callVars,
       streamVars, peerVars
  <2>7. CASE Respond
    BY <1>0, <2>7 DEF Respond, transitionTo, Legal, validTransitions, Arrived, Endings,
       Sent, callVars, streamVars, chanVars, peerVars
  <2>8. CASE ResetIdle
    BY <1>0, <2>8 DEF ResetIdle, Arrived, Endings, Sent, callVars, streamVars, chanVars,
       peerVars
  <2>9. CASE Put
    BY <1>0, <2>9 DEF Put, Arrived, Endings, Sent, sessionVars, callVars, streamVars,
       peerVars
  <2>10. CASE StopIdle
    BY <1>0, <2>10 DEF StopIdle, Arrived, Endings, Sent, callVars, streamVars, chanVars,
       peerVars
  <2>11. CASE SignalDone
    BY <1>0, <2>11 DEF SignalDone, Arrived, Endings, Sent, sessionVars, callVars,
       streamVars, peerVars
  <2>12. CASE CloseAudio
    BY <1>0, <2>12 DEF CloseAudio, Arrived, Endings, Sent, sessionVars, callVars,
       streamVars, peerVars
  <2>13. QED
    BY <1>4, <2>1, <2>2, <2>3, <2>4, <2>5, <2>6, <2>7, <2>8, <2>9, <2>10, <2>11, <2>12 DEF ReadPump
<1>5. CASE Idle
  <2>1. CASE IdleFires
    BY <1>0, <2>1 DEF IdleFires, Arrived, Endings, Sent, callVars, streamVars, chanVars,
       peerVars
  <2>2. CASE IdleLooks
    BY <1>0, <2>2 DEF IdleLooks, Arrived, Endings, Sent, sessionVars, callVars,
       streamVars, chanVars, peerVars
  <2>3. CASE IdleEnds
    BY <1>0, <2>3 DEF IdleEnds, transitionTo, Legal, validTransitions, Arrived, Endings,
       Sent, callVars, streamVars, chanVars, peerVars
  <2>4. QED
    BY <1>5, <2>1, <2>2, <2>3 DEF Idle
<1>6. CASE Peers
  <2>1. CASE EngineSpeaks
    BY <1>0, <2>1 DEF EngineSpeaks, Stream!Speak, Arrived, Endings, Sent, sessionVars, callVars,
       chanVars, peerVars
  <2>2. CASE EngineClassifies
    BY <1>0, <2>2 DEF EngineClassifies, Stream!Classify, Arrived, Endings, Sent, sessionVars, callVars,
       chanVars, peerVars
  <2>3. CASE EngineEnds
    BY <1>0, <2>3 DEF EngineEnds, Stream!End, Arrived, Endings, Sent, sessionVars, callVars,
       chanVars, peerVars
  <2>4. CASE EngineFails
    BY <1>0, <2>4 DEF EngineFails, Stream!Fail, Arrived, Endings, Sent, sessionVars, callVars,
       chanVars, peerVars
  <2>5. CASE HangUp
    BY <1>0, <2>5 DEF HangUp, Arrived, Endings, Sent, sessionVars, callVars, streamVars,
       chanVars
  <2>6. CASE EndsCall
    BY <1>0, <2>6 DEF EndsCall, Arrived, Endings, Sent, sessionVars, callVars,
       streamVars, chanVars
  <2>7. CASE CallerReads
    BY <1>0, <2>7 DEF CallerReads, Arrived, Endings, Sent, sessionVars, callVars,
       streamVars, chanVars, peerVars
  <2>8. QED
    BY <1>6, <2>1, <2>2, <2>3, <2>4, <2>5, <2>6, <2>7 DEF Peers
<1>7. CASE UNCHANGED vars
  BY <1>0, <1>7 DEF Queued, vars, sessionVars, callVars, streamVars, chanVars, peerVars
<1>8. QED
  BY <1>1, <1>2, <1>3, <1>4, <1>5, <1>6, <1>7 DEF Next

LEMMA CallInvariant == Spec => [](TypeOK /\ CallInv)
BY InitType, NextType, InitCall, NextCall, PTL DEF Spec

(***************************************************************************)
(* Theorems.                                                               *)
(***************************************************************************)
\* collectOutcome half-closes the engine's stream only when the relay, the only
\* other sender on it, has returned from its last SendAudio.
THEOREM OneSender == Spec => []SingleSender
<1>1. CallInv => SingleSender
  BY DEF CallInv, RelayInv, SingleSender
<1>2. QED
  BY <1>1, CallInvariant, PTL

\* However the handler is woken, a verdict stored before it gave up is the one it
\* collects.
THEOREM StoredVerdictCollected == Spec => []VerdictCollected
<1>1. CallInv => VerdictCollected
  BY DEF CallInv, OutcomeInv, HandlerInv, VerdictCollected
<1>2. QED
  BY <1>1, CallInvariant, PTL

\* A caller who hangs up does not take the engine's stream down with them.
THEOREM HangUpSparesEngine == Spec => []EngineOutlivesCaller
<1>1. CallInv => EngineOutlivesCaller
  BY DEF CallInv
<1>2. QED
  BY <1>1, CallInvariant, PTL

\* A transition out of TERMINATED is not in the table.
LEMMA NothingRevives ==
  ASSUME state = "TERMINATED", NEW next, transitionTo(next) PROVE state' = "TERMINATED"
BY DEF transitionTo, Legal, validTransitions

LEMMA StateSteps ==
  ASSUME [Next]_vars PROVE state' = state \/ StartSession \/ \E next \in States : transitionTo(next)
<1>1. CASE Main
  BY <1>1 DEF Main, ResolveProfile, Select, FirstLook, SignalInputComplete, Await,
     SecondLook, CancelAgent, AwaitOutbound, EndSession, sessionVars
<1>2. CASE Inbound
  BY <1>2 DEF Inbound, InboundRecv, SendAudioReturns, Publish, sessionVars
<1>3. CASE Outbound
  BY <1>3 DEF Outbound, NextChunk, OutboundFails, sessionVars
<1>4. CASE ReadPump
  BY <1>4 DEF ReadPump, RecvOutcome, RecvAudio, RecvEOF, RecvError, StoreOutcome,
     AnnounceOutcome, Respond, ResetIdle, Put, StopIdle, SignalDone, CloseAudio, States,
     sessionVars
<1>5. CASE Idle
  BY <1>5 DEF Idle, IdleFires, IdleLooks, IdleEnds, States, sessionVars
<1>6. CASE Peers
  BY <1>6 DEF Peers, EngineSpeaks, EngineClassifies, EngineEnds, EngineFails, HangUp,
     EndsCall, CallerReads, sessionVars
<1>7. QED
  BY <1>1, <1>2, <1>3, <1>4, <1>5, <1>6 DEF Next, vars, sessionVars

\* No late timer and no late event moves a session out of TERMINATED.
THEOREM TerminatedForGood == Spec => TerminatedIsFinal
<1>1. TypeOK /\ CallInv /\ [Next]_vars => (state = "TERMINATED" => state' = "TERMINATED")
  <2>. SUFFICES ASSUME TypeOK, CallInv, [Next]_vars, state = "TERMINATED"
       PROVE state' = "TERMINATED"
    OBVIOUS
  <2>1. ~ StartSession
    BY DEF CallInv, StartInv, StartSession
  <2>2. QED
    BY <2>1, StateSteps, NothingRevives
<1>2. QED
  BY <1>1, CallInvariant, PTL DEF Spec, TerminatedIsFinal

(***************************************************************************)
(* Teardown: who can run.                                                  *)
(***************************************************************************)
Workers == {"inbound", "outbound", "readPump"}

\* Where each goroutine may be while it runs.
Points ==
  [main     |-> {"resolve", "start", "select", "outcome", "half_close", "await", "read",
                 "cancel", "drain", "report"},
   inbound  |-> {"recv", "sending", "publish"},
   outbound |-> {"range", "sending"},
   readPump |-> {"recv", "store", "announce", "respond", "arm", "put", "stop", "done",
                 "close"}]

\* The goroutine can go on: it runs, and the guards of its actions hold at the points
\* where it may block.
Able(g) ==
  /\ pc[g] \in Points[g]
  /\ g = "main" =>
       /\ pc[g] = "select" => "DoneChan" \in closed \/ inboundErr = 1
       /\ pc[g] = "drain" => "outboundDone" \in closed
  /\ g = "inbound" =>
       /\ pc[g] = "recv" => caller # "up" \/ heard < MaxHeard \/ pc["main"] = "exited"
       /\ pc[g] = "sending" => ~ UnderFlowControl
       /\ pc[g] = "publish" => inboundErr < 1
  /\ g = "outbound" =>
       /\ pc[g] = "range" => audioChan # <<>> \/ "AgentAudioChan" \in closed
       /\ pc[g] = "sending" => caller = "gone"
  /\ g = "readPump" =>
       /\ pc[g] = "recv" => toGateway # <<>> \/ cancelled
       /\ pc[g] = "put" => Len(audioChan) < ChanCap

\* Once the caller is gone the call is torn down, or held by flow control alone, or some
\* goroutine of it can go on: they never all wait for one another.
NeverStuck ==
  caller = "gone" =>
    Gone \/ UnderFlowControl \/ \E g \in Workers \cup {"main"} : Able(g)

\* What a wait of the teardown waits for is there, or its sender is not over.
WorkersInv ==
  /\ pc["main"] \notin {"resolve", "start"} =>
       \/ \A g \in Workers : pc[g] # "none"
       \/ pc["main"] = "exited" /\ \A g \in Workers : pc[g] = "none"
  /\ pc["main"] # "none"
  /\ pc["inbound"] = "exited" => inboundErr = 1 \/ relayExited
  /\ pc["outbound"] = "exited" <=> "outboundDone" \in closed
  /\ pc["readPump"] = "exited" <=> "AgentAudioChan" \in closed

\* What the handler and the outbound relay have waited for.
WaitsInv ==
  /\ pc["main"] = "select" => ~ relayExited
  /\ pc["main"] = "drain" => cancelled
  /\ pc["main"] \in {"report", "exited"} => pc["outbound"] \in {"none", "exited"}
  /\ "outboundDone" \in closed => "AgentAudioChan" \in closed

PointsInv ==
  \A g \in Workers \cup {"main"} : pc[g] \in Points[g] \cup {"none", "exited"}

TeardownInv == PointsInv /\ WorkersInv /\ WaitsInv

LEMMA InitTeardown == Init => TeardownInv
BY DEF Init, TeardownInv, PointsInv, Points, WorkersInv, WaitsInv, Workers, Goroutines

LEMMA NextTeardown == TypeOK /\ CallInv /\ TeardownInv /\ [Next]_vars => TeardownInv'
<1>. SUFFICES ASSUME TypeOK, CallInv, TeardownInv, [Next]_vars PROVE TeardownInv'
  OBVIOUS
<1>0. StartInv /\ RelayInv
  BY DEF CallInv
<1>. USE <1>0 DEF TeardownInv, PointsInv, Points, WorkersInv, WaitsInv, Workers, Goroutines,
     Step, TypeOK
<1>1. CASE Main
  <2>1. CASE ResolveProfile
    BY <2>1 DEF ResolveProfile, StartInv, sessionVars, streamVars, chanVars, peerVars
  <2>2. CASE StartSession
    BY <2>2 DEF StartSession, StartInv, callVars, chanVars, peerVars
  <2>3. CASE Select
    BY <2>3 DEF Select, RelayInv, sessionVars, streamVars, peerVars
  <2>4. CASE FirstLook
    BY <2>4 DEF FirstLook, MayHalfClose, Collect, sessionVars, streamVars, chanVars,
       peerVars
  <2>5. CASE SignalInputComplete
    BY <2>5 DEF SignalInputComplete, Collect, sessionVars, chanVars, peerVars
  <2>6. CASE Await
    BY <2>6 DEF Await, sessionVars, streamVars, chanVars, peerVars
  <2>7. CASE SecondLook
    BY <2>7 DEF SecondLook, Collect, sessionVars, streamVars, chanVars, peerVars
  <2>8. CASE CancelAgent
    BY <2>8 DEF CancelAgent, sessionVars, callVars, chanVars, peerVars
  <2>9. CASE AwaitOutbound
    BY <2>9 DEF AwaitOutbound, sessionVars, callVars, streamVars, chanVars, peerVars
  <2>10. CASE EndSession
    BY <2>10 DEF EndSession, sessionVars, streamVars, chanVars, peerVars
  <2>11. QED
    BY <1>1, <2>1, <2>2, <2>3, <2>4, <2>5, <2>6, <2>7, <2>8, <2>9, <2>10 DEF Main
<1>2. CASE Inbound
  <2>1. CASE InboundRecv
    BY <2>1 DEF InboundRecv, sessionVars, callVars, streamVars, chanVars
  <2>2. CASE SendAudioReturns
    BY <2>2 DEF SendAudioReturns, sessionVars, callVars, streamVars, chanVars, peerVars
  <2>3. CASE Publish
    BY <2>3 DEF Publish, RelayInv, sessionVars, callVars, streamVars, peerVars
  <2>4. QED
    BY <1>2, <2>1, <2>2, <2>3 DEF Inbound
<1>3. CASE Outbound
  <2>1. CASE NextChunk
    BY <2>1 DEF NextChunk, sessionVars, callVars, streamVars, peerVars
  <2>2. CASE OutboundFails
    BY <2>2 DEF OutboundFails, sessionVars, streamVars, chanVars, peerVars
  <2>3. QED
    BY <1>3, <2>1, <2>2 DEF Outbound
<1>4. CASE ReadPump
  <2>1. CASE RecvOutcome
    BY <2>1 DEF RecvOutcome, Recv, sessionVars, callVars, chanVars, peerVars
  <2>2. CASE RecvAudio
    BY <2>2 DEF RecvAudio, Recv, sessionVars, callVars, chanVars, peerVars
  <2>3. CASE RecvEOF
    BY <2>3 DEF RecvEOF, Recv, callVars, chanVars, peerVars
  <2>4. CASE RecvError
    BY <2>4 DEF RecvError, sessionVars, callVars, streamVars, chanVars, peerVars
  <2>5. CASE StoreOutcome
    BY <2>5 DEF StoreOutcome, callVars, streamVars, chanVars, peerVars
  <2>6. CASE AnnounceOutcome
    BY <2>6 DEF AnnounceOutcome, sessionVars, callVars, streamVars, peerVars
  <2>7. CASE Respond
    BY <2>7 DEF Respond, callVars, streamVars, chanVars, peerVars
  <2>8. CASE ResetIdle
    BY <2>8 DEF ResetIdle, callVars, streamVars, chanVars, peerVars
  <2>9. CASE Put
    BY <2>9 DEF Put, sessionVars, callVars, streamVars, peerVars
  <2>10. CASE StopIdle
    BY <2>10 DEF StopIdle, callVars, streamVars, chanVars, peerVars
  <2>11. CASE SignalDone
    BY <2>11 DEF SignalDone, sessionVars, callVars, streamVars, peerVars
  <2>12. CASE CloseAudio
    BY <2>12 DEF CloseAudio, sessionVars, callVars, streamVars, peerVars
  <2>13. QED
    BY <1>4, <2>1, <2>2, <2>3, <2>4, <2>5, <2>6, <2>7, <2>8, <2>9, <2>10, <2>11, <2>12 DEF ReadPump
<1>5. CASE Idle
  <2>1. CASE IdleFires
    BY <2>1 DEF IdleFires, callVars, streamVars, chanVars, peerVars
  <2>2. CASE IdleLooks
    BY <2>2 DEF IdleLooks, sessionVars, callVars, streamVars, chanVars, peerVars
  <2>3. CASE IdleEnds
    BY <2>3 DEF IdleEnds, callVars, streamVars, chanVars, peerVars
  <2>4. QED
    BY <1>5, <2>1, <2>2, <2>3 DEF Idle
<1>6. CASE Peers
  <2>1. CASE EngineSpeaks
    BY <2>1 DEF EngineSpeaks, Stream!Speak, sessionVars, callVars, chanVars, peerVars
  <2>2. CASE EngineClassifies
    BY <2>2 DEF EngineClassifies, Stream!Classify, sessionVars, callVars, chanVars,
       peerVars
  <2>3. CASE EngineEnds
    BY <2>3 DEF EngineEnds, Stream!End, sessionVars, callVars, chanVars, peerVars
  <2>4. CASE EngineFails
    BY <2>4 DEF EngineFails, Stream!Fail, sessionVars, callVars, chanVars, peerVars
  <2>5. CASE HangUp
    BY <2>5 DEF HangUp, sessionVars, callVars, streamVars, chanVars
  <2>6. CASE EndsCall
    BY <2>6 DEF EndsCall, sessionVars, callVars, streamVars, chanVars
  <2>7. CASE CallerReads
    BY <2>7 DEF CallerReads, sessionVars, callVars, streamVars, chanVars, peerVars
  <2>8. QED
    BY <1>6, <2>1, <2>2, <2>3, <2>4, <2>5, <2>6, <2>7 DEF Peers
<1>7. CASE UNCHANGED vars
  BY <1>7 DEF vars, sessionVars, callVars, streamVars, chanVars, peerVars
<1>8. QED
  BY <1>1, <1>2, <1>3, <1>4, <1>5, <1>6, <1>7 DEF Next

\* A worker waits for the caller, for a channel, or for the engine.
LEMMA WorkersGo ==
  ASSUME TypeOK, CallInv, TeardownInv, caller = "gone", ~ UnderFlowControl,
         \A g \in Workers : ~ Able(g)
  PROVE  /\ pc["inbound"] \in {"none", "exited"}
         /\ pc["main"] = "exited" => Gone
         /\ cancelled => pc["outbound"] \in {"none", "exited"}
<1>1. pc["inbound"] \in {"none", "exited"}
  <2>1. pc["inbound"] # "exited" => inboundErr < 1
    BY DEF CallInv, RelayInv, TypeOK
  <2>2. QED
    BY <2>1 DEF Able, Workers, TeardownInv, PointsInv, Points
<1>2. \/ pc["outbound"] \in {"none", "exited"}
      \/ audioChan = <<>> /\ pc["readPump"] # "exited"
  BY DEF Able, Workers, TeardownInv, WorkersInv, PointsInv, Points
<1>3. cancelled => pc["outbound"] \in {"none", "exited"}
  <2>. SUFFICES ASSUME cancelled, audioChan = <<>>, pc["readPump"] # "exited",
                       pc["outbound"] \notin {"none", "exited"}
               PROVE  FALSE
    BY <1>2
  <2>1. Len(audioChan) < ChanCap
    BY GatewayAssumption
  <2>2. pc["readPump"] # "none"
    BY DEF CallInv, StartInv, TeardownInv, WorkersInv, Workers, Goroutines
  <2>3. QED
    BY <2>1, <2>2 DEF Able, Workers, TeardownInv, PointsInv, Points
<1>4. pc["main"] = "exited" => Gone
  BY <1>1 DEF Gone, Goroutines, TeardownInv, WorkersInv, WaitsInv, Workers
<1>5. QED
  BY <1>1, <1>3, <1>4

LEMMA TeardownNeverStuck ==
  ASSUME TypeOK, CallInv, TeardownInv
  PROVE  NeverStuck
<1>. SUFFICES ASSUME caller = "gone", ~ UnderFlowControl, ~ Gone,
                     \A g \in Workers : ~ Able(g), ~ Able("main")
              PROVE  FALSE
  BY DEF NeverStuck
<1>1. /\ pc["inbound"] \in {"none", "exited"}
      /\ cancelled => pc["outbound"] \in {"none", "exited"}
  BY WorkersGo
<1>2. CASE pc["main"] = "select"
  <2>1. pc["inbound"] = "exited" /\ ~ relayExited
    BY <1>1, <1>2 DEF TeardownInv, WorkersInv, WaitsInv, Workers
  <2>2. QED
    BY <1>2, <2>1 DEF Able, TeardownInv, WorkersInv, PointsInv, Points
<1>3. CASE pc["main"] = "drain"
  <2>1. pc["outbound"] = "exited"
    BY <1>1, <1>3 DEF TeardownInv, WorkersInv, WaitsInv, Workers
  <2>2. QED
    BY <1>3, <2>1 DEF Able, TeardownInv, WorkersInv, PointsInv, Points
<1>4. CASE pc["main"] = "exited"
  BY <1>4, WorkersGo
<1>5. QED
  BY <1>2, <1>3, <1>4 DEF Able, TeardownInv, WorkersInv, PointsInv, Points

\* The safety behind TornDown, for every capacity of AgentAudioChan: a full channel, a
\* half-finished read of the engine's stream and a handler that waits for both relays
\* never close a circle.
THEOREM TeardownHasNoCircle == Spec => []NeverStuck
BY InitTeardown, NextTeardown, CallInvariant, TeardownNeverStuck, PTL DEF Spec
=============================================================================
