----------------------------- MODULE GatewayCall -----------------------------
(***************************************************************************)
(* One call through the gateway: the StreamAudio handler, the two relay    *)
(* goroutines it starts, the session's readPump and its idle timer.        *)
(*                                                                         *)
(* pc says where each goroutine is.  A step is what runs between two points*)
(* where another goroutine can get in: a channel operation, a lock taken,  *)
(* a call on one of the two gRPC streams.  The caller and the inference    *)
(* engine are only what the gateway sees of them.                          *)
(***************************************************************************)
EXTENDS Naturals, Sequences

CONSTANTS
  ChanCap,    \* capacity of AgentAudioChan (100 in the code)
  MaxHeard,   \* chunks the caller speaks (a bound)
  MaxSpoken,  \* chunks the engine speaks (a bound)
  None        \* no outcome yet

ASSUME GatewayAssumption ==
  /\ ChanCap \in Nat \ {0} /\ MaxHeard \in Nat /\ MaxSpoken \in Nat
  /\ None \notin {"verdict", "fallback"}

VARIABLES
  pc,          \* where each goroutine is
  state,       \* Session.State
  armed,       \* the responseIdle timer is running
  outcome,     \* Session.outcome
  audioChan,   \* AgentAudioChan, as a sequence of chunks
  inboundErr,  \* messages in the channel inboundErr, of capacity 1
  closed,      \* the channels closed so far
  assigned,    \* recoveryAssigned
  relayExited, \* inboundRelayExited
  sendFailed,  \* the outbound relay discards what is left
  gaveUp,      \* outcomeTimeout has passed
  result,      \* what collectOutcome returned
  report,      \* what the recovery orchestrator was told
  halfClosed,  \* CloseSend was called on the engine's stream
  cancelled,   \* cancelAgent was called
  toGateway,   \* events of the engine not received yet
  engine,      \* the engine's end of the stream
  spoken,      \* chunks the engine has sent
  caller,      \* the caller's end of its stream
  heard        \* chunks the caller has sent

sessionVars == <<state, armed, outcome>>
callVars == <<assigned, relayExited, sendFailed, gaveUp, result, report>>
streamVars == <<halfClosed, cancelled, toGateway, engine, spoken>>
chanVars == <<audioChan, inboundErr, closed>>
peerVars == <<caller, heard>>
vars == <<pc, sessionVars, callVars, streamVars, chanVars, peerVars>>

Goroutines == {"main", "inbound", "outbound", "readPump", "idle"}

PCs ==
  {"none", "exited"}                                                 \* any goroutine
  \cup {"resolve", "start", "select", "outcome", "half_close", "await",
        "read", "cancel", "drain", "report"}                         \* StreamAudio
  \cup {"recv", "sending", "publish", "range"}                       \* the relays
  \cup {"store", "announce", "respond", "arm", "put", "stop", "done", "close"}
  \cup {"fired", "responding"}                                       \* idle timer

States == {"CREATED", "CONNECTING", "ACTIVE", "PROCESSING", "RESPONDING", "TERMINATED"}

validTransitions ==
  [CREATED    |-> {"CONNECTING"},
   CONNECTING |-> {"ACTIVE"},
   ACTIVE     |-> {"PROCESSING", "RESPONDING", "TERMINATED"},
   PROCESSING |-> {"RESPONDING", "TERMINATED"},
   RESPONDING |-> {"ACTIVE", "TERMINATED"},
   TERMINATED |-> {}]

TypeOK ==
  /\ pc \in [Goroutines -> PCs]
  /\ state \in States /\ armed \in BOOLEAN /\ outcome \in {None, "verdict"}
  /\ audioChan \in Seq({"audio"}) /\ Len(audioChan) <= ChanCap
  /\ inboundErr \in 0 .. 1
  /\ closed \subseteq {"AgentAudioChan", "DoneChan", "OutcomeChan", "outboundDone"}
  /\ assigned \in BOOLEAN /\ relayExited \in BOOLEAN /\ sendFailed \in BOOLEAN
  /\ gaveUp \in BOOLEAN
  /\ {result, report} \subseteq {None, "verdict", "fallback"}
  /\ halfClosed \in BOOLEAN /\ cancelled \in BOOLEAN
  /\ toGateway \in Seq({"audio", "outcome", "eof", "error"})
  /\ engine \in {"serving", "classified", "finished", "failed"}
  /\ spoken \in 0 .. MaxSpoken /\ heard \in 0 .. MaxHeard
  /\ caller \in {"up", "ended", "gone"}

Init ==
  /\ pc = [g \in Goroutines |-> IF g = "main" THEN "resolve" ELSE "none"]
  /\ state = "CREATED" /\ armed = FALSE /\ outcome = None
  /\ audioChan = <<>> /\ inboundErr = 0 /\ closed = {}
  /\ assigned = FALSE /\ relayExited = FALSE /\ sendFailed = FALSE
  /\ gaveUp = FALSE /\ result = None /\ report = None
  /\ halfClosed = FALSE /\ cancelled = FALSE /\ toGateway = <<>>
  /\ engine = "serving" /\ spoken = 0 /\ caller = "up" /\ heard = 0

Stream == INSTANCE EngineStream

Step(g, from, to) == pc[g] = from /\ pc' = [pc EXCEPT ![g] = to]

\* A bug: the table of legal transitions is not consulted.
AnyTransition(from, next) == TRUE

Legal(from, next) == next \in validTransitions[from]

transitionTo(next) == state' = IF Legal(state, next) THEN next ELSE state

(***************************************************************************)
(* StreamAudio, from the open engine stream on.                            *)
(***************************************************************************)
ResolveProfile ==
  /\ Step("main", "resolve", "start")
  /\ assigned' \in BOOLEAN
  /\ UNCHANGED <<sessionVars, relayExited, sendFailed, gaveUp, result, report,
                 streamVars, chanVars, peerVars>>

\* Attach and START_SESSION.  When the engine cannot be told, the handler
\* returns at once, whether or not a customer was assigned.
StartSession ==
  /\ pc["main"] = "start"
  /\ state' = "ACTIVE"
  /\ \/ /\ pc' = [main |-> "select", inbound |-> "recv", outbound |-> "range",
                  readPump |-> "recv", idle |-> "none"]
        /\ UNCHANGED cancelled
     \/ /\ engine = "failed"
        /\ Step("main", "start", "exited")
        /\ cancelled' = TRUE
  /\ UNCHANGED <<armed, outcome, callVars, halfClosed, toGateway, engine, spoken,
                 chanVars, peerVars>>

\* Either case of the select when both are ready.
Select ==
  /\ Step("main", "select", "outcome")
  /\ \/ "DoneChan" \in closed /\ UNCHANGED <<inboundErr, relayExited>>
     \/ inboundErr = 1 /\ inboundErr' = 0 /\ relayExited' = TRUE
  /\ UNCHANGED <<sessionVars, assigned, sendFailed, gaveUp, result, report,
                 streamVars, audioChan, closed, peerVars>>

\* A bug: the stream is half-closed whoever ended the call.
Always == TRUE

MayHalfClose == relayExited

Collect(r) == result' = r /\ pc' = [pc EXCEPT !["main"] = "cancel"]

FirstLook ==
  /\ pc["main"] = "outcome"
  /\ \/ outcome # None /\ Collect(outcome)
     \/ outcome = None /\ ~ MayHalfClose /\ Collect("fallback")
     \/ outcome = None /\ MayHalfClose /\ Step("main", "outcome", "half_close")
        /\ UNCHANGED result
  /\ UNCHANGED <<sessionVars, assigned, relayExited, sendFailed, gaveUp, report,
                 streamVars, chanVars, peerVars>>

SignalInputComplete ==
  /\ pc["main"] = "half_close"
  /\ \/ /\ Step("main", "half_close", "await")
        /\ halfClosed' = TRUE /\ UNCHANGED result
     \/ engine = "failed" /\ Collect("fallback") /\ UNCHANGED halfClosed
  /\ UNCHANGED <<sessionVars, assigned, relayExited, sendFailed, gaveUp, report,
                 cancelled, toGateway, engine, spoken, chanVars, peerVars>>

Await ==
  /\ Step("main", "await", "read")
  /\ \/ closed \cap {"OutcomeChan", "DoneChan"} # {} /\ UNCHANGED gaveUp
     \/ gaveUp' = TRUE
  /\ UNCHANGED <<sessionVars, assigned, relayExited, sendFailed, result, report,
                 streamVars, chanVars, peerVars>>

SecondLook ==
  /\ pc["main"] = "read"
  /\ Collect(IF outcome = None THEN "fallback" ELSE outcome)
  /\ UNCHANGED <<sessionVars, assigned, relayExited, sendFailed, gaveUp, report,
                 streamVars, chanVars, peerVars>>

CancelAgent ==
  /\ Step("main", "cancel", "drain")
  /\ cancelled' = TRUE
  /\ UNCHANGED <<sessionVars, callVars, halfClosed, toGateway, engine, spoken,
                 chanVars, peerVars>>

AwaitOutbound ==
  /\ "outboundDone" \in closed
  /\ Step("main", "drain", IF assigned THEN "report" ELSE "exited")
  /\ UNCHANGED <<sessionVars, callVars, streamVars, chanVars, peerVars>>

\* One attempt, bounded by the client's timeout: it may not arrive.
EndSession ==
  /\ Step("main", "report", "exited")
  /\ report' \in {result, None}
  /\ UNCHANGED <<sessionVars, assigned, relayExited, sendFailed, gaveUp, result,
                 streamVars, chanVars, peerVars>>

Main ==
  \/ ResolveProfile \/ StartSession \/ Select \/ FirstLook \/ SignalInputComplete
  \/ Await \/ SecondLook \/ CancelAgent \/ AwaitOutbound \/ EndSession

\* The engine's stream carries nothing any more.
Over == engine \in {"finished", "failed"}

(***************************************************************************)
(* The inbound relay: caller to engine.  A returned handler has its stream *)
(* context cancelled, which ends a Recv still pending.                     *)
(***************************************************************************)
InboundRecv ==
  /\ pc["inbound"] = "recv"
  /\ \/ /\ caller = "up" /\ heard < MaxHeard
        /\ heard' = heard + 1
        /\ Step("inbound", "recv", "sending")
     \/ /\ caller # "up" \/ pc["main"] = "exited"
        /\ Step("inbound", "recv", "publish")
        /\ UNCHANGED heard
  /\ UNCHANGED <<sessionVars, callVars, streamVars, chanVars, caller>>

SendAudioReturns ==
  /\ \/ Step("inbound", "sending", "recv")
     \/ /\ Over \/ cancelled
        /\ Step("inbound", "sending", "publish")
  /\ UNCHANGED <<sessionVars, callVars, streamVars, chanVars, peerVars>>

Publish ==
  /\ Step("inbound", "publish", "exited")
  /\ inboundErr < 1
  /\ inboundErr' = inboundErr + 1
  /\ UNCHANGED <<sessionVars, callVars, streamVars, audioChan, closed, peerVars>>

Inbound == InboundRecv \/ SendAudioReturns \/ Publish

(***************************************************************************)
(* The outbound relay: engine to caller.                                   *)
(***************************************************************************)
NextChunk ==
  /\ pc["outbound"] = "range"
  /\ \/ /\ audioChan # <<>>
        /\ audioChan' = Tail(audioChan)
        /\ pc' = [pc EXCEPT !["outbound"] = IF sendFailed THEN "range" ELSE "sending"]
        /\ UNCHANGED closed
     \/ /\ audioChan = <<>> /\ "AgentAudioChan" \in closed
        /\ Step("outbound", "range", "exited")
        /\ closed' = closed \cup {"outboundDone"}
        /\ UNCHANGED audioChan
  /\ UNCHANGED <<sessionVars, callVars, streamVars, inboundErr, peerVars>>

\* A live caller takes a chunk when it reads: it may never do so.
CallerReads ==
  /\ caller # "gone"
  /\ Step("outbound", "sending", "range")
  /\ UNCHANGED <<sessionVars, callVars, streamVars, chanVars, peerVars>>

\* A bug: the relay returns when the caller is gone, instead of draining.
ReturnOnFailure ==
  /\ caller = "gone"
  /\ Step("outbound", "sending", "exited")
  /\ closed' = closed \cup {"outboundDone"}
  /\ UNCHANGED <<sessionVars, callVars, streamVars, audioChan, inboundErr, peerVars>>

OutboundFails ==
  /\ caller = "gone"
  /\ Step("outbound", "sending", "range")
  /\ sendFailed' = TRUE
  /\ UNCHANGED <<sessionVars, assigned, relayExited, gaveUp, result, report,
                 streamVars, chanVars, peerVars>>

Outbound == NextChunk \/ OutboundFails

(***************************************************************************)
(* readPump and the idle timer of the session.                             *)
(***************************************************************************)
Recv(event, to) ==
  /\ toGateway # <<>> /\ Head(toGateway) = event
  /\ Step("readPump", "recv", to)
  /\ toGateway' = Tail(toGateway)

RecvOutcome ==
  /\ Recv("outcome", "store")
  /\ UNCHANGED <<sessionVars, callVars, halfClosed, cancelled, engine, spoken,
                 chanVars, peerVars>>

\* GetState decides whether a transition is attempted, in a later critical
\* section.
RecvAudio ==
  /\ Recv("audio", IF state = "RESPONDING" THEN "arm" ELSE "respond")
  /\ UNCHANGED <<sessionVars, callVars, halfClosed, cancelled, engine, spoken,
                 chanVars, peerVars>>

RecvEOF ==
  /\ Recv("eof", "stop")
  /\ transitionTo("TERMINATED")
  /\ UNCHANGED <<armed, outcome, callVars, halfClosed, cancelled, engine, spoken,
                 chanVars, peerVars>>

\* A failed or a cancelled stream; what it still held may be lost.
RecvError ==
  /\ Step("readPump", "recv", "stop")
  /\ cancelled \/ (toGateway # <<>> /\ Head(toGateway) = "error")
  /\ UNCHANGED <<sessionVars, callVars, streamVars, chanVars, peerVars>>

\* A bug: setOutcome closes OutcomeChan first.
AnnounceFirst ==
  /\ pc["readPump"] = "store"
  /\ IF "OutcomeChan" \in closed
     THEN outcome' = "verdict" /\ Step("readPump", "store", "recv") /\ UNCHANGED closed
     ELSE closed' = closed \cup {"OutcomeChan"} /\ UNCHANGED <<outcome, pc>>
  /\ UNCHANGED <<state, armed, callVars, streamVars, audioChan, inboundErr, peerVars>>

StoreOutcome ==
  /\ Step("readPump", "store", "announce")
  /\ outcome' = "verdict"
  /\ UNCHANGED <<state, armed, callVars, streamVars, chanVars, peerVars>>

AnnounceOutcome ==
  /\ Step("readPump", "announce", "recv")
  /\ closed' = closed \cup {"OutcomeChan"}
  /\ UNCHANGED <<sessionVars, callVars, streamVars, audioChan, inboundErr, peerVars>>

Respond ==
  /\ Step("readPump", "respond", "arm")
  /\ transitionTo("RESPONDING")
  /\ UNCHANGED <<armed, outcome, callVars, streamVars, chanVars, peerVars>>

ResetIdle ==
  /\ Step("readPump", "arm", "put")
  /\ armed' = TRUE
  /\ UNCHANGED <<state, outcome, callVars, streamVars, chanVars, peerVars>>

\* A bug: the channel is a queue without a capacity.
PutUnbounded ==
  /\ Step("readPump", "put", "recv")
  /\ audioChan' = Append(audioChan, "audio")
  /\ UNCHANGED <<sessionVars, callVars, streamVars, inboundErr, closed, peerVars>>

Put ==
  /\ Step("readPump", "put", "recv")
  /\ Len(audioChan) < ChanCap
  /\ audioChan' = Append(audioChan, "audio")
  /\ UNCHANGED <<sessionVars, callVars, streamVars, inboundErr, closed, peerVars>>

StopIdle ==
  /\ Step("readPump", "stop", "done")
  /\ armed' = FALSE
  /\ UNCHANGED <<state, outcome, callVars, streamVars, chanVars, peerVars>>

SignalDone ==
  /\ Step("readPump", "done", "close")
  /\ closed' = closed \cup {"DoneChan"}
  /\ UNCHANGED <<sessionVars, callVars, streamVars, audioChan, inboundErr, peerVars>>

CloseAudio ==
  /\ Step("readPump", "close", "exited")
  /\ closed' = closed \cup {"AgentAudioChan"}
  /\ UNCHANGED <<sessionVars, callVars, streamVars, audioChan, inboundErr, peerVars>>

ReadPump ==
  \/ RecvOutcome \/ RecvAudio \/ RecvEOF \/ RecvError \/ StoreOutcome \/ AnnounceOutcome
  \/ Respond \/ ResetIdle \/ Put \/ StopIdle \/ SignalDone \/ CloseAudio

\* The timer's function runs in a goroutine of its own, which Stop and Reset do
\* not wait for; it is done before the timer can fire again.
IdleFires ==
  /\ armed /\ armed' = FALSE
  /\ Step("idle", "none", "fired")
  /\ UNCHANGED <<state, outcome, callVars, streamVars, chanVars, peerVars>>

IdleLooks ==
  /\ Step("idle", "fired", IF state = "RESPONDING" THEN "responding" ELSE "none")
  /\ UNCHANGED <<sessionVars, callVars, streamVars, chanVars, peerVars>>

IdleEnds ==
  /\ Step("idle", "responding", "none")
  /\ transitionTo("ACTIVE")
  /\ UNCHANGED <<armed, outcome, callVars, streamVars, chanVars, peerVars>>

Idle == IdleFires \/ IdleLooks \/ IdleEnds

(***************************************************************************)
(* The engine, by the steps of its stream, and the caller.                 *)
(***************************************************************************)
EngineSpeaks ==
  /\ spoken < MaxSpoken /\ Stream!Speak
  /\ toGateway' = Append(toGateway, "audio")
  /\ UNCHANGED <<pc, sessionVars, callVars, halfClosed, cancelled, chanVars, peerVars>>

EngineClassifies ==
  /\ Stream!Classify
  /\ toGateway' = Append(toGateway, "outcome")
  /\ UNCHANGED <<pc, sessionVars, callVars, halfClosed, cancelled, chanVars, peerVars>>

EngineEnds ==
  /\ Stream!End
  /\ toGateway' = Append(toGateway, "eof")
  /\ UNCHANGED <<pc, sessionVars, callVars, halfClosed, cancelled, chanVars, peerVars>>

EngineFails ==
  /\ Stream!Fail
  /\ \E n \in 0 .. Len(toGateway) :
       toGateway' = Append(SubSeq(toGateway, 1, n), "error")
  /\ UNCHANGED <<pc, sessionVars, callVars, halfClosed, cancelled, chanVars, peerVars>>

\* A bug: the engine's context derives from the caller's stream.
HangUpCascades ==
  /\ caller # "gone"
  /\ caller' = "gone" /\ cancelled' = TRUE
  /\ UNCHANGED <<pc, sessionVars, callVars, halfClosed, toGateway, engine, spoken,
                 chanVars, heard>>

HangUp ==
  /\ caller # "gone"
  /\ caller' = "gone"
  /\ UNCHANGED <<pc, sessionVars, callVars, streamVars, chanVars, heard>>

\* END_SESSION, the connection still open.
EndsCall ==
  /\ caller = "up"
  /\ caller' = "ended"
  /\ UNCHANGED <<pc, sessionVars, callVars, streamVars, chanVars, heard>>

Peers ==
  \/ EngineSpeaks \/ EngineClassifies \/ EngineEnds \/ EngineFails
  \/ HangUp \/ EndsCall \/ CallerReads

Next == Main \/ Inbound \/ Outbound \/ ReadPump \/ Idle \/ Peers

\* SendAudio has a background context: under flow control it waits for an engine
\* that is up to read, and nothing but the end of the stream wakes it.
UnderFlowControl == pc["inbound"] = "sending" /\ ~ Over /\ ~ cancelled

\* Each goroutine that can run does, outcomeTimeout passes, a send to a caller that
\* is gone fails.  Nothing is asked of the engine, which may stop reading and
\* stay up, nor of a live caller.
Fairness ==
  /\ WF_vars(Main) /\ WF_vars(Outbound) /\ WF_vars(ReadPump)
  /\ WF_vars(Inbound /\ ~ UnderFlowControl)

Spec == Init /\ [][Next]_vars /\ Fairness

(***************************************************************************)
(* Properties.                                                             *)
(***************************************************************************)
\* The engine's stream has one sender: the half-close never meets the relay
\* inside SendAudio, and no SendAudio follows it.
SingleSender == pc["main"] = "half_close" \/ halfClosed => pc["inbound"] # "sending"

\* The handler could have half-closed the engine's stream, and was refused.
HalfCloseFailed == relayExited /\ ~ halfClosed

\* A verdict that reached the session in time is the one collected: UNCLEAR is
\* reported in its place only after outcomeTimeout, or when the stream broke with the
\* verdict already on its way and the half-close failed for it.
VerdictCollected == result = "fallback" /\ ~ gaveUp => outcome = None \/ HalfCloseFailed

\* The engine's stream is not torn down while the engine may still classify,
\* however the caller left.
EngineOutlivesCaller ==
  cancelled /\ ~ gaveUp => outcome # None \/ Over

\* No callback, late timer or late event revives a terminated session.
TerminatedIsFinal == [][state = "TERMINATED" => state' = "TERMINATED"]_vars

Gone == \A g \in Goroutines \ {"idle"} : pc[g] \in {"none", "exited"}

\* Once the caller is gone every goroutine of the call ends, whatever the engine
\* does and however full AgentAudioChan is: nothing leaks, unless an engine that
\* stays up keeps SendAudio under flow control for ever.  Nothing else can.
TornDown == <>[] UnderFlowControl \/ (caller = "gone" ~> Gone)
=============================================================================
