--------------------------- MODULE InferenceEngine ---------------------------
(***************************************************************************)
(* One stream of the inference engine: the read pump that cuts the audio   *)
(* into utterances, the worker that answers them one at a time and then    *)
(* classifies the call, and the generator that sends what they produce.    *)
(* The threads meet on two unbounded FIFO queues.                          *)
(*                                                                         *)
(* An utterance is its number in the call.  Module VADDetector models how  *)
(* it is cut; here a boundary falls whenever somebody speaks.              *)
(***************************************************************************)
EXTENDS Naturals, Sequences

CONSTANTS
  MaxUtterances,  \* utterances of a call (a bound)
  MaxSentences,   \* sentences of an answer (a bound)
  HistoryTurns    \* turns of conversation kept (6: twelve messages)

ASSUME EngineAssumption ==
  MaxUtterances \in Nat /\ MaxSentences \in Nat /\ HistoryTurns \in Nat \ {0}

VARIABLES
  input,       \* the client's side of the stream, as far as the engine has read
  speaking,    \* speech accumulates in the detector
  spoken,      \* utterances cut so far
  pump,        \* where the read pump is
  worker,      \* where the worker is, and on which utterance
  utterances,  \* utterance_queue
  outbound,    \* outbound_queue
  sent,        \* what the client was sent
  stream,      \* the generator: "open" or "ended"
  history,     \* conversation_history: the utterances of its turns
  answered,    \* utterances answered to the end, oldest first
  skipped      \* utterances that left the queue without a turn

vars == <<input, speaking, spoken, pump, worker, utterances, outbound, sent, stream,
          history, answered, skipped>>

STOP == 0
Numbers == 1 .. MaxUtterances

Event ==
  [kind: {"audio"}, utterance: Numbers]
  \cup [kind: {"outcome"}, basis: Seq(Numbers)] \cup [kind: {"SHUTDOWN"}]

TypeOK ==
  /\ input \in {"open", "half_closed", "cancelled"}
  /\ speaking \in BOOLEAN /\ spoken \in 0 .. MaxUtterances
  /\ pump \in {"starting", "reading", "exited", "dead"}
  /\ worker \in [at: {"get", "transcribe", "answer", "speak", "classify", "shutdown",
                      "exited", "dead"},
                 on: 0 .. MaxUtterances, sentences: 0 .. MaxSentences]
  /\ utterances \in Seq(0 .. MaxUtterances)
  /\ outbound \in Seq(Event) /\ sent \in Seq(Event)
  /\ stream \in {"open", "ended"}
  /\ history \in Seq(Numbers) /\ Len(history) <= HistoryTurns
  /\ answered \in Seq(Numbers) /\ skipped \subseteq Numbers

Waiting == [at |-> "get", on |-> 0, sentences |-> 0]

Init ==
  /\ input = "open" /\ speaking = FALSE /\ spoken = 0 /\ pump = "starting"
  /\ worker = Waiting /\ utterances = <<>> /\ outbound = <<>> /\ sent = <<>>
  /\ stream = "open" /\ history = <<>> /\ answered = <<>> /\ skipped = {}

(***************************************************************************)
(* The read pump.                                                          *)
(***************************************************************************)
\* The detector is built before the pump's try: if it cannot be, the thread is gone
\* and no finally clause stops the worker.
BuildDetector ==
  /\ pump = "starting"
  /\ pump' \in {"reading", "dead"}
  /\ UNCHANGED <<input, speaking, spoken, worker, utterances, outbound, sent, stream,
                 history, answered, skipped>>

Hear ==
  /\ pump = "reading" /\ input = "open" /\ spoken < MaxUtterances
  /\ speaking' = TRUE
  /\ UNCHANGED <<input, spoken, pump, worker, utterances, outbound, sent, stream,
                 history, answered, skipped>>

DispatchUtterance ==
  /\ pump = "reading" /\ input = "open" /\ speaking
  /\ speaking' = FALSE
  /\ spoken' = spoken + 1
  /\ utterances' = Append(utterances, spoken + 1)
  /\ UNCHANGED <<input, pump, worker, outbound, sent, stream, history, answered, skipped>>

\* A bug: the end of the call overtakes the utterances in the queue.
StopOvertakes == utterances' = <<STOP>> \o utterances

Stop == utterances' = Append(utterances, STOP)

\* A bug: only a clean end of the input stops the worker.
CleanExitOnly ==
  /\ pump = "reading"
  /\ pump' = "exited"
  /\ speaking' = FALSE
  /\ IF input = "cancelled" THEN UNCHANGED utterances ELSE Stop
  /\ UNCHANGED <<input, spoken, worker, outbound, sent, stream, history, answered, skipped>>

\* The end of the input, an error on it, or an exception over what it carried:
\* the finally clause discards the speech in progress and stops the worker.
PumpExits ==
  /\ pump = "reading"
  /\ pump' = "exited"
  /\ speaking' = FALSE
  /\ Stop
  /\ UNCHANGED <<input, spoken, worker, outbound, sent, stream, history, answered, skipped>>

InputEnds == input # "open" /\ PumpExits

(***************************************************************************)
(* The worker.                                                             *)
(***************************************************************************)
Put(event) == outbound' = Append(outbound, event)

Get ==
  /\ worker.at = "get" /\ utterances # <<>>
  /\ utterances' = Tail(utterances)
  /\ worker' = IF Head(utterances) = STOP THEN [Waiting EXCEPT !.at = "classify"]
               ELSE [Waiting EXCEPT !.at = "transcribe", !.on = Head(utterances)]
  /\ UNCHANGED <<input, speaking, spoken, pump, outbound, sent, stream, history,
                 answered, skipped>>

\* The utterance leaves no turn: nothing was transcribed, nothing generated, the
\* client was found gone before a sentence, or a RuntimeError or RpcError came in
\* between, perhaps after part of the answer was sent.
Skip ==
  /\ worker.at \in {"transcribe", "answer", "speak"}
  /\ worker' = Waiting
  /\ skipped' = skipped \cup {worker.on}
  /\ UNCHANGED <<input, speaking, spoken, pump, utterances, outbound, sent, stream,
                 history, answered>>

Transcribe ==
  /\ worker.at = "transcribe"
  /\ worker' = [worker EXCEPT !.at = "answer"]
  /\ UNCHANGED <<input, speaking, spoken, pump, utterances, outbound, sent, stream,
                 history, answered, skipped>>

\* The model's next sentence, while the client is there.
NextSentence ==
  /\ worker.at = "answer" /\ worker.sentences < MaxSentences
  /\ input # "cancelled"
  /\ worker' = [worker EXCEPT !.at = "speak", !.sentences = @ + 1]
  /\ UNCHANGED <<input, speaking, spoken, pump, utterances, outbound, sent, stream,
                 history, answered, skipped>>

\* Its audio, or none when synthesis yields nothing.
Speak ==
  /\ worker.at = "speak"
  /\ worker' = [worker EXCEPT !.at = "answer"]
  /\ Put([kind |-> "audio", utterance |-> worker.on]) \/ UNCHANGED outbound
  /\ UNCHANGED <<input, speaking, spoken, pump, utterances, sent, stream, history,
                 answered, skipped>>

\* A bug: nothing bounds the history.
Everything(turns) == turns

\* A bug: a full history takes no further turn.
FirstTurns(turns) == SubSeq(turns, 1, IF Len(turns) > HistoryTurns THEN HistoryTurns
                                     ELSE Len(turns))

LastTurns(turns) ==
  SubSeq(turns, IF Len(turns) > HistoryTurns THEN Len(turns) - HistoryTurns + 1 ELSE 1,
         Len(turns))

Finish ==
  /\ worker.at = "answer" /\ worker.sentences > 0
  /\ history' = LastTurns(Append(history, worker.on))
  /\ answered' = Append(answered, worker.on)
  /\ worker' = Waiting
  /\ UNCHANGED <<input, speaking, spoken, pump, utterances, outbound, sent, stream, skipped>>

\* A bug: a classification that fails leaves no outcome.
NoDefault ==
  /\ worker.at = "classify"
  /\ Put([kind |-> "outcome", basis |-> history]) \/ UNCHANGED outbound
  /\ worker' = [Waiting EXCEPT !.at = "shutdown"]
  /\ UNCHANGED <<input, speaking, spoken, pump, utterances, sent, stream, history,
                 answered, skipped>>

\* classify, and on a RuntimeError the default outcome all the same.
EmitOutcome ==
  /\ worker.at = "classify"
  /\ Put([kind |-> "outcome", basis |-> history])
  /\ worker' = [Waiting EXCEPT !.at = "shutdown"]
  /\ UNCHANGED <<input, speaking, spoken, pump, utterances, sent, stream, history,
                 answered, skipped>>

PutShutdown ==
  /\ worker.at = "shutdown"
  /\ Put([kind |-> "SHUTDOWN"])
  /\ worker' = [Waiting EXCEPT !.at = "exited"]
  /\ UNCHANGED <<input, speaking, spoken, pump, utterances, sent, stream, history,
                 answered, skipped>>

\* An exception of a kind no handler names ends the thread, silently: such is
\* the ConnectionError of the client library when the model's server is gone.
WorkerDies ==
  /\ worker.at \in {"transcribe", "answer", "speak", "classify"}
  /\ worker' = [worker EXCEPT !.at = "dead"]
  /\ UNCHANGED <<input, speaking, spoken, pump, utterances, outbound, sent, stream,
                 history, answered, skipped>>

(***************************************************************************)
(* The generator, and the client.                                          *)
(***************************************************************************)
Yield ==
  /\ stream = "open" /\ outbound # <<>>
  /\ outbound' = Tail(outbound)
  /\ IF Head(outbound).kind = "SHUTDOWN"
     THEN stream' = "ended" /\ UNCHANGED sent
     ELSE /\ sent' = Append(sent, Head(outbound)) /\ UNCHANGED stream
  /\ UNCHANGED <<input, speaking, spoken, pump, worker, utterances, history, answered,
                 skipped>>

HalfClose ==
  /\ input = "open" /\ input' = "half_closed"
  /\ UNCHANGED <<speaking, spoken, pump, worker, utterances, outbound, sent, stream,
                 history, answered, skipped>>

Cancel ==
  /\ input # "cancelled" /\ input' = "cancelled"
  /\ UNCHANGED <<speaking, spoken, pump, worker, utterances, outbound, sent, stream,
                 history, answered, skipped>>

Worker ==
  \/ Get \/ Skip \/ Transcribe \/ NextSentence \/ Speak \/ Finish
  \/ EmitOutcome \/ PutShutdown

Next ==
  \/ BuildDetector \/ Hear \/ DispatchUtterance \/ PumpExits
  \/ Worker \/ WorkerDies
  \/ Yield \/ HalfClose \/ Cancel

\* Each thread runs; the models answer.
Fairness ==
  WF_vars(BuildDetector) /\ WF_vars(InputEnds) /\ WF_vars(Worker) /\ WF_vars(Yield)

Spec == Init /\ [][Next]_vars /\ Fairness

(***************************************************************************)
(* Properties.                                                             *)
(***************************************************************************)
Events == sent \o outbound

\* The outcome is sent once and last, after every utterance the pump cut was
\* either answered or given up: no audio follows it and none is still to come.
OutcomeIsLast ==
  \A i \in 1 .. Len(Events) : Events[i].kind = "outcome" =>
    /\ \A j \in i + 1 .. Len(Events) : Events[j].kind = "SHUTDOWN"
    /\ 1 .. spoken = skipped \cup {answered[j] : j \in 1 .. Len(answered)}

\* What the classifier reads is the end of the conversation, in order: the last
\* turns, and no turn of an utterance that was given up.
BasisIsLatest ==
  \A i \in 1 .. Len(Events) : Events[i].kind = "outcome" =>
    LET basis == Events[i].basis IN
      /\ Len(basis) = IF Len(answered) < HistoryTurns THEN Len(answered) ELSE HistoryTurns
      /\ \A j \in 1 .. Len(basis) : basis[j] = answered[Len(answered) - Len(basis) + j]

OutcomeSent == \E i \in 1 .. Len(sent) : sent[i].kind = "outcome"

Stream == INSTANCE EngineStream WITH
  engine <- IF stream = "ended" THEN "finished"
            ELSE IF OutcomeSent THEN "classified" ELSE "serving",
  spoken <- Len(sent) - IF OutcomeSent THEN 1 ELSE 0

\* What the client receives is what the gateway relies on: nothing but audio before the
\* outcome, one outcome, and no end of the stream without it.
ImplementsStream == Stream!Spec

\* When the client is done the stream ends, unless a thread died: the worker, or the
\* pump before it had a detector.  Then nothing ends the stream, and the thread of
\* the server's pool that serves it is held for good.
StreamEnds ==
  input # "open" ~> stream = "ended" \/ worker.at = "dead" \/ pump = "dead"
=============================================================================
