----------------------- MODULE InferenceEngineProofs -----------------------
(***************************************************************************)
(* Proofs about module InferenceEngine for calls of any length, answers of *)
(* any number of sentences and every length of the history.                *)
(***************************************************************************)
EXTENDS InferenceEngine, SequenceTheorems, TLAPS

Busy == worker.at \in {"transcribe", "answer", "speak"}

(***************************************************************************)
(* Type correctness.                                                       *)
(***************************************************************************)
Ats == {"get", "transcribe", "answer", "speak", "classify", "shutdown", "exited", "dead"}

Pumps == {"starting", "reading", "exited", "dead"}

Workers == [at: Ats, on: 0 .. MaxUtterances, sentences: 0 .. MaxSentences]

\* Speech is heard while the call may still have an utterance, and a worker that
\* is busy is busy with one.
TypeInv ==
  /\ TypeOK
  /\ speaking => spoken < MaxUtterances
  /\ Busy => worker.on \in Numbers

LEMMA WaitingAt ==
  ASSUME NEW at \in Ats, NEW on \in 0 .. MaxUtterances
  PROVE  /\ [Waiting EXCEPT !.at = at] \in Workers /\ [Waiting EXCEPT !.at = at].at = at
         /\ [Waiting EXCEPT !.at = at, !.on = on] \in Workers
         /\ [Waiting EXCEPT !.at = at, !.on = on].at = at
         /\ [Waiting EXCEPT !.at = at, !.on = on].on = on
         /\ Waiting \in Workers /\ Waiting.at = "get"
<1>1. 0 \in 0 .. MaxUtterances /\ 0 \in 0 .. MaxSentences /\ "get" \in Ats
  BY EngineAssumption DEF Ats
<1>2. Waiting \in Workers /\ Waiting.at = "get"
  BY <1>1 DEF Waiting, Workers
<1>3. PICK w \in Workers : w = Waiting
  BY <1>2
<1>4. /\ [w EXCEPT !.at = at] \in Workers /\ [w EXCEPT !.at = at].at = at
  BY DEF Workers
<1>5. /\ [w EXCEPT !.at = at, !.on = on] \in Workers
      /\ [w EXCEPT !.at = at, !.on = on].at = at
      /\ [w EXCEPT !.at = at, !.on = on].on = on
  BY DEF Workers
<1>6. QED
  BY <1>2, <1>3, <1>4, <1>5, Zenon

LEMMA WaitingTyped == Waiting \in Workers /\ Waiting.at = "get"
<1>1. "get" \in Ats /\ 0 \in 0 .. MaxUtterances
  BY EngineAssumption DEF Ats
<1>2. QED
  BY <1>1, WaitingAt

LEMMA WorkerTyped ==
  ASSUME TypeOK
  PROVE  worker \in Workers
BY DEF TypeOK, Workers, Ats

\* Where a step leaves the worker.
WorkerAt(at) == worker' \in Workers /\ worker'.at = at

LEMMA WorkerMoves ==
  ASSUME TypeOK, NEW at \in Ats, worker' = [worker EXCEPT !.at = at]
  PROVE  WorkerAt(at) /\ worker'.on = worker.on
BY WorkerTyped DEF WorkerAt, Workers

LEMMA GetEffect ==
  ASSUME TypeOK, Get
  PROVE  /\ Head(utterances) \in 0 .. MaxUtterances
         /\ utterances' \in Seq(0 .. MaxUtterances) /\ Len(utterances') = Len(utterances) - 1
         /\ \A i \in 1 .. Len(utterances') : utterances'[i] = utterances[i + 1]
         /\ Head(utterances) = utterances[1] /\ Len(utterances) \in Nat \ {0}
         /\ Head(utterances) = STOP => WorkerAt("classify")
         /\ Head(utterances) # STOP => WorkerAt("transcribe") /\ worker'.on = Head(utterances)
<1>1. utterances \in Seq(0 .. MaxUtterances) /\ utterances # <<>> /\ utterances' = Tail(utterances)
  BY DEF Get, TypeOK
<1>2. /\ Head(utterances) \in 0 .. MaxUtterances /\ utterances' \in Seq(0 .. MaxUtterances)
      /\ Len(utterances') = Len(utterances) - 1
      /\ \A i \in 1 .. Len(utterances') : utterances'[i] = utterances[i + 1]
  BY <1>1, HeadTailProperties
<1>3. Head(utterances) = utterances[1] /\ Len(utterances) \in Nat \ {0}
  BY <1>1, LenProperties, EmptySeq
<1>4. CASE Head(utterances) = STOP
  <2>1. worker' = [Waiting EXCEPT !.at = "classify"]
    BY <1>4 DEF Get
  <2>2. QED
    BY <1>2, <1>3, <1>4, <2>1, WaitingAt DEF WorkerAt, Ats
<1>5. CASE Head(utterances) # STOP
  <2>1. worker' = [Waiting EXCEPT !.at = "transcribe", !.on = Head(utterances)]
    BY <1>5 DEF Get
  <2>2. QED
    BY <1>2, <1>3, <1>5, <2>1, WaitingAt DEF WorkerAt, Ats
<1>6. QED
  BY <1>4, <1>5

LEMMA LastTurnsProperties ==
  ASSUME NEW turns \in Seq(Numbers)
  PROVE  /\ LastTurns(turns) \in Seq(Numbers)
         /\ Len(LastTurns(turns)) = IF Len(turns) > HistoryTurns THEN HistoryTurns ELSE Len(turns)
         /\ \A i \in 1 .. Len(LastTurns(turns)) :
              LastTurns(turns)[i] = turns[Len(turns) - Len(LastTurns(turns)) + i]
<1>. DEFINE n == Len(turns)
            m == IF n > HistoryTurns THEN n - HistoryTurns + 1 ELSE 1
<1>1. n \in Nat /\ HistoryTurns \in Nat \ {0} /\ \A i \in 1 .. n : turns[i] \in Numbers
  BY EngineAssumption, LenProperties, ElementOfSeq
<1>2. m \in Int /\ n \in Int /\ m >= 1 /\ \A i \in m .. n : turns[i] \in Numbers
  BY <1>1
<1>3. LastTurns(turns) = SubSeq(turns, m, n)
  BY DEF LastTurns
<1>. HIDE DEF m, n
<1>4. /\ SubSeq(turns, m, n) \in Seq(Numbers)
      /\ Len(SubSeq(turns, m, n)) = IF m <= n THEN n - m + 1 ELSE 0
      /\ \A i \in 1 .. n - m + 1 : SubSeq(turns, m, n)[i] = turns[m + i - 1]
  BY <1>2, SubSeqProperties
<1>5. CASE n > HistoryTurns
  <2>1. m = n - HistoryTurns + 1
    BY <1>5 DEF m
  <2>2. m <= n /\ n - m + 1 = HistoryTurns /\ n > HistoryTurns
    BY <1>1, <1>5, <2>1
  <2>3. \A i \in 1 .. HistoryTurns : m + i - 1 = n - HistoryTurns + i
    BY <1>1, <1>5, <2>1
  <2>4. QED
    BY <1>3, <1>4, <2>2, <2>3 DEF n
<1>6. CASE ~(n > HistoryTurns)
  <2>1. m = 1
    BY <1>6 DEF m
  <2>2. n - m + 1 = n /\ (m <= n \/ n = 0)
    BY <1>1, <2>1
  <2>3. \A i \in 1 .. n : m + i - 1 = i /\ n - n + i = i
    BY <1>1, <2>1
  <2>4. Len(SubSeq(turns, m, n)) = n
    BY <1>4, <2>1, <2>2, <1>1
  <2>5. QED
    BY <1>3, <1>4, <1>6, <2>2, <2>3, <2>4 DEF n
<1>7. QED
  BY <1>5, <1>6

LEMMA FinishEffect ==
  ASSUME TypeInv, Finish
  PROVE  /\ worker.on \in Numbers /\ WorkerAt("get")
         /\ Append(history, worker.on) \in Seq(Numbers)
         /\ history' = LastTurns(Append(history, worker.on))
         /\ history' \in Seq(Numbers) /\ Len(history') <= HistoryTurns
         /\ answered' \in Seq(Numbers) /\ Len(answered') = Len(answered) + 1
         /\ \A i \in 1 .. Len(answered) : answered'[i] = answered[i]
         /\ answered'[Len(answered) + 1] = worker.on
<1>1. worker.on \in Numbers /\ history \in Seq(Numbers) /\ answered \in Seq(Numbers)
  BY DEF Finish, TypeInv, TypeOK, Busy
<1>2. /\ answered' \in Seq(Numbers) /\ Len(answered') = Len(answered) + 1
      /\ \A i \in 1 .. Len(answered) : answered'[i] = answered[i]
      /\ answered'[Len(answered) + 1] = worker.on
  BY <1>1, AppendProperties DEF Finish
<1>3. Append(history, worker.on) \in Seq(Numbers) /\ history' = LastTurns(Append(history, worker.on))
  BY <1>1, AppendProperties DEF Finish
<1>4. history' \in Seq(Numbers) /\ Len(history') <= HistoryTurns
  <2>1. PICK turns \in Seq(Numbers) : turns = Append(history, worker.on)
    BY <1>3
  <2>2. Len(turns) \in Nat /\ HistoryTurns \in Nat
    BY LenProperties, EngineAssumption
  <2>3. LastTurns(turns) \in Seq(Numbers) /\ Len(LastTurns(turns)) <= HistoryTurns
    BY <2>2, LastTurnsProperties
  <2>4. QED
    BY <1>3, <2>1, <2>3
<1>5. WorkerAt("get")
  BY WaitingTyped DEF Finish, WorkerAt
<1>6. QED
  BY <1>1, <1>2, <1>3, <1>4, <1>5

\* Every step but Finish leaves the conversation alone, and says where the worker goes.
LEMMA TypesKept ==
  ASSUME TypeInv, input' \in {"open", "half_closed", "cancelled"}, speaking' \in BOOLEAN,
         spoken' \in 0 .. MaxUtterances, speaking' => spoken' < MaxUtterances,
         pump' \in Pumps, worker' \in Workers, Busy' => worker'.on \in Numbers,
         utterances' \in Seq(0 .. MaxUtterances), outbound' \in Seq(Event), sent' \in Seq(Event),
         stream' \in {"open", "ended"}, skipped' \subseteq Numbers,
         UNCHANGED <<history, answered>>
  PROVE  TypeInv'
BY DEF TypeInv, TypeOK, Workers, Ats, Pumps

LEMMA PutTyped ==
  ASSUME TypeOK, NEW e \in Event, Put(e)
  PROVE  outbound' \in Seq(Event)
BY AppendProperties DEF Put, TypeOK

LEMMA NextTypeInv == TypeInv /\ [Next]_vars => TypeInv'
<1>. SUFFICES ASSUME TypeInv, [Next]_vars PROVE TypeInv'
  OBVIOUS
<1>0. /\ input \in {"open", "half_closed", "cancelled"} /\ speaking \in BOOLEAN
      /\ spoken \in 0 .. MaxUtterances /\ (speaking => spoken < MaxUtterances)
      /\ pump \in Pumps /\ worker \in Workers /\ (Busy => worker.on \in Numbers)
      /\ utterances \in Seq(0 .. MaxUtterances) /\ outbound \in Seq(Event) /\ sent \in Seq(Event)
      /\ stream \in {"open", "ended"} /\ skipped \subseteq Numbers /\ MaxUtterances \in Nat
      /\ history \in Seq(Numbers) /\ TypeOK
  BY WorkerTyped, EngineAssumption DEF TypeInv, TypeOK, Pumps
<1>1. CASE UNCHANGED vars
  BY <1>0, <1>1, TypesKept DEF vars, Busy
<1>2. CASE BuildDetector \/ Hear
  <2>1. CASE BuildDetector
    BY <1>0, <2>1, TypesKept DEF BuildDetector, Busy, Pumps
  <2>2. CASE Hear
    BY <1>0, <2>2, TypesKept DEF Hear, Busy
  <2>3. QED
    BY <1>2, <2>1, <2>2
<1>3. CASE DispatchUtterance
  <2>1. spoken + 1 \in 0 .. MaxUtterances
    BY <1>0, <1>3 DEF DispatchUtterance
  <2>2. utterances' \in Seq(0 .. MaxUtterances)
    BY <1>0, <1>3, <2>1, AppendProperties DEF DispatchUtterance
  <2>3. QED
    BY <1>0, <1>3, <2>1, <2>2, TypesKept DEF DispatchUtterance, Busy
<1>4. CASE PumpExits
  <2>1. utterances' \in Seq(0 .. MaxUtterances)
    BY <1>0, <1>4, AppendProperties DEF PumpExits, Stop, STOP
  <2>2. QED
    BY <1>0, <1>4, <2>1, TypesKept DEF PumpExits, Busy, Pumps
<1>5. CASE Get
  <2>1. /\ worker' \in Workers /\ utterances' \in Seq(0 .. MaxUtterances)
        /\ Busy' => worker'.on \in Numbers
    BY <1>0, <1>5, GetEffect DEF WorkerAt, Busy, STOP, Numbers
  <2>2. QED
    BY <1>0, <1>5, <2>1, TypesKept DEF Get
<1>6. CASE Skip
  <2>1. WorkerAt("get") /\ worker.on \in Numbers
    BY <1>0, <1>6, WaitingAt DEF Skip, WorkerAt, Ats, Busy
  <2>2. QED
    BY <1>0, <1>6, <2>1, TypesKept DEF Skip, WorkerAt, Busy
<1>7. CASE Transcribe
  <2>1. WorkerAt("answer") /\ worker'.on = worker.on /\ Busy
    BY <1>0, <1>7, WorkerMoves DEF Transcribe, Ats, Busy
  <2>2. QED
    BY <1>0, <1>7, <2>1, TypesKept DEF Transcribe, WorkerAt
<1>8. CASE NextSentence
  <2>1. Busy /\ worker.sentences < MaxSentences /\ worker \in Workers
        /\ worker' = [worker EXCEPT !.at = "speak", !.sentences = worker.sentences + 1]
    BY <1>0, <1>8 DEF NextSentence, Busy
  <2>2. worker.sentences + 1 \in 0 .. MaxSentences /\ "speak" \in Ats
    BY <2>1, EngineAssumption DEF Workers, Ats
  <2>3. worker' \in Workers /\ worker'.on = worker.on
    BY <2>1, <2>2 DEF Workers
  <2>4. QED
    BY <1>0, <1>8, <2>1, <2>3, TypesKept DEF NextSentence
<1>9. CASE Speak
  <2>1. WorkerAt("answer") /\ worker'.on = worker.on /\ Busy
    BY <1>0, <1>9, WorkerMoves DEF Speak, Ats, Busy
  <2>2. [kind |-> "audio", utterance |-> worker.on] \in Event
    BY <1>0, <2>1 DEF Event
  <2>3. outbound' \in Seq(Event)
    BY <1>0, <1>9, <2>2, PutTyped DEF Speak
  <2>4. QED
    BY <1>0, <1>9, <2>1, <2>3, TypesKept DEF Speak, WorkerAt
<1>10. CASE Finish
  <2>1. /\ history' \in Seq(Numbers) /\ Len(history') <= HistoryTurns /\ answered' \in Seq(Numbers)
        /\ worker' \in Workers /\ worker'.at = "get"
    BY <1>10, FinishEffect DEF WorkerAt
  <2>2. QED
    BY <1>10, <2>1 DEF Finish, TypeInv, TypeOK, Busy, Workers, Ats
<1>11. CASE EmitOutcome
  <2>1. WorkerAt("shutdown")
    BY <1>0, <1>11, WaitingAt DEF EmitOutcome, WorkerAt, Ats
  <2>2. [kind |-> "outcome", basis |-> history] \in Event
    BY <1>0 DEF Event
  <2>3. outbound' \in Seq(Event)
    BY <1>0, <1>11, <2>2, PutTyped DEF EmitOutcome
  <2>4. QED
    BY <1>0, <1>11, <2>1, <2>3, TypesKept DEF EmitOutcome, WorkerAt, Busy
<1>12. CASE PutShutdown
  <2>1. WorkerAt("exited")
    BY <1>0, <1>12, WaitingAt DEF PutShutdown, WorkerAt, Ats
  <2>2. [kind |-> "SHUTDOWN"] \in Event
    BY DEF Event
  <2>3. outbound' \in Seq(Event)
    BY <1>0, <1>12, <2>2, PutTyped DEF PutShutdown
  <2>4. QED
    BY <1>0, <1>12, <2>1, <2>3, TypesKept DEF PutShutdown, WorkerAt, Busy
<1>13. CASE WorkerDies
  <2>1. WorkerAt("dead")
    BY <1>0, <1>13, WorkerMoves DEF WorkerDies, Ats
  <2>2. QED
    BY <1>0, <1>13, <2>1, TypesKept DEF WorkerDies, WorkerAt, Busy
<1>14. CASE Yield
  <2>1. Head(outbound) \in Event /\ outbound' \in Seq(Event)
    BY <1>0, <1>14, HeadTailProperties DEF Yield
  <2>2. sent' \in Seq(Event) /\ stream' \in {"open", "ended"}
    <3>1. CASE Head(outbound).kind = "SHUTDOWN"
      BY <1>0, <1>14, <3>1 DEF Yield
    <3>2. CASE Head(outbound).kind # "SHUTDOWN"
      <4>1. sent' = Append(sent, Head(outbound)) /\ stream' = stream
        BY <1>14, <3>2 DEF Yield
      <4>2. QED
        BY <1>0, <2>1, <4>1, AppendProperties
    <3>3. QED
      BY <3>1, <3>2
  <2>3. QED
    BY <1>0, <1>14, <2>1, <2>2, TypesKept DEF Yield, Busy
<1>15. CASE HalfClose \/ Cancel
  BY <1>0, <1>15, TypesKept DEF HalfClose, Cancel, Busy
<1>16. QED
  BY <1>1, <1>2, <1>3, <1>4, <1>5, <1>6, <1>7, <1>8, <1>9, <1>10, <1>11, <1>12, <1>13, <1>14, <1>15
  DEF Next, Worker

LEMMA InitTypeInv == Init => TypeInv
<1>. SUFFICES ASSUME Init PROVE TypeInv
  OBVIOUS
<1>1. Waiting \in Workers /\ Waiting.at = "get" /\ MaxUtterances \in Nat /\ HistoryTurns \in Nat
  BY WaitingTyped, EngineAssumption
<1>2. Len(<<>>) = 0 /\ <<>> \in Seq(Numbers) /\ <<>> \in Seq(Event) /\ <<>> \in Seq(0 .. MaxUtterances)
  BY EmptySeq
<1>3. QED
  <2>1. worker \in Workers /\ worker.at = "get" /\ spoken \in 0 .. MaxUtterances
    BY <1>1 DEF Init
  <2>2. ~Busy /\ speaking = FALSE
    BY <2>1 DEF Busy, Init
  <2>3. Len(history) <= HistoryTurns /\ history \in Seq(Numbers) /\ answered \in Seq(Numbers)
        /\ utterances \in Seq(0 .. MaxUtterances) /\ outbound \in Seq(Event) /\ sent \in Seq(Event)
    BY <1>1, <1>2 DEF Init
  <2>4. QED
    BY <2>1, <2>2, <2>3 DEF Init, TypeInv, TypeOK, Workers, Ats

\* Whatever the client does and whichever thread stops, both queues, the history and
\* the worker stay within their types; above all the history within its turns.
THEOREM EngineTypeCorrect == Spec => []TypeOK
<1>1. TypeInv => TypeOK
  BY DEF TypeInv
<1>2. QED
  BY InitTypeInv, NextTypeInv, <1>1, PTL DEF Spec

(***************************************************************************)
(* What the client was and will be sent.                                   *)
(***************************************************************************)
Classified == worker.at \in {"shutdown", "exited"}

\* Until the worker has classified the call everything is audio; afterwards an
\* outcome rests on the history as it is, and only the shutdown comes after it.
EventsInv ==
  /\ ~Classified => \A i \in 1 .. Len(Events) : Events[i].kind = "audio"
  /\ \A i \in 1 .. Len(Events) : Events[i].kind = "outcome" =>
       /\ Events[i].basis = history
       /\ \A j \in i + 1 .. Len(Events) : Events[j].kind = "SHUTDOWN"

LEMMA ConcatPoints ==
  ASSUME NEW s \in Seq(Event), NEW o \in Seq(Event)
  PROVE  /\ Len(s) \in Nat /\ Len(o) \in Nat /\ Len(s \o o) = Len(s) + Len(o)
         /\ \A i \in 1 .. Len(s) : (s \o o)[i] = s[i]
         /\ \A i \in 1 .. Len(o) : (s \o o)[Len(s) + i] = o[i]
<1>1. /\ Len(s) \in Nat /\ Len(o) \in Nat /\ Len(s \o o) = Len(s) + Len(o)
      /\ \A i \in 1 .. Len(s) + Len(o) : (s \o o)[i] = IF i <= Len(s) THEN s[i] ELSE o[i - Len(s)]
  BY ConcatProperties, LenProperties
<1>2. ASSUME NEW i \in 1 .. Len(s) PROVE (s \o o)[i] = s[i]
  <2>1. i \in 1 .. Len(s) + Len(o) /\ i <= Len(s)
    BY <1>1
  <2>2. QED
    BY <1>1, <2>1
<1>3. ASSUME NEW i \in 1 .. Len(o) PROVE (s \o o)[Len(s) + i] = o[i]
  <2>1. /\ Len(s) + i \in 1 .. Len(s) + Len(o) /\ ~(Len(s) + i <= Len(s))
        /\ Len(s) + i - Len(s) = i
    BY <1>1
  <2>2. QED
    BY <1>1, <2>1
<1>4. QED
  BY <1>1, <1>2, <1>3

LEMMA EventsTyped ==
  ASSUME TypeOK
  PROVE  Len(Events) \in Nat
<1>1. sent \in Seq(Event) /\ outbound \in Seq(Event)
  BY DEF TypeOK
<1>2. QED
  BY <1>1, ConcatPoints DEF Events

LEMMA EventsPut ==
  ASSUME TypeOK, NEW e \in Event, Put(e), sent' = sent
  PROVE  /\ Len(Events') = Len(Events) + 1 /\ Events'[Len(Events) + 1] = e
         /\ \A i \in 1 .. Len(Events) : Events'[i] = Events[i]
<1>1. PICK s \in Seq(Event), o \in Seq(Event) : s = sent /\ o = outbound
  BY DEF TypeOK
<1>2. PICK all \in Seq(Event) : all = s \o o
  BY ConcatProperties
<1>3. Events = all /\ Events' = s \o Append(o, e) /\ s \o Append(o, e) = Append(all, e)
  BY <1>1, <1>2, AppendIsConcat, ConcatAssociative DEF Events, Put
<1>4. QED
  BY <1>3, AppendProperties

LEMMA EventsYield ==
  ASSUME TypeOK, Yield
  PROVE  \/ /\ Len(Events') = Len(Events)
            /\ \A i \in 1 .. Len(Events) : Events'[i] = Events[i]
         \/ \E k \in 1 .. Len(Events) :
              /\ Events[k].kind = "SHUTDOWN" /\ Len(Events') = Len(Events) - 1
              /\ \A i \in 1 .. k - 1 : Events'[i] = Events[i]
              /\ \A i \in k .. Len(Events') : Events'[i] = Events[i + 1]
<1>1. PICK s \in Seq(Event), o \in Seq(Event) : s = sent /\ o = outbound
  BY DEF TypeOK
<1>2. /\ o # <<>> /\ Head(o) \in Event /\ Tail(o) \in Seq(Event) /\ outbound' = Tail(o)
      /\ Head(o) = o[1] /\ Len(o) > 0 /\ Len(Tail(o)) = Len(o) - 1
      /\ \A i \in 1 .. Len(Tail(o)) : Tail(o)[i] = o[i + 1]
  BY <1>1, HeadTailProperties, EmptySeq, LenProperties DEF Yield
<1>3. Events = s \o o
  BY <1>1 DEF Events
<1>4. CASE Head(outbound).kind = "SHUTDOWN"
  <2>1. Events' = s \o Tail(o)
    BY <1>1, <1>2, <1>4 DEF Yield, Events
  <2>2. /\ Len(s) \in Nat /\ Len(o) \in Nat /\ Len(s \o o) = Len(s) + Len(o)
        /\ \A i \in 1 .. Len(s) : (s \o o)[i] = s[i]
        /\ \A i \in 1 .. Len(o) : (s \o o)[Len(s) + i] = o[i]
    BY ConcatPoints
  <2>3. /\ Len(s \o Tail(o)) = Len(s) + Len(o) - 1
        /\ \A i \in 1 .. Len(s) : (s \o Tail(o))[i] = s[i]
        /\ \A i \in 1 .. Len(o) - 1 : (s \o Tail(o))[Len(s) + i] = o[i + 1]
    BY <1>2, <2>2, ConcatPoints
  <2>4. Len(s) + 1 \in 1 .. Len(Events) /\ Len(Events') = Len(Events) - 1
    BY <1>2, <1>3, <2>1, <2>2, <2>3
  <2>5. \A i \in 1 .. Len(s) : Events'[i] = Events[i]
    BY <1>3, <2>1, <2>2, <2>3
  <2>6. ASSUME NEW i \in Len(s) + 1 .. Len(Events') PROVE Events'[i] = Events[i + 1]
    <3>1. PICK j \in 1 .. Len(o) - 1 : i = Len(s) + j
      <4>1. i - Len(s) \in 1 .. Len(o) - 1 /\ i = Len(s) + (i - Len(s))
        BY <1>3, <2>2, <2>4
      <4>2. QED
        BY <4>1
    <3>2. Events'[i] = o[j + 1]
      BY <2>1, <2>3, <3>1
    <3>3. j + 1 \in 1 .. Len(o) /\ i + 1 = Len(s) + (j + 1)
      BY <2>2, <3>1
    <3>4. QED
      BY <1>3, <2>2, <3>2, <3>3
  <2>7. PICK k \in 1 .. Len(Events) : k = Len(s) + 1
    BY <2>4
  <2>8. k - 1 = Len(s)
    BY <2>2, <2>7
  <2>9. Events[k].kind = "SHUTDOWN"
    <3>1. Len(s) + 1 = k /\ 1 \in 1 .. Len(o)
      BY <1>2, <2>2, <2>7
    <3>2. Events[k] = Head(o)
      BY <1>2, <1>3, <2>2, <3>1
    <3>3. QED
      BY <1>1, <1>4, <3>2
  <2>10. QED
    BY <2>4, <2>5, <2>6, <2>7, <2>8, <2>9
<1>5. CASE Head(outbound).kind # "SHUTDOWN"
  <2>1. Events' = Append(s, Head(o)) \o Tail(o)
    BY <1>1, <1>2, <1>5 DEF Yield, Events
  <2>2. Append(s, Head(o)) = s \o <<Head(o)>> /\ <<Head(o)>> \in Seq(Event)
    BY <1>2, AppendIsConcat
  <2>3. o = <<Head(o)>> \o Tail(o)
    <3>1. PICK h \in Seq(Event), t \in Seq(Event) : h = <<Head(o)>> /\ t = Tail(o)
      BY <1>2, <2>2
    <3>2. h \o t \in Seq(Event) /\ Len(h) = 1 /\ h[1] = o[1]
      BY <1>2, <3>1, ConcatProperties
    <3>3. Len(h \o t) = Len(o) /\ (h \o t)[1] = o[1]
      BY <1>2, <3>1, <3>2, ConcatPoints, LenProperties
    <3>4. \A i \in 1 .. Len(t) : (h \o t)[1 + i] = o[i + 1]
      BY <1>2, <3>1, <3>2, ConcatPoints
    <3>5. \A i \in 1 .. Len(o) : (h \o t)[i] = o[i]
      <4>1. TAKE i \in 1 .. Len(o)
      <4>2. CASE i = 1
        BY <3>3, <4>2
      <4>3. CASE i # 1
        <5>1. i - 1 \in 1 .. Len(t) /\ 1 + (i - 1) = i /\ (i - 1) + 1 = i
          BY <1>2, <3>1, <4>3, LenProperties
        <5>2. QED
          BY <3>4, <5>1
      <4>4. QED
        BY <4>2, <4>3
    <3>6. QED
      BY <3>1, <3>2, <3>3, <3>5, SeqEqual
  <2>4. (s \o <<Head(o)>>) \o Tail(o) = s \o (<<Head(o)>> \o Tail(o))
    BY <1>2, <2>2, ConcatAssociative
  <2>. HIDE <1>2
  <2>5. Events' = Events
    BY <1>3, <2>1, <2>2, <2>3, <2>4
  <2>6. QED
    BY <2>5
<1>6. QED
  BY <1>4, <1>5

\* The events stay and the history they may rest on stays.
LEMMA EventsKept ==
  ASSUME TypeOK, EventsInv, Len(Events') = Len(Events),
         \A i \in 1 .. Len(Events) : Events'[i] = Events[i],
         Classified => Classified' /\ history' = history
  PROVE  EventsInv'
<1>1. Len(Events) \in Nat
  BY EventsTyped
<1>2. CASE Classified
  BY <1>1, <1>2 DEF EventsInv
<1>3. CASE ~Classified
  <2>1. \A i \in 1 .. Len(Events') : Events'[i].kind = "audio"
    BY <1>3 DEF EventsInv
  <2>2. QED
    BY <2>1 DEF EventsInv
<1>4. QED
  BY <1>2, <1>3

LEMMA NextEventsInv == TypeInv /\ TypeInv' /\ EventsInv /\ [Next]_vars => EventsInv'
<1>. SUFFICES ASSUME TypeInv, TypeInv', EventsInv, [Next]_vars PROVE EventsInv'
  OBVIOUS
<1>0. TypeOK /\ TypeOK' /\ Len(Events) \in Nat /\ (Busy => worker.on \in Numbers)
  BY EventsTyped DEF TypeInv
<1>1. ASSUME UNCHANGED <<sent, outbound>>, Classified => Classified' /\ history' = history
      PROVE  EventsInv'
  <2>1. Events' = Events
    BY <1>1 DEF Events
  <2>2. QED
    BY <1>0, <1>1, <2>1, EventsKept
<1>2. CASE UNCHANGED vars
  BY <1>1, <1>2 DEF vars, Classified
<1>3. CASE BuildDetector \/ Hear \/ DispatchUtterance \/ PumpExits \/ HalfClose \/ Cancel
  BY <1>1, <1>3 DEF BuildDetector, Hear, DispatchUtterance, PumpExits, HalfClose, Cancel, Classified
<1>4. CASE Get \/ Skip \/ Transcribe \/ NextSentence \/ Finish \/ WorkerDies
  BY <1>1, <1>4 DEF Get, Skip, Transcribe, NextSentence, Finish, WorkerDies, Classified
<1>5. CASE Speak
  <2>1. ~Classified /\ Busy /\ history' = history /\ sent' = sent
    BY <1>5 DEF Speak, Classified, Busy
  <2>2. CASE UNCHANGED outbound
    BY <1>1, <2>1, <2>2
  <2>3. CASE Put([kind |-> "audio", utterance |-> worker.on])
    <3>1. PICK e \in Event : e = [kind |-> "audio", utterance |-> worker.on]
      BY <1>0, <2>1 DEF Event
    <3>2. /\ Len(Events') = Len(Events) + 1 /\ Events'[Len(Events) + 1] = e
          /\ \A i \in 1 .. Len(Events) : Events'[i] = Events[i]
      BY <1>0, <2>1, <2>3, <3>1, EventsPut
    <3>3. e.kind = "audio"
      BY <3>1
    <3>4. \A i \in 1 .. Len(Events') : Events'[i].kind = "audio"
      BY <1>0, <2>1, <3>2, <3>3 DEF EventsInv
    <3>5. QED
      BY <3>4 DEF EventsInv
  <2>4. QED
    BY <1>5, <2>2, <2>3 DEF Speak
<1>6. CASE EmitOutcome
  <2>1. ~Classified /\ history' = history /\ sent' = sent
    BY <1>6 DEF EmitOutcome, Classified
  <2>2. Classified'
    BY <1>6, WaitingAt, WaitingTyped DEF EmitOutcome, Classified, Workers
  <2>3. PICK e \in Event : e = [kind |-> "outcome", basis |-> history]
    BY <1>0 DEF Event, TypeOK
  <2>4. /\ Len(Events') = Len(Events) + 1 /\ Events'[Len(Events) + 1] = e
        /\ \A i \in 1 .. Len(Events) : Events'[i] = Events[i]
    BY <1>0, <1>6, <2>1, <2>3, EventsPut DEF EmitOutcome
  <2>5. e.basis = history
    BY <2>3
  <2>6. \A i \in 1 .. Len(Events) : Events'[i].kind = "audio"
    BY <2>1, <2>4 DEF EventsInv
  <2>7. ASSUME NEW i \in 1 .. Len(Events'), Events'[i].kind = "outcome"
        PROVE  i = Len(Events) + 1
    BY <1>0, <2>4, <2>6, <2>7
  <2>8. QED
    BY <1>0, <2>1, <2>2, <2>4, <2>5, <2>7 DEF EventsInv
<1>7. CASE PutShutdown
  <2>1. Classified /\ history' = history /\ sent' = sent
    BY <1>7 DEF PutShutdown, Classified
  <2>2. Classified'
    BY <1>7, WaitingAt, WaitingTyped DEF PutShutdown, Classified, Workers
  <2>3. PICK e \in Event : e = [kind |-> "SHUTDOWN"]
    BY DEF Event
  <2>4. /\ Len(Events') = Len(Events) + 1 /\ Events'[Len(Events) + 1] = e
        /\ \A i \in 1 .. Len(Events) : Events'[i] = Events[i]
    BY <1>0, <1>7, <2>1, <2>3, EventsPut DEF PutShutdown
  <2>5. e.kind = "SHUTDOWN"
    BY <2>3
  <2>6. ASSUME NEW i \in 1 .. Len(Events'), Events'[i].kind = "outcome"
        PROVE  /\ Events'[i].basis = history'
               /\ \A j \in i + 1 .. Len(Events') : Events'[j].kind = "SHUTDOWN"
    <3>1. i \in 1 .. Len(Events) /\ Events[i].kind = "outcome" /\ Events'[i] = Events[i]
      BY <1>0, <2>4, <2>5, <2>6
    <3>2. QED
      BY <1>0, <2>1, <2>4, <2>5, <3>1 DEF EventsInv
  <2>7. QED
    BY <2>2, <2>6 DEF EventsInv
<1>8. CASE Yield
  <2>1. history' = history /\ Classified' = Classified
    BY <1>8 DEF Yield, Classified
  <2>2. CASE Len(Events') = Len(Events) /\ \A i \in 1 .. Len(Events) : Events'[i] = Events[i]
    BY <1>0, <2>1, <2>2, EventsKept
  <2>3. ASSUME NEW k \in 1 .. Len(Events), Len(Events') = Len(Events) - 1,
               \A i \in 1 .. k - 1 : Events'[i] = Events[i],
               \A i \in k .. Len(Events') : Events'[i] = Events[i + 1]
        PROVE  EventsInv'
    <3>1. ASSUME ~Classified' PROVE \A i \in 1 .. Len(Events') : Events'[i].kind = "audio"
      BY <1>0, <2>1, <2>3, <3>1 DEF EventsInv
    <3>2. ASSUME NEW i \in 1 .. Len(Events'), Events'[i].kind = "outcome"
          PROVE  /\ Events'[i].basis = history'
                 /\ \A j \in i + 1 .. Len(Events') : Events'[j].kind = "SHUTDOWN"
      <4>1. PICK m \in 1 .. Len(Events) : /\ m = IF i < k THEN i ELSE i + 1
                                          /\ Events'[i] = Events[m]
        BY <1>0, <2>3
      <4>2. /\ Events[m].basis = history
            /\ \A j \in m + 1 .. Len(Events) : Events[j].kind = "SHUTDOWN"
        BY <3>2, <4>1 DEF EventsInv
      <4>3. ASSUME NEW j \in i + 1 .. Len(Events') PROVE Events'[j].kind = "SHUTDOWN"
        <5>1. PICK n \in 1 .. Len(Events) : /\ n = IF j < k THEN j ELSE j + 1
                                            /\ Events'[j] = Events[n]
          BY <1>0, <2>3
        <5>2. n \in m + 1 .. Len(Events)
          BY <1>0, <4>1, <5>1
        <5>3. QED
          BY <4>2, <5>1, <5>2
      <4>4. QED
        BY <2>1, <4>1, <4>2, <4>3
    <3>3. QED
      BY <3>1, <3>2 DEF EventsInv
  <2>4. QED
    BY <1>0, <1>8, <2>2, <2>3, EventsYield
<1>9. QED
  BY <1>2, <1>3, <1>4, <1>5, <1>6, <1>7, <1>8 DEF Next, Worker

(***************************************************************************)
(* The stream the client receives.                                         *)
(***************************************************************************)
\* Once the call is classified its outcome is among the events, and the shutdown never
\* comes before it.
ShutdownInv ==
  /\ Classified => \E i \in 1 .. Len(Events) : Events[i].kind = "outcome"
  /\ \A i \in 1 .. Len(Events) : Events[i].kind = "SHUTDOWN" =>
       \E j \in 1 .. i - 1 : Events[j].kind = "outcome"

\* One more event that is no early shutdown.
LEMMA ShutdownPut ==
  ASSUME TypeOK, ShutdownInv, NEW e \in Event, Put(e), sent' = sent,
         e.kind = "SHUTDOWN" => Classified,
         Classified' => Classified \/ e.kind = "outcome"
  PROVE  ShutdownInv'
<1>1. /\ Len(Events) \in Nat /\ Len(Events') = Len(Events) + 1
      /\ Events'[Len(Events) + 1] = e
      /\ \A i \in 1 .. Len(Events) : Events'[i] = Events[i]
  BY EventsPut, EventsTyped
<1>2. Classified' => \E i \in 1 .. Len(Events') : Events'[i].kind = "outcome"
  BY <1>1 DEF ShutdownInv
<1>3. ASSUME NEW i \in 1 .. Len(Events'), Events'[i].kind = "SHUTDOWN"
      PROVE  \E j \in 1 .. i - 1 : Events'[j].kind = "outcome"
  <2>1. CASE i = Len(Events) + 1
    <3>1. PICK j \in 1 .. Len(Events) : Events[j].kind = "outcome"
      BY <1>1, <1>3, <2>1 DEF ShutdownInv
    <3>2. QED
      BY <1>1, <2>1, <3>1
  <2>2. CASE i # Len(Events) + 1
    <3>1. i \in 1 .. Len(Events) /\ Events[i].kind = "SHUTDOWN"
      BY <1>1, <1>3, <2>2
    <3>2. PICK j \in 1 .. i - 1 : Events[j].kind = "outcome"
      BY <3>1 DEF ShutdownInv
    <3>3. QED
      BY <1>1, <3>1, <3>2
  <2>3. QED
    BY <2>1, <2>2
<1>4. QED
  BY <1>2, <1>3 DEF ShutdownInv

\* The events stay.
LEMMA ShutdownKept ==
  ASSUME TypeOK, ShutdownInv, Len(Events') = Len(Events),
         \A i \in 1 .. Len(Events) : Events'[i] = Events[i], Classified' => Classified
  PROVE  ShutdownInv'
<1>1. Len(Events) \in Nat
  BY EventsTyped
<1>2. QED
  BY <1>1 DEF ShutdownInv

LEMMA NextShutdownInv == TypeInv /\ ShutdownInv /\ [Next]_vars => ShutdownInv'
<1>. SUFFICES ASSUME TypeInv, ShutdownInv, [Next]_vars PROVE ShutdownInv'
  OBVIOUS
<1>0. TypeOK /\ Len(Events) \in Nat /\ (Busy => worker.on \in Numbers)
  BY EventsTyped DEF TypeInv
<1>1. ASSUME UNCHANGED <<sent, outbound>>, Classified' => Classified PROVE ShutdownInv'
  <2>1. Events' = Events
    BY <1>1 DEF Events
  <2>2. QED
    BY <1>0, <1>1, <2>1, ShutdownKept
<1>2. CASE UNCHANGED vars
  BY <1>1, <1>2 DEF vars, Classified
<1>3. CASE BuildDetector \/ Hear \/ DispatchUtterance \/ PumpExits \/ HalfClose \/ Cancel
  BY <1>1, <1>3 DEF BuildDetector, Hear, DispatchUtterance, PumpExits, HalfClose, Cancel,
     Classified
<1>4. CASE Get
  BY <1>0, <1>1, <1>4, GetEffect DEF Get, WorkerAt, Classified
<1>5. CASE Skip \/ Finish
  BY <1>1, <1>5, WaitingTyped DEF Skip, Finish, Classified
<1>6. CASE Transcribe \/ NextSentence \/ WorkerDies
  <2>1. worker \in Workers
    BY <1>0, WorkerTyped
  <2>2. ~Classified'
    BY <1>6, <2>1 DEF Transcribe, NextSentence, WorkerDies, Workers, Classified
  <2>3. QED
    BY <1>1, <1>6, <2>2 DEF Transcribe, NextSentence, WorkerDies
<1>7. CASE Speak
  <2>1. Busy /\ sent' = sent /\ ~Classified'
    BY <1>0, <1>7, WorkerTyped DEF Speak, Busy, Workers, Classified
  <2>2. CASE UNCHANGED outbound
    BY <1>1, <2>1, <2>2
  <2>3. CASE Put([kind |-> "audio", utterance |-> worker.on])
    <3>1. PICK e \in Event : e = [kind |-> "audio", utterance |-> worker.on]
      BY <1>0, <2>1 DEF Event
    <3>2. e.kind = "audio" /\ Put(e)
      BY <2>3, <3>1
    <3>3. QED
      BY <1>0, <2>1, <3>2, ShutdownPut
  <2>4. QED
    BY <1>7, <2>2, <2>3 DEF Speak
<1>8. CASE EmitOutcome
  <2>1. PICK e \in Event : e = [kind |-> "outcome", basis |-> history]
    BY <1>0 DEF Event, TypeOK
  <2>2. e.kind = "outcome" /\ Put(e) /\ sent' = sent
    BY <1>8, <2>1 DEF EmitOutcome
  <2>3. QED
    BY <1>0, <2>2, ShutdownPut
<1>9. CASE PutShutdown
  <2>1. PICK e \in Event : e = [kind |-> "SHUTDOWN"]
    BY DEF Event
  <2>2. e.kind = "SHUTDOWN" /\ Put(e) /\ sent' = sent /\ Classified
    BY <1>9, <2>1 DEF PutShutdown, Classified
  <2>3. QED
    BY <1>0, <2>2, ShutdownPut
<1>10. CASE Yield
  <2>1. Classified' = Classified
    BY <1>10 DEF Yield, Classified
  <2>2. CASE Len(Events') = Len(Events) /\ \A i \in 1 .. Len(Events) : Events'[i] = Events[i]
    BY <1>0, <2>1, <2>2, ShutdownKept
  <2>3. ASSUME NEW k \in 1 .. Len(Events), Events[k].kind = "SHUTDOWN",
               Len(Events') = Len(Events) - 1,
               \A i \in 1 .. k - 1 : Events'[i] = Events[i],
               \A i \in k .. Len(Events') : Events'[i] = Events[i + 1]
        PROVE  ShutdownInv'
    <3>1. ASSUME NEW m \in 1 .. Len(Events), Events[m].kind = "outcome"
          PROVE  \E i \in 1 .. Len(Events') : /\ i = IF m < k THEN m ELSE m - 1
                                              /\ Events'[i].kind = "outcome"
      <4>1. m # k
        BY <2>3, <3>1
      <4>2. CASE m < k
        BY <1>0, <2>3, <3>1, <4>2
      <4>3. CASE m > k
        <5>1. m - 1 \in k .. Len(Events') /\ m - 1 \in 1 .. Len(Events') /\ (m - 1) + 1 = m
          BY <1>0, <2>3, <4>3
        <5>2. Events'[m - 1] = Events[m]
          BY <2>3, <5>1
        <5>3. QED
          BY <3>1, <4>3, <5>1, <5>2
      <4>4. QED
        BY <4>1, <4>2, <4>3
    <3>2. Classified' => \E i \in 1 .. Len(Events') : Events'[i].kind = "outcome"
      BY <2>1, <3>1 DEF ShutdownInv
    <3>3. ASSUME NEW i \in 1 .. Len(Events'), Events'[i].kind = "SHUTDOWN"
          PROVE  \E j \in 1 .. i - 1 : Events'[j].kind = "outcome"
      <4>1. PICK n \in 1 .. Len(Events) : /\ n = IF i < k THEN i ELSE i + 1
                                          /\ Events'[i] = Events[n]
        BY <1>0, <2>3
      <4>2. PICK m \in 1 .. n - 1 : Events[m].kind = "outcome"
        BY <3>3, <4>1 DEF ShutdownInv
      <4>3. m \in 1 .. Len(Events) /\ m # k
        BY <1>0, <2>3, <4>1, <4>2
      <4>4. PICK j \in 1 .. Len(Events') : /\ j = IF m < k THEN m ELSE m - 1
                                           /\ Events'[j].kind = "outcome"
        BY <3>1, <4>2, <4>3
      <4>5. j \in 1 .. i - 1
        BY <4>1, <4>2, <4>3, <4>4
      <4>6. QED
        BY <4>4, <4>5
    <3>4. QED
      BY <3>2, <3>3 DEF ShutdownInv
  <2>4. QED
    BY <1>0, <1>10, <2>2, <2>3, EventsYield
<1>11. QED
  BY <1>2, <1>3, <1>4, <1>5, <1>6, <1>7, <1>8, <1>9, <1>10 DEF Next, Worker

\* The event about to be yielded, among all events.
LEMMA HeadOfEvents ==
  ASSUME TypeOK, outbound # <<>>
  PROVE  /\ Head(outbound) \in Event /\ Len(sent) \in Nat
         /\ Len(sent) + 1 \in 1 .. Len(Events) /\ Events[Len(sent) + 1] = Head(outbound)
         /\ \A i \in 1 .. Len(sent) : Events[i] = sent[i]
<1>1. PICK s \in Seq(Event), o \in Seq(Event) : s = sent /\ o = outbound
  BY DEF TypeOK
<1>2. o # <<>> /\ Head(o) \in Event /\ Head(o) = o[1] /\ 1 \in 1 .. Len(o)
  BY <1>1, HeadTailProperties, EmptySeq, LenProperties
<1>3. /\ Len(s) \in Nat /\ Len(s \o o) = Len(s) + Len(o) /\ Len(o) \in Nat
      /\ \A i \in 1 .. Len(s) : (s \o o)[i] = s[i]
      /\ (s \o o)[Len(s) + 1] = o[1]
  BY <1>2, ConcatPoints
<1>4. QED
  BY <1>1, <1>2, <1>3 DEF Events

LEMMA NextStream ==
  ASSUME TypeInv, EventsInv, ShutdownInv, [Next]_vars
  PROVE  [Stream!Next]_(Stream!vars)
<1>1. CASE UNCHANGED <<sent, stream>>
  BY <1>1 DEF Stream!vars, OutcomeSent
<1>2. CASE Yield
  <2>1. TypeOK /\ stream = "open" /\ outbound # <<>>
    BY <1>2 DEF TypeInv, Yield
  <2>2. /\ Head(outbound) \in Event /\ Len(sent) \in Nat
        /\ Len(sent) + 1 \in 1 .. Len(Events) /\ Events[Len(sent) + 1] = Head(outbound)
        /\ \A i \in 1 .. Len(sent) : Events[i] = sent[i]
    BY <2>1, HeadOfEvents
  <2>3. CASE Head(outbound).kind = "SHUTDOWN"
    <3>1. stream' = "ended" /\ sent' = sent
      BY <1>2, <2>3 DEF Yield
    <3>2. PICK j \in 1 .. (Len(sent) + 1) - 1 : Events[j].kind = "outcome"
      BY <2>2, <2>3 DEF ShutdownInv
    <3>3. OutcomeSent /\ OutcomeSent'
      BY <2>2, <3>1, <3>2 DEF OutcomeSent
    <3>4. Stream!End
      BY <2>1, <3>1, <3>3 DEF Stream!End
    <3>5. QED
      BY <3>4 DEF Stream!Next
  <2>4. CASE Head(outbound).kind # "SHUTDOWN"
    <3>1. stream' = "open" /\ sent' = Append(sent, Head(outbound))
      BY <1>2, <2>1, <2>4 DEF Yield
    <3>2. /\ Len(sent') = Len(sent) + 1 /\ sent'[Len(sent) + 1] = Head(outbound)
          /\ \A i \in 1 .. Len(sent) : sent'[i] = sent[i]
      BY <2>1, <2>2, <3>1, AppendProperties DEF TypeOK
    <3>3. ~OutcomeSent
      <4>1. ASSUME NEW i \in 1 .. Len(sent), sent[i].kind = "outcome" PROVE FALSE
        <5>1. i \in 1 .. Len(Events) /\ Events[i].kind = "outcome"
              /\ Len(sent) + 1 \in i + 1 .. Len(Events)
          BY <2>2, <4>1
        <5>2. Events[Len(sent) + 1].kind = "SHUTDOWN"
          BY <5>1 DEF EventsInv
        <5>3. QED
          BY <2>2, <2>4, <5>2
      <4>2. QED
        BY <4>1 DEF OutcomeSent
    <3>4. OutcomeSent' <=> Head(outbound).kind = "outcome"
      <4>1. \A i \in 1 .. Len(sent) : sent'[i].kind # "outcome"
        BY <3>2, <3>3 DEF OutcomeSent
      <4>2. QED
        BY <2>2, <3>2, <4>1 DEF OutcomeSent
    <3>5. CASE Head(outbound).kind = "outcome"
      <4>1. Stream!Classify
        BY <2>1, <2>2, <3>1, <3>2, <3>3, <3>4, <3>5 DEF Stream!Classify
      <4>2. QED
        BY <4>1 DEF Stream!Next
    <3>6. CASE Head(outbound).kind # "outcome"
      <4>1. Stream!Speak
        BY <2>1, <2>2, <3>1, <3>2, <3>3, <3>4, <3>6 DEF Stream!Speak
      <4>2. QED
        BY <4>1 DEF Stream!Next
    <3>7. QED
      BY <3>5, <3>6
  <2>5. QED
    BY <2>3, <2>4
<1>3. CASE ~Yield
  BY <1>1, <1>3 DEF Next, Worker, vars, BuildDetector, Hear, DispatchUtterance, PumpExits, Get,
     Skip, Transcribe, NextSentence, Speak, Finish, EmitOutcome, PutShutdown, WorkerDies,
     HalfClose, Cancel
<1>4. QED
  BY <1>2, <1>3

(***************************************************************************)
(* The queue of utterances and what became of those that left it.          *)
(***************************************************************************)
Ended == worker.at \in {"classify", "shutdown", "exited"}

\* Utterances in the queue, the STOP at its end not counted.
Pending == IF Ended THEN 0
           ELSE IF pump = "exited" THEN Len(utterances) - 1 ELSE Len(utterances)

QueueInv ==
  /\ Ended => pump = "exited" /\ utterances = <<>>
  /\ ~Ended /\ pump = "exited" => Len(utterances) > 0 /\ utterances[Len(utterances)] = STOP
  /\ Pending \in 0 .. spoken
  /\ \A i \in 1 .. Pending : utterances[i] = spoken - Pending + i

Turns == {answered[j] : j \in 1 .. Len(answered)}

\* Every utterance that left the queue is settled, or is the one in work.
SettledInv ==
  1 .. spoken - Pending = skipped \cup Turns \cup (IF Busy THEN {worker.on} ELSE {})

\* A worker that died settles nothing any more.
DeliveryInv == worker.at # "dead" => QueueInv /\ SettledInv

LEMMA DeliveryKept ==
  ASSUME DeliveryInv, UNCHANGED <<spoken, pump, utterances, answered, skipped>>,
         worker'.at # "dead" => /\ worker.at # "dead" /\ Ended' = Ended /\ Busy' = Busy
                                /\ Busy => worker'.on = worker.on
  PROVE  DeliveryInv'
<1>. SUFFICES ASSUME worker'.at # "dead" PROVE QueueInv' /\ SettledInv'
  BY DEF DeliveryInv
<1>1. QueueInv /\ SettledInv /\ Ended' = Ended /\ Busy' = Busy /\ Turns' = Turns
  BY DEF DeliveryInv, Turns
<1>2. Pending' = Pending
  BY <1>1 DEF Pending
<1>3. QED
  BY <1>1, <1>2 DEF QueueInv, SettledInv

LEMMA StartKept ==
  ASSUME TypeInv, DeliveryInv, BuildDetector
  PROVE  DeliveryInv'
<1>. SUFFICES ASSUME worker'.at # "dead" PROVE QueueInv' /\ SettledInv'
  BY DEF DeliveryInv
<1>1. /\ QueueInv /\ SettledInv /\ ~Ended /\ Ended' = Ended /\ Busy' = Busy
      /\ pump # "exited" /\ pump' # "exited" /\ Turns' = Turns
      /\ UNCHANGED <<worker, spoken, utterances, skipped>>
  BY DEF BuildDetector, DeliveryInv, QueueInv, Ended, Busy, Turns
<1>2. Pending' = Pending
  BY <1>1 DEF Pending
<1>3. QED
  BY <1>1, <1>2 DEF QueueInv, SettledInv

LEMMA DispatchKept ==
  ASSUME TypeInv, DeliveryInv, DispatchUtterance
  PROVE  DeliveryInv'
<1>. SUFFICES ASSUME worker'.at # "dead" PROVE QueueInv' /\ SettledInv'
  BY DEF DeliveryInv
<1>1. /\ QueueInv /\ SettledInv /\ pump = "reading" /\ pump' = "reading" /\ ~Ended /\ ~Ended'
      /\ Busy' = Busy /\ worker' = worker /\ Turns' = Turns /\ skipped' = skipped
      /\ spoken' = spoken + 1 /\ spoken \in Nat /\ utterances' = Append(utterances, spoken + 1)
  BY DEF DispatchUtterance, DeliveryInv, QueueInv, Ended, Busy, Turns, TypeInv, TypeOK
<1>2. /\ utterances \in Seq(0 .. MaxUtterances) /\ Len(utterances) \in Nat
      /\ spoken + 1 \in 0 .. MaxUtterances
  BY LenProperties, EngineAssumption DEF DispatchUtterance, TypeInv, TypeOK
<1>3. /\ Len(utterances') = Len(utterances) + 1
      /\ \A i \in 1 .. Len(utterances) : utterances'[i] = utterances[i]
      /\ utterances'[Len(utterances) + 1] = spoken + 1
  BY <1>1, <1>2, AppendProperties
<1>4. Pending = Len(utterances) /\ Pending' = Len(utterances) + 1
  BY <1>1, <1>3 DEF Pending
<1>5. QueueInv'
  BY <1>1, <1>2, <1>3, <1>4 DEF QueueInv
<1>6. spoken' - Pending' = spoken - Pending
  BY <1>1, <1>2, <1>4
<1>7. QED
  BY <1>1, <1>5, <1>6 DEF SettledInv

LEMMA ExitKept ==
  ASSUME TypeInv, DeliveryInv, PumpExits
  PROVE  DeliveryInv'
<1>. SUFFICES ASSUME worker'.at # "dead" PROVE QueueInv' /\ SettledInv'
  BY DEF DeliveryInv
<1>1. /\ QueueInv /\ SettledInv /\ pump = "reading" /\ pump' = "exited" /\ ~Ended /\ ~Ended'
      /\ Busy' = Busy /\ worker' = worker /\ Turns' = Turns /\ skipped' = skipped
      /\ spoken' = spoken /\ spoken \in Nat /\ utterances' = Append(utterances, STOP)
  BY DEF PumpExits, Stop, DeliveryInv, QueueInv, Ended, Busy, Turns, TypeInv, TypeOK
<1>2. /\ utterances \in Seq(0 .. MaxUtterances) /\ Len(utterances) \in Nat
      /\ STOP \in 0 .. MaxUtterances
  BY LenProperties, EngineAssumption DEF STOP, TypeInv, TypeOK
<1>3. /\ Len(utterances') = Len(utterances) + 1
      /\ \A i \in 1 .. Len(utterances) : utterances'[i] = utterances[i]
      /\ utterances'[Len(utterances) + 1] = STOP
  BY <1>1, <1>2, AppendProperties
<1>4. Pending = Len(utterances) /\ Pending' = Len(utterances)
  BY <1>1, <1>2, <1>3 DEF Pending
<1>5. QueueInv'
  BY <1>1, <1>2, <1>3, <1>4 DEF QueueInv
<1>6. QED
  BY <1>1, <1>4, <1>5 DEF SettledInv

LEMMA GetKept ==
  ASSUME TypeInv, DeliveryInv, Get
  PROVE  DeliveryInv'
<1>1. /\ QueueInv /\ SettledInv /\ ~Ended /\ ~Busy /\ pump' = pump /\ Turns' = Turns
      /\ skipped' = skipped /\ spoken' = spoken /\ spoken \in Nat
  BY DEF Get, DeliveryInv, Ended, Busy, Turns, TypeInv, TypeOK
<1>2. /\ Len(utterances') = Len(utterances) - 1 /\ Len(utterances) \in Nat \ {0}
      /\ \A i \in 1 .. Len(utterances') : utterances'[i] = utterances[i + 1]
      /\ Head(utterances) = utterances[1]
      /\ utterances' \in Seq(0 .. MaxUtterances)
      /\ Head(utterances) = STOP => worker'.at = "classify"
      /\ Head(utterances) # STOP => worker'.at = "transcribe" /\ worker'.on = Head(utterances)
  BY GetEffect DEF TypeInv, WorkerAt
<1>3. CASE Head(utterances) = STOP
  <2>1. Pending = 0
    BY <1>1, <1>2, <1>3 DEF QueueInv, STOP
  <2>2. pump = "exited" /\ Len(utterances) = 1
    BY <1>1, <1>2, <2>1 DEF Pending
  <2>3. Ended' /\ ~Busy' /\ Pending' = 0
    BY <1>2, <1>3 DEF Ended, Busy, Pending
  <2>4. utterances' = <<>>
    BY <1>2, <2>2, EmptySeq
  <2>5. QueueInv'
    BY <1>1, <2>2, <2>3, <2>4 DEF QueueInv
  <2>6. SettledInv'
    BY <1>1, <2>1, <2>3 DEF SettledInv
  <2>7. QED
    BY <2>5, <2>6 DEF DeliveryInv
<1>4. CASE Head(utterances) # STOP
  <2>1. ~Ended' /\ Busy' /\ worker'.on = utterances[1]
    BY <1>2, <1>4 DEF Ended, Busy
  <2>2. Pending >= 1 /\ Pending \in 0 .. spoken
    <3>1. Pending \in 0 .. spoken
      BY <1>1 DEF QueueInv
    <3>2. ASSUME Pending = 0 PROVE FALSE
      <4>1. pump = "exited" /\ Len(utterances) = 1
        BY <1>1, <1>2, <3>2 DEF Pending
      <4>2. QED
        BY <1>1, <1>2, <1>4, <4>1 DEF QueueInv
    <3>3. QED
      BY <1>1, <3>1, <3>2
  <2>3. Pending' = Pending - 1
    BY <1>1, <1>2, <2>1 DEF Pending
  <2>4. PICK p \in 1 .. spoken : p = Pending
    BY <1>1, <2>2
  <2>5. p <= Len(utterances) /\ \A i \in 1 .. p : utterances[i] = spoken - p + i
    <3>1. p <= Len(utterances)
      BY <1>1, <1>2, <2>4 DEF Pending
    <3>2. \A i \in 1 .. p : utterances[i] = spoken - p + i
      BY <1>1, <2>4 DEF QueueInv
    <3>3. QED
      BY <3>1, <3>2
  <2>6. \A i \in 1 .. p - 1 : utterances'[i] = spoken - (p - 1) + i
    <3>1. TAKE i \in 1 .. p - 1
    <3>2. i \in 1 .. Len(utterances') /\ i + 1 \in 1 .. p
      BY <1>2, <2>5
    <3>3. utterances'[i] = spoken - p + (i + 1)
      BY <1>2, <2>5, <3>2
    <3>4. QED
      BY <1>1, <3>3
  <2>7. ASSUME pump = "exited"
        PROVE  Len(utterances') > 0 /\ utterances'[Len(utterances')] = STOP
    <3>1. p = Len(utterances) - 1 /\ utterances[Len(utterances)] = STOP
      BY <1>1, <2>4, <2>7 DEF Pending, QueueInv
    <3>2. Len(utterances') \in 1 .. Len(utterances') /\ Len(utterances') + 1 = Len(utterances)
      BY <1>1, <1>2, <3>1
    <3>3. QED
      BY <1>2, <3>1, <3>2
  <2>8. QueueInv'
    <3>1. Pending' = p - 1 /\ p - 1 \in 0 .. spoken
      BY <1>1, <2>3, <2>4
    <3>2. QED
      BY <1>1, <2>1, <2>6, <2>7, <3>1 DEF QueueInv
  <2>9. SettledInv'
    <3>1. 1 .. spoken - p = skipped \cup Turns
      BY <1>1, <2>4 DEF SettledInv
    <3>2. worker'.on = spoken - p + 1 /\ spoken' - Pending' = spoken - p + 1
      BY <1>1, <2>1, <2>3, <2>4, <2>5
    <3>3. 1 .. spoken - p + 1 = (1 .. spoken - p) \cup {spoken - p + 1}
      BY <1>1
    <3>4. QED
      BY <1>1, <2>1, <3>1, <3>2, <3>3 DEF SettledInv
  <2>10. QED
    BY <2>8, <2>9 DEF DeliveryInv
<1>5. QED
  BY <1>3, <1>4

\* The utterance in work is settled: given up or answered.
LEMMA DoneKept ==
  ASSUME TypeInv, DeliveryInv, Busy, WorkerAt("get"), UNCHANGED <<spoken, pump, utterances>>,
         skipped' \cup Turns' = skipped \cup Turns \cup {worker.on}
  PROVE  DeliveryInv'
<1>1. QueueInv /\ SettledInv /\ ~Ended /\ ~Ended' /\ ~Busy'
  BY DEF DeliveryInv, Busy, Ended, WorkerAt
<1>2. Pending' = Pending
  BY <1>1 DEF Pending
<1>3. QED
  BY <1>1, <1>2 DEF QueueInv, SettledInv, DeliveryInv

LEMMA NextDeliveryInv == TypeInv /\ TypeInv' /\ DeliveryInv /\ [Next]_vars => DeliveryInv'
<1>. SUFFICES ASSUME TypeInv, TypeInv', DeliveryInv, [Next]_vars PROVE DeliveryInv'
  OBVIOUS
<1>0. TypeOK /\ worker \in Workers
  BY WorkerTyped DEF TypeInv
<1>1. CASE UNCHANGED vars
  BY <1>1, DeliveryKept DEF vars, Ended, Busy
<1>2. CASE Hear \/ HalfClose \/ Cancel \/ Yield
  BY <1>2, DeliveryKept DEF Hear, HalfClose, Cancel, Yield, Ended, Busy
<1>3. CASE DispatchUtterance
  BY <1>3, DispatchKept
<1>4. CASE PumpExits
  BY <1>4, ExitKept
<1>5. CASE Get
  BY <1>5, GetKept
<1>6. CASE Skip
  <2>1. Busy /\ WorkerAt("get") /\ skipped' = skipped \cup {worker.on} /\ Turns' = Turns
    BY <1>6, WaitingTyped DEF Skip, Busy, WorkerAt, Turns
  <2>2. QED
    BY <1>6, <2>1, DoneKept DEF Skip
<1>7. CASE Finish
  <2>1. /\ WorkerAt("get") /\ Len(answered') = Len(answered) + 1 /\ Len(answered) \in Nat
        /\ \A i \in 1 .. Len(answered) : answered'[i] = answered[i]
        /\ answered'[Len(answered) + 1] = worker.on
    BY <1>0, <1>7, FinishEffect, LenProperties DEF TypeOK
  <2>2. Turns' = Turns \cup {worker.on}
    BY <2>1 DEF Turns
  <2>3. QED
    BY <1>7, <2>1, <2>2, DoneKept DEF Finish, Busy
<1>8. CASE Transcribe
  <2>1. WorkerAt("answer") /\ worker'.on = worker.on /\ worker.at = "transcribe"
    BY <1>0, <1>8, WorkerMoves DEF Transcribe, Ats
  <2>2. QED
    BY <1>8, <2>1, DeliveryKept DEF Transcribe, WorkerAt, Ended, Busy
<1>9. CASE NextSentence
  <2>1. worker'.at = "speak" /\ worker'.on = worker.on /\ worker.at = "answer"
    BY <1>0, <1>9 DEF NextSentence, Workers
  <2>2. QED
    BY <1>9, <2>1, DeliveryKept DEF NextSentence, Ended, Busy
<1>10. CASE Speak
  <2>1. WorkerAt("answer") /\ worker'.on = worker.on /\ worker.at = "speak"
    BY <1>0, <1>10, WorkerMoves DEF Speak, Ats
  <2>2. QED
    BY <1>10, <2>1, DeliveryKept DEF Speak, WorkerAt, Ended, Busy
<1>11. CASE EmitOutcome
  <2>1. worker'.at = "shutdown" /\ worker.at = "classify"
    BY <1>11, WaitingAt, WaitingTyped DEF EmitOutcome, Workers
  <2>2. QED
    BY <1>11, <2>1, DeliveryKept DEF EmitOutcome, Ended, Busy
<1>12. CASE PutShutdown
  <2>1. worker'.at = "exited" /\ worker.at = "shutdown"
    BY <1>12, WaitingAt, WaitingTyped DEF PutShutdown, Workers
  <2>2. QED
    BY <1>12, <2>1, DeliveryKept DEF PutShutdown, Ended, Busy
<1>13. CASE WorkerDies
  BY <1>0, <1>13, WorkerMoves DEF WorkerDies, WorkerAt, Ats, DeliveryInv
<1>14. CASE BuildDetector
  BY <1>14, StartKept
<1>15. QED
  BY <1>1, <1>2, <1>3, <1>4, <1>5, <1>6, <1>7, <1>8, <1>9, <1>10, <1>11, <1>12, <1>13, <1>14
  DEF Next, Worker

(***************************************************************************)
(* The conversation the classifier reads.                                  *)
(***************************************************************************)
Latest(turns, all) ==
  /\ Len(turns) = IF Len(all) < HistoryTurns THEN Len(all) ELSE HistoryTurns
  /\ \A j \in 1 .. Len(turns) : turns[j] = all[Len(all) - Len(turns) + j]

HistoryInv == Latest(history, answered)

LEMMA LatestKept ==
  ASSUME NEW turns \in Seq(Numbers), NEW all \in Seq(Numbers), NEW on \in Numbers,
         Latest(turns, all)
  PROVE  Latest(LastTurns(Append(turns, on)), Append(all, on))
<1>1. PICK more \in Seq(Numbers) : more = Append(turns, on)
  BY AppendProperties
<1>2. PICK then \in Seq(Numbers) : then = Append(all, on)
  BY AppendProperties
<1>3. PICK last \in Seq(Numbers) : last = LastTurns(more)
  BY LastTurnsProperties
<1>4. /\ Len(turns) \in Nat /\ Len(all) \in Nat /\ HistoryTurns \in Nat \ {0}
      /\ Len(more) = Len(turns) + 1 /\ Len(then) = Len(all) + 1
      /\ more[Len(turns) + 1] = on /\ then[Len(all) + 1] = on
  BY <1>1, <1>2, AppendProperties, LenProperties, EngineAssumption
<1>5. /\ \A i \in 1 .. Len(turns) : more[i] = turns[i]
      /\ \A i \in 1 .. Len(all) : then[i] = all[i]
  BY <1>1, <1>2, AppendProperties
<1>6. /\ Len(last) = IF Len(more) > HistoryTurns THEN HistoryTurns ELSE Len(more)
      /\ \A i \in 1 .. Len(last) : last[i] = more[Len(more) - Len(last) + i]
  BY <1>3, LastTurnsProperties
<1>7. /\ Len(turns) = IF Len(all) < HistoryTurns THEN Len(all) ELSE HistoryTurns
      /\ \A j \in 1 .. Len(turns) : turns[j] = all[Len(all) - Len(turns) + j]
  BY DEF Latest
<1>8. Len(last) = IF Len(then) < HistoryTurns THEN Len(then) ELSE HistoryTurns
  BY <1>4, <1>6, <1>7
<1>9. ASSUME NEW j \in 1 .. Len(last) PROVE last[j] = then[Len(then) - Len(last) + j]
  <2>1. Len(last) \in 1 .. Len(more) /\ last[j] = more[Len(more) - Len(last) + j]
    <3>1. last[j] = more[Len(more) - Len(last) + j]
      BY <1>6
    <3>2. Len(last) = IF Len(more) > HistoryTurns THEN HistoryTurns ELSE Len(more)
      BY <1>6
    <3>3. Len(last) \in 1 .. Len(more)
      BY <1>4, <3>2
    <3>4. QED
      BY <3>1, <3>3
  <2>2. CASE j = Len(last)
    <3>1. Len(more) - Len(last) + j = Len(turns) + 1 /\ Len(then) - Len(last) + j = Len(all) + 1
      BY <1>4, <2>1, <2>2
    <3>2. QED
      BY <1>4, <2>1, <3>1
  <2>3. CASE j # Len(last)
    <3>1. PICK i \in 1 .. Len(turns) : i = Len(more) - Len(last) + j
      <4>1. Len(more) - Len(last) + j \in 1 .. Len(turns)
        BY <1>4, <2>1, <2>3
      <4>2. QED
        BY <4>1
    <3>2. last[j] = all[Len(all) - Len(turns) + i]
      BY <1>5, <1>7, <2>1, <3>1
    <3>3. /\ Len(all) - Len(turns) + i = Len(then) - Len(last) + j
          /\ Len(all) - Len(turns) + i \in 1 .. Len(all)
      <4>1. Len(all) - Len(turns) + i = Len(then) - Len(last) + j
        BY <1>4, <2>1, <3>1
      <4>2. Len(turns) <= Len(all)
        BY <1>4, <1>7
      <4>3. QED
        BY <1>4, <4>1, <4>2
    <3>4. QED
      BY <1>5, <3>2, <3>3
  <2>4. QED
    BY <2>2, <2>3
<1>10. Latest(last, then)
  BY <1>8, <1>9 DEF Latest
<1>11. QED
  BY <1>1, <1>2, <1>3, <1>10

LEMMA NextHistoryInv == TypeInv /\ HistoryInv /\ [Next]_vars => HistoryInv'
<1>. SUFFICES ASSUME TypeInv, HistoryInv, [Next]_vars PROVE HistoryInv'
  OBVIOUS
<1>1. CASE Finish
  <2>1. /\ worker.on \in Numbers /\ history \in Seq(Numbers) /\ answered \in Seq(Numbers)
        /\ history' = LastTurns(Append(history, worker.on))
        /\ answered' = Append(answered, worker.on)
    BY <1>1 DEF Finish, TypeInv, TypeOK, Busy
  <2>2. Latest(LastTurns(Append(history, worker.on)), Append(answered, worker.on))
    BY <2>1, LatestKept DEF HistoryInv
  <2>3. QED
    BY <2>1, <2>2 DEF HistoryInv
<1>2. CASE ~Finish
  <2>1. UNCHANGED <<history, answered>>
    BY <1>2 DEF Next, Worker, vars, Hear, DispatchUtterance, PumpExits, Get, Skip, Transcribe,
                NextSentence, Speak, EmitOutcome, PutShutdown, WorkerDies, Yield, HalfClose,
                Cancel, BuildDetector
  <2>2. QED
    BY <2>1 DEF HistoryInv, Latest
<1>3. QED
  BY <1>1, <1>2

(***************************************************************************)
(* The theorems.                                                           *)
(***************************************************************************)
EngineInv == TypeInv /\ EventsInv /\ ShutdownInv /\ DeliveryInv /\ HistoryInv

LEMMA InitEngineInv == Init => EngineInv
<1>. SUFFICES ASSUME Init PROVE EngineInv
  OBVIOUS
<1>1. TypeInv /\ Len(<<>>) = 0 /\ worker.at = "get" /\ HistoryTurns \in Nat \ {0}
  BY InitTypeInv, WaitingTyped, EmptySeq, EngineAssumption DEF Init
<1>2. ~Ended /\ ~Busy /\ ~Classified
  BY <1>1 DEF Ended, Busy, Classified
<1>3. EventsInv /\ ShutdownInv
  <2>1. Events = <<>> \o <<>> /\ <<>> \in Seq(Event)
    BY EmptySeq DEF Init, Events
  <2>2. Len(Events) = 0
    BY <1>1, <2>1, ConcatPoints
  <2>3. QED
    BY <1>2, <2>2 DEF EventsInv, ShutdownInv
<1>4. DeliveryInv
  <2>1. Pending = 0 /\ spoken = 0 /\ skipped = {} /\ Turns = {} /\ pump = "starting"
    BY <1>1, <1>2 DEF Init, Pending, Turns
  <2>2. QueueInv
    BY <1>2, <2>1 DEF QueueInv
  <2>3. SettledInv
    BY <1>2, <2>1 DEF SettledInv
  <2>4. QED
    BY <2>2, <2>3 DEF DeliveryInv
<1>5. HistoryInv
  BY <1>1 DEF Init, HistoryInv, Latest
<1>6. QED
  BY <1>1, <1>3, <1>4, <1>5 DEF EngineInv

LEMMA NextEngineInv == EngineInv /\ [Next]_vars => EngineInv'
BY NextTypeInv, NextEventsInv, NextShutdownInv, NextDeliveryInv, NextHistoryInv DEF EngineInv

LEMMA OutcomeClassified ==
  ASSUME EngineInv, NEW i \in 1 .. Len(Events), Events[i].kind = "outcome"
  PROVE  Classified
BY DEF EngineInv, EventsInv

LEMMA EngineInvIsSafe == EngineInv => OutcomeIsLast /\ BasisIsLatest
<1>. SUFFICES ASSUME EngineInv PROVE OutcomeIsLast /\ BasisIsLatest
  OBVIOUS
<1>1. ASSUME NEW i \in 1 .. Len(Events), Events[i].kind = "outcome"
      PROVE  1 .. spoken = skipped \cup Turns
  <2>1. worker.at # "dead" /\ Ended /\ ~Busy
    BY <1>1, OutcomeClassified DEF Classified, Ended, Busy
  <2>2. SettledInv /\ Pending = 0 /\ spoken \in Nat
    BY <2>1 DEF EngineInv, DeliveryInv, Pending, TypeInv, TypeOK
  <2>3. QED
    BY <2>1, <2>2 DEF SettledInv
<1>2. OutcomeIsLast
  BY <1>1 DEF OutcomeIsLast, EngineInv, EventsInv, Turns
<1>3. BasisIsLatest
  <2>1. ASSUME NEW i \in 1 .. Len(Events), Events[i].kind = "outcome"
        PROVE  Events[i].basis = history
    BY <2>1 DEF EngineInv, EventsInv
  <2>2. QED
    BY <2>1 DEF BasisIsLatest, EngineInv, HistoryInv, Latest
<1>4. QED
  BY <1>2, <1>3

LEMMA EngineInvHolds == Spec => []EngineInv
BY InitEngineInv, NextEngineInv, PTL DEF Spec

\* The outcome is announced after everything else: when it is on its way every
\* utterance of the call was answered or given up, and no audio comes behind it.
THEOREM OutcomeComesLast == Spec => []OutcomeIsLast
BY EngineInvHolds, EngineInvIsSafe, PTL

\* The outcome is judged on the latest turns of the conversation, in order and in
\* the number the history may hold.
THEOREM OutcomeOnTheLatest == Spec => []BasisIsLatest
BY EngineInvHolds, EngineInvIsSafe, PTL

\* What the gateway takes for granted of the engine is what the engine does, whatever
\* fails in it and however the client leaves.
THEOREM EngineKeepsToStream == Spec => ImplementsStream
<1>1. Init => Stream!Init
  <2>1. Len(<<>>) = 0
    BY EmptySeq
  <2>2. QED
    BY <2>1 DEF Init, Stream!Init, OutcomeSent
<1>2. EngineInv /\ [Next]_vars => [Stream!Next]_(Stream!vars)
  BY NextStream DEF EngineInv
<1>3. QED
  BY <1>1, <1>2, EngineInvHolds, PTL DEF Spec, ImplementsStream, Stream!Spec
=============================================================================
