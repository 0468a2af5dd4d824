----------------------------- MODULE VADDetector -----------------------------
(***************************************************************************)
(* How the caller's audio becomes utterances: the four-state debounce      *)
(* machine of VADDetector, and the dispatch of what it delimits.  One      *)
(* thread of a call runs it.                                               *)
(*                                                                         *)
(* A frame is its number in the call.  What the model scores it is free.   *)
(***************************************************************************)
EXTENDS Naturals, Sequences

CONSTANTS
  MinSpeech,     \* _min_speech_frames (8 in the code)
  MinSilence,    \* _min_silence_frames (25)
  Lookback,      \* length of the lookback deque (10)
  MaxUtterance,  \* _max_utterance_frames (469)
  MaxFrames      \* frames of a call (a bound)

ASSUME VADAssumption ==
  /\ {MinSpeech, MinSilence, Lookback} \subseteq Nat \ {0}
  /\ MaxUtterance \in Nat /\ MaxUtterance > Lookback + MinSpeech + 1
  /\ MaxFrames \in Nat

VARIABLES
  vad,           \* _vad_state
  speechCount,   \* _speech_frame_count
  silenceCount,  \* _silence_frame_count
  lookback,      \* _lookback
  pending,       \* _pending_frames
  utterance,     \* _utterance_frames
  dispatched,    \* utterances put on the queue, oldest first
  scores         \* for each frame so far, whether it scored as speech

vars == <<vad, speechCount, silenceCount, lookback, pending, utterance, dispatched, scores>>

Frames == 1 .. Len(scores)

TypeOK ==
  /\ vad \in {"SILENCE", "SPEECH_STARTING", "SPEECH", "SPEECH_ENDING"}
  /\ speechCount \in 0 .. MinSpeech + 1 /\ silenceCount \in 0 .. MinSilence
  /\ lookback \in Seq(Frames) /\ Len(lookback) <= Lookback
  /\ pending \in Seq(Frames) /\ Len(pending) < Lookback + MinSpeech + 1
  /\ utterance \in Seq(Frames)
  /\ dispatched \in Seq(Seq(Frames))
  /\ scores \in Seq(BOOLEAN)

Init ==
  /\ vad = "SILENCE" /\ speechCount = 0 /\ silenceCount = 0
  /\ lookback = <<>> /\ pending = <<>> /\ utterance = <<>>
  /\ dispatched = <<>> /\ scores = <<>>

(***************************************************************************)
(* process_frames, one handler a state.  The frame is the next one.        *)
(***************************************************************************)
Frame == Len(scores) + 1

\* A bug: the deque has no maximal length.
Unbounded(s) == s

Trailing(s) == IF Len(s) > Lookback THEN Tail(s) ELSE s

Silence(speech) ==
  /\ vad = "SILENCE"
  /\ IF speech
     THEN /\ vad' = "SPEECH_STARTING" /\ speechCount' = 1
          /\ pending' = Append(lookback, Frame)
          /\ UNCHANGED lookback
     ELSE /\ lookback' = Trailing(Append(lookback, Frame))
          /\ UNCHANGED <<vad, speechCount, pending>>
  /\ UNCHANGED <<silenceCount, utterance, dispatched>>

\* A bug: a lull does not end the start, so the speech confirmed has holes.
LullTolerated(speech) ==
  /\ vad = "SPEECH_STARTING"
  /\ speechCount' = speechCount + 1
  /\ IF speech /\ speechCount' >= MinSpeech
     THEN vad' = "SPEECH" /\ utterance' = Append(pending, Frame) /\ pending' = <<>>
     ELSE pending' = Append(pending, Frame) /\ UNCHANGED <<vad, utterance>>
  /\ UNCHANGED <<silenceCount, lookback, dispatched>>

SpeechStarting(speech) ==
  /\ vad = "SPEECH_STARTING"
  /\ IF speech
     THEN /\ speechCount' = speechCount + 1
          /\ IF speechCount' >= MinSpeech
             THEN vad' = "SPEECH" /\ utterance' = Append(pending, Frame) /\ pending' = <<>>
             ELSE pending' = Append(pending, Frame) /\ UNCHANGED <<vad, utterance>>
     ELSE vad' = "SILENCE" /\ pending' = <<>> /\ UNCHANGED <<speechCount, utterance>>
  /\ UNCHANGED <<silenceCount, lookback, dispatched>>

\* A bug: the frames stay in the detector after they are taken.
TakenTwice(frames) == dispatched' = Append(dispatched, frames) /\ utterance' = frames

\* get_utterance_frames, put on the queue.
Dispatch(frames) == dispatched' = Append(dispatched, frames) /\ utterance' = <<>>

EndOfUtterance ==
  /\ vad' = "SILENCE" /\ silenceCount' = 0
  /\ Dispatch(Append(utterance, Frame))

Full == Len(utterance) + 1 >= MaxUtterance

Speech(speech) ==
  /\ vad = "SPEECH"
  /\ IF Full THEN EndOfUtterance
     ELSE /\ utterance' = Append(utterance, Frame) /\ UNCHANGED dispatched
          /\ IF speech THEN UNCHANGED <<vad, silenceCount>>
             ELSE vad' = "SPEECH_ENDING" /\ silenceCount' = 1
  /\ UNCHANGED <<speechCount, lookback, pending>>

\* A bug: speech that resumes leaves the count of silent frames standing.
LullCounted(speech) ==
  /\ vad = "SPEECH_ENDING"
  /\ IF Full \/ (~ speech /\ silenceCount + 1 >= MinSilence) THEN EndOfUtterance
     ELSE /\ utterance' = Append(utterance, Frame)
          /\ silenceCount' = IF speech THEN silenceCount ELSE silenceCount + 1
          /\ UNCHANGED <<vad, dispatched>>
  /\ UNCHANGED <<speechCount, lookback, pending>>

\* A bug: the ceiling is enforced only while the caller speaks.
NoCeiling(speech) ==
  /\ vad = "SPEECH_ENDING"
  /\ IF ~ speech /\ silenceCount + 1 >= MinSilence THEN EndOfUtterance
     ELSE /\ utterance' = Append(utterance, Frame) /\ UNCHANGED dispatched
          /\ IF speech THEN vad' = "SPEECH" /\ silenceCount' = 0
             ELSE silenceCount' = silenceCount + 1 /\ UNCHANGED vad
  /\ UNCHANGED <<speechCount, lookback, pending>>

\* A bug: the frame that resumes the speech is left out.
ResumptionLost(speech) ==
  /\ vad = "SPEECH_ENDING"
  /\ IF Full \/ (~ speech /\ silenceCount + 1 >= MinSilence) THEN EndOfUtterance
     ELSE /\ UNCHANGED dispatched
          /\ IF speech THEN vad' = "SPEECH" /\ silenceCount' = 0 /\ UNCHANGED utterance
             ELSE /\ silenceCount' = silenceCount + 1 /\ UNCHANGED vad
                  /\ utterance' = Append(utterance, Frame)
  /\ UNCHANGED <<speechCount, lookback, pending>>

SpeechEnding(speech) ==
  /\ vad = "SPEECH_ENDING"
  /\ IF Full \/ (~ speech /\ silenceCount + 1 >= MinSilence) THEN EndOfUtterance
     ELSE /\ utterance' = Append(utterance, Frame) /\ UNCHANGED dispatched
          /\ IF speech THEN vad' = "SPEECH" /\ silenceCount' = 0
             ELSE silenceCount' = silenceCount + 1 /\ UNCHANGED vad
  /\ UNCHANGED <<speechCount, lookback, pending>>

ProcessFrame(speech) ==
  /\ Len(scores) < MaxFrames
  /\ scores' = Append(scores, speech)
  /\ \/ Silence(speech) \/ SpeechStarting(speech)
     \/ Speech(speech) \/ SpeechEnding(speech)

\* An END_OF_UTTERANCE control event, at any point: the detector's state stays.
ControlBoundary ==
  /\ utterance # <<>>
  /\ Dispatch(utterance)
  /\ UNCHANGED <<vad, speechCount, silenceCount, lookback, pending, scores>>

Next == ControlBoundary \/ \E speech \in BOOLEAN : ProcessFrame(speech)

Spec == Init /\ [][Next]_vars

(***************************************************************************)
(* Properties.                                                             *)
(***************************************************************************)
Last(n, score) ==
  /\ n <= Len(scores')
  /\ \A i \in Len(scores') - n + 1 .. Len(scores') : scores'[i] = score

\* Noise shorter than the debounce never opens an utterance: the frames that
\* confirm one are that many frames of speech in a row.
SpeechIsConfirmed ==
  [][vad = "SPEECH_STARTING" /\ vad' = "SPEECH" => Last(MinSpeech, TRUE)]_vars

\* A pause shorter than the debounce never closes an utterance, however many
\* pauses came before it; only the ceiling cuts one short.
SilenceIsConfirmed ==
  [][vad # "SILENCE" /\ vad' = "SILENCE" /\ vad # "SPEECH_STARTING"
     => Last(MinSilence, FALSE) \/ Len(utterance) + 1 = MaxUtterance]_vars

Utterances == {utterance} \cup {dispatched[i] : i \in 1 .. Len(dispatched)}

\* Nothing the detector hands over grows past the ceiling.
Bounded == \A u \in Utterances : Len(u) <= MaxUtterance

\* Past its lookback an utterance is the caller's audio without a hole, in order.
NoHoles ==
  \A u \in Utterances : \A i \in 1 .. Len(u) - 1 :
    u[i] < u[i+1] /\ (i > Lookback => u[i+1] = u[i] + 1)

\* Past its lookback an utterance repeats nothing the engine was given before.
GivenOnce ==
  \A a, b \in 1 .. Len(dispatched) : a < b =>
    \A i \in 1 .. Len(dispatched[a]), j \in Lookback + 1 .. Len(dispatched[b]) :
      dispatched[a][i] # dispatched[b][j]
=============================================================================
