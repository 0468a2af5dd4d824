------------------------- MODULE VADDetectorProofs -------------------------
(***************************************************************************)
(* Proofs about module VADDetector for every debounce, lookback, ceiling   *)
(* and length of call that VADAssumption allows.                           *)
(***************************************************************************)
EXTENDS VADDetector, SequenceTheorems, TLAPS

(***************************************************************************)
(* Buffers.                                                                *)
(***************************************************************************)
\* What NoHoles asks of one utterance.
Whole(u) ==
  \A i \in 1 .. Len(u) - 1 : u[i] < u[i+1] /\ (i > Lookback => u[i+1] = u[i] + 1)

\* Past the lookback, all of u is later than anything given before.
Fresh(u) ==
  \A a \in 1 .. Len(dispatched) : \A i \in 1 .. Len(dispatched[a]), j \in Lookback + 1 .. Len(u) :
    dispatched[a][i] < u[j]

\* A buffer that the next frame may be appended to.
Sound(u) == Whole(u) /\ Fresh(u) /\ (Len(u) <= Lookback \/ u[Len(u)] = Len(scores))

\* Nothing is in a buffer out of its turn, none is longer than its state allows,
\* and all of them are sound.
BufferInv ==
  /\ vad = "SPEECH_STARTING" =>
       speechCount \in 1 .. MinSpeech /\ Len(pending) <= Lookback + speechCount
  /\ vad # "SPEECH_STARTING" => pending = <<>>
  /\ vad \in {"SILENCE", "SPEECH_STARTING"} => utterance = <<>>
  /\ Len(utterance) < MaxUtterance
  /\ Sound(lookback) /\ Sound(pending) /\ Sound(utterance)

\* What has been given is bounded and whole.
GivenInv ==
  /\ \A a \in 1 .. Len(dispatched) : Len(dispatched[a]) <= MaxUtterance /\ Whole(dispatched[a])
  /\ \A a, b \in 1 .. Len(dispatched) : a < b =>
       \A i \in 1 .. Len(dispatched[a]), j \in Lookback + 1 .. Len(dispatched[b]) :
         dispatched[a][i] < dispatched[b][j]

DetectorInv == TypeOK /\ BufferInv /\ GivenInv

LEMMA Sizes ==
  /\ MinSpeech \in Nat \ {0} /\ MinSilence \in Nat \ {0} /\ Lookback \in Nat \ {0}
  /\ MaxUtterance \in Nat /\ MaxUtterance > Lookback + MinSpeech + 1
BY VADAssumption

LEMMA WholeAppend ==
  ASSUME NEW n \in Nat, NEW u \in Seq(1 .. n), Whole(u),
         Len(u) <= Lookback \/ u[Len(u)] = n
  PROVE  Whole(Append(u, n + 1))
<1>. DEFINE v == Append(u, n + 1)
<1>0. u \in Seq(Nat) /\ n + 1 \in Nat
  BY SeqMonotonic
<1>1. /\ Len(u) \in Nat /\ Len(v) = Len(u) + 1 /\ v[Len(u) + 1] = n + 1
      /\ \A i \in 1 .. Len(u) : v[i] = u[i] /\ u[i] \in 1 .. n
  BY <1>0, AppendProperties, LenProperties, ElementOfSeq
<1>. HIDE DEF v
<1>2. ASSUME NEW i \in 1 .. Len(v) - 1
      PROVE  v[i] < v[i+1] /\ (i > Lookback => v[i+1] = v[i] + 1)
  <2>1. CASE i = Len(u)
    <3>1. v[i] = u[Len(u)] /\ v[i+1] = n + 1 /\ u[Len(u)] \in 1 .. n
      BY <1>1, <2>1
    <3>2. QED
      BY <1>1, <2>1, <3>1, Sizes
  <2>2. CASE i \in 1 .. Len(u) - 1
    <3>1. v[i] = u[i] /\ v[i+1] = u[i+1]
      BY <1>1, <2>2
    <3>2. QED
      BY <2>2, <3>1 DEF Whole
  <2>3. QED
    BY <1>1, <2>1, <2>2
<1>3. QED
  BY <1>2 DEF v, Whole

LEMMA WholeTail ==
  ASSUME NEW u \in Seq(Nat), u # <<>>, Whole(u), Len(u) <= Lookback + 1
  PROVE  Whole(Tail(u))
<1>1. /\ Len(u) \in Nat /\ Len(Tail(u)) = Len(u) - 1
      /\ \A i \in 1 .. Len(Tail(u)) : Tail(u)[i] = u[i+1]
  BY HeadTailProperties, LenProperties
<1>2. ASSUME NEW i \in 1 .. Len(Tail(u)) - 1
      PROVE  Tail(u)[i] < Tail(u)[i+1] /\ ~ (i > Lookback)
  <2>1. Tail(u)[i] = u[i+1] /\ Tail(u)[i+1] = u[i+1+1]
    BY <1>1
  <2>2. i + 1 \in 1 .. Len(u) - 1
    BY <1>1
  <2>3. QED
    BY <1>1, <2>1, <2>2, Sizes DEF Whole
<1>3. QED
  BY <1>2 DEF Whole

LEMMA FreshAppend ==
  ASSUME TypeOK, NEW u \in Seq(Frames), Fresh(u)
  PROVE  Fresh(Append(u, Frame))
<1>0. Len(scores) \in Nat /\ Frame \in Nat
  BY LenProperties DEF TypeOK, Frame
<1>1. u \in Seq(Nat)
  BY <1>0, SeqMonotonic DEF Frames
<1>2. /\ Len(u) \in Nat /\ Len(Append(u, Frame)) = Len(u) + 1
      /\ Append(u, Frame)[Len(u) + 1] = Frame
      /\ \A j \in 1 .. Len(u) : Append(u, Frame)[j] = u[j]
  BY <1>0, <1>1, AppendProperties, LenProperties
<1>3. ASSUME NEW a \in 1 .. Len(dispatched), NEW i \in 1 .. Len(dispatched[a])
      PROVE  dispatched[a][i] \in Frames
  <2>1. dispatched[a] \in Seq(Frames)
    BY ElementOfSeq DEF TypeOK
  <2>2. QED
    BY <2>1, ElementOfSeq
<1>4. ASSUME NEW a \in 1 .. Len(dispatched), NEW i \in 1 .. Len(dispatched[a]),
             NEW j \in Lookback + 1 .. Len(Append(u, Frame))
      PROVE  dispatched[a][i] < Append(u, Frame)[j]
  <2>1. CASE j = Len(u) + 1
    BY <1>0, <1>2, <1>3, <2>1 DEF Frame, Frames
  <2>2. CASE j \in Lookback + 1 .. Len(u)
    <3>1. Append(u, Frame)[j] = u[j]
      BY <1>2, <2>2, Sizes
    <3>2. QED
      BY <2>2, <3>1 DEF Fresh
  <2>3. QED
    BY <1>2, <2>1, <2>2, Sizes
<1>5. QED
  BY <1>4 DEF Fresh

\* A sound buffer is sound with the next frame appended, when nothing is given.
LEMMA SoundAppend ==
  ASSUME TypeOK, NEW u \in Seq(Frames), Sound(u), NEW v, v = Append(u, Frame), Len(scores') = Frame
  PROVE  /\ v \in Seq(Frames') /\ v # <<>> /\ Len(v) = Len(u) + 1
         /\ Whole(v) /\ Fresh(v)
         /\ dispatched' = dispatched => Sound(v)'
<1>0. Len(scores) \in Nat /\ Frame = Len(scores) + 1 /\ Frames = 1 .. Len(scores)
  BY LenProperties DEF TypeOK, Frame, Frames
<1>1. u \in Seq(Frames') /\ Frame \in Frames'
  BY <1>0, SeqMonotonic DEF Frames
<1>2. v \in Seq(Frames') /\ v # <<>> /\ Len(v) = Len(u) + 1 /\ v[Len(v)] = Frame
  BY <1>1, AppendProperties
<1>3. Whole(v)
  <2>1. Whole(u) /\ (Len(u) <= Lookback \/ u[Len(u)] = Len(scores)) /\ u \in Seq(1 .. Len(scores))
    BY <1>0 DEF Sound
  <2>2. Whole(Append(u, Len(scores) + 1))
    BY <1>0, <2>1, WholeAppend
  <2>3. QED
    BY <1>0, <2>2
<1>4. Fresh(v)
  BY FreshAppend DEF Sound
<1>5. dispatched' = dispatched => Sound(v)'
  BY <1>2, <1>3, <1>4 DEF Sound, Whole, Fresh
<1>6. QED
  BY <1>2, <1>3, <1>4, <1>5

\* A buffer within the lookback is sound whatever happens.
LEMMA SoundShort ==
  ASSUME NEW u \in Seq(Nat), Whole(u), Len(u) <= Lookback
  PROVE  Sound(u) /\ Sound(u)'
<1>1. Len(u) \in Nat /\ Lookback \in Nat
  BY LenProperties, Sizes
<1>2. Lookback + 1 .. Len(u) = {}
  BY <1>1
<1>3. Fresh(u) /\ Fresh(u)'
  BY <1>2, Zenon DEF Fresh
<1>4. QED
  BY <1>3 DEF Sound, Whole

LEMMA SoundEmpty == Sound(<<>>) /\ Sound(<<>>)' /\ Len(<<>>) = 0
<1>1. <<>> \in Seq(Nat) /\ Len(<<>>) = 0
  BY EmptySeq
<1>2. Whole(<<>>)
  BY <1>1 DEF Whole
<1>3. Len(<<>>) <= Lookback
  BY <1>1, Sizes
<1>4. QED
  BY <1>1, <1>2, <1>3, SoundShort

(***************************************************************************)
(* Steps.                                                                  *)
(***************************************************************************)
\* The frame that arrives widens the frames of the call; what was a buffer of
\* frames still is one.
LEMMA FrameArrives ==
  ASSUME TypeOK, NEW speech \in BOOLEAN, scores' = Append(scores, speech)
  PROVE  /\ scores' \in Seq(BOOLEAN) /\ Len(scores') = Frame
         /\ Seq(Frames) \subseteq Seq(Frames') /\ Seq(Seq(Frames)) \subseteq Seq(Seq(Frames'))
         /\ Seq(Frames) \subseteq Seq(Nat)
<1>1. Len(scores) \in Nat /\ scores' \in Seq(BOOLEAN) /\ Len(scores') = Len(scores) + 1
  BY LenProperties, AppendProperties DEF TypeOK
<1>2. Frames \subseteq Frames' /\ Frames \subseteq Nat
  BY <1>1 DEF Frames
<1>3. \A S, T : S \subseteq T => Seq(S) \subseteq Seq(T)
  BY SeqMonotonic
<1>4. Seq(Frames) \subseteq Seq(Frames') /\ Seq(Frames) \subseteq Seq(Nat)
  BY <1>2, <1>3
<1>5. Seq(Seq(Frames)) \subseteq Seq(Seq(Frames'))
  BY <1>3, <1>4
<1>6. QED
  BY <1>1, <1>4, <1>5 DEF Frame

\* What is given next to what was given before.
LEMMA Given ==
  ASSUME DetectorInv, NEW u \in Seq(Nat), Whole(u), Fresh(u), Len(u) <= MaxUtterance,
         dispatched' = Append(dispatched, u)
  PROVE  GivenInv'
<1>1. /\ Len(dispatched) \in Nat /\ Len(dispatched') = Len(dispatched) + 1
      /\ dispatched'[Len(dispatched) + 1] = u
      /\ \A a \in 1 .. Len(dispatched) : dispatched'[a] = dispatched[a]
  <2>1. Frames \subseteq Nat
    BY LenProperties DEF DetectorInv, TypeOK, Frames
  <2>2. dispatched \in Seq(Seq(Nat))
    BY <2>1, SeqMonotonic DEF DetectorInv, TypeOK
  <2>3. QED
    BY <2>2, AppendProperties, LenProperties
<1>2. \A a \in 1 .. Len(dispatched') : Len(dispatched'[a]) <= MaxUtterance /\ Whole(dispatched'[a])
  BY <1>1 DEF DetectorInv, GivenInv
<1>3. ASSUME NEW a \in 1 .. Len(dispatched'), NEW b \in 1 .. Len(dispatched'), a < b,
             NEW i \in 1 .. Len(dispatched'[a]), NEW j \in Lookback + 1 .. Len(dispatched'[b])
      PROVE  dispatched'[a][i] < dispatched'[b][j]
  <2>1. a \in 1 .. Len(dispatched) /\ dispatched'[a] = dispatched[a]
    BY <1>1, <1>3
  <2>2. CASE b = Len(dispatched) + 1
    BY <1>1, <1>3, <2>1, <2>2 DEF Fresh
  <2>3. CASE b \in 1 .. Len(dispatched)
    BY <1>1, <1>3, <2>1, <2>3 DEF DetectorInv, GivenInv
  <2>4. QED
    BY <1>1, <2>2, <2>3
<1>4. QED
  BY <1>2, <1>3 DEF GivenInv, Whole

LEMMA InitDetectorInv == Init => DetectorInv
<1>. SUFFICES ASSUME Init PROVE DetectorInv
  OBVIOUS
<1>1. \A S : <<>> \in Seq(S) /\ Len(<<>>) = 0
  BY EmptySeq
<1>2. TypeOK
  BY <1>1, Sizes DEF Init, TypeOK
<1>3. BufferInv
  BY <1>1, SoundEmpty, Sizes DEF Init, BufferInv
<1>4. GivenInv
  BY <1>1 DEF Init, GivenInv
<1>5. QED
  BY <1>2, <1>3, <1>4 DEF DetectorInv

\* A frame in silence joins the lookback, or opens a start with it.
LEMMA SilenceStep ==
  ASSUME DetectorInv, NEW speech \in BOOLEAN, scores' = Append(scores, speech), Silence(speech)
  PROVE  DetectorInv'
<1>. USE FrameArrives
<1>0. /\ TypeOK /\ lookback \in Seq(Frames) /\ Len(lookback) \in 0 .. Lookback /\ Sound(lookback)
      /\ utterance = <<>> /\ pending = <<>>
  BY LenProperties, Sizes DEF DetectorInv, TypeOK, BufferInv, Silence
<1>. DEFINE v == Append(lookback, Frame)
<1>1. PICK w : w = v
  OBVIOUS
<1>2. /\ w \in Seq(Frames') /\ w # <<>> /\ Len(w) = Len(lookback) + 1 /\ Whole(w)
      /\ dispatched' = dispatched => Sound(w)'
  BY <1>0, <1>1, SoundAppend
<1>3. CASE speech
  <2>1. /\ vad' = "SPEECH_STARTING" /\ speechCount' = 1 /\ pending' = w /\ silenceCount' = silenceCount
        /\ lookback' = lookback /\ utterance' = <<>> /\ dispatched' = dispatched
    BY <1>0, <1>1, <1>3 DEF Silence
  <2>2. TypeOK'
    BY <1>0, <1>2, <2>1, Sizes, EmptySeq DEF TypeOK
  <2>3. Sound(lookback)'
    BY <1>0, <2>1, SoundShort DEF Sound
  <2>4. BufferInv'
    BY <1>0, <1>2, <2>1, <2>3, SoundEmpty, Sizes DEF BufferInv
  <2>5. GivenInv'
    BY <2>1 DEF GivenInv, DetectorInv, Whole
  <2>6. QED
    BY <2>2, <2>4, <2>5 DEF DetectorInv
<1>4. CASE ~ speech
  <2>1. /\ vad' = "SILENCE" /\ speechCount' = speechCount /\ pending' = <<>> /\ silenceCount' = silenceCount
        /\ lookback' = Trailing(w) /\ utterance' = <<>> /\ dispatched' = dispatched
    BY <1>0, <1>1, <1>4 DEF Silence
  <2>2. Tail(w) \in Seq(Frames') /\ Len(Tail(w)) = Len(lookback)
    BY <1>0, <1>2, HeadTailProperties
  <2>3. Whole(Tail(w))
    <3>1. Frames' \subseteq Nat
      BY LenProperties, <1>0 DEF Frames
    <3>2. w \in Seq(Nat)
      BY <1>2, <3>1, SeqMonotonic
    <3>3. QED
      BY <1>0, <1>2, <3>2, WholeTail, Sizes
  <2>4. lookback' \in Seq(Frames') /\ Len(lookback') \in 0 .. Lookback /\ Whole(lookback')
    BY <1>0, <1>2, <2>1, <2>2, <2>3, Sizes DEF Trailing
  <2>5. TypeOK'
    BY <1>0, <2>1, <2>4, Sizes, EmptySeq DEF TypeOK
  <2>6. Sound(lookback)'
    <3>1. lookback' \in Seq(Nat)
      <4>1. Frames' \subseteq Nat
        BY LenProperties, <1>0 DEF Frames
      <4>2. QED
        BY <2>4, <4>1, SeqMonotonic
    <3>2. PICK k : k = lookback'
      OBVIOUS
    <3>3. Sound(k)'
      BY <2>4, <3>1, <3>2, SoundShort
    <3>4. QED
      BY <3>2, <3>3 DEF Sound, Whole, Fresh
  <2>7. BufferInv'
    BY <1>0, <2>1, <2>6, SoundEmpty, Sizes DEF BufferInv
  <2>8. GivenInv'
    BY <2>1 DEF GivenInv, DetectorInv, Whole
  <2>9. QED
    BY <2>5, <2>7, <2>8 DEF DetectorInv
<1>5. QED
  BY <1>3, <1>4

\* A frame while speech starts extends the start, confirms it or calls it off.
LEMMA SpeechStartingStep ==
  ASSUME DetectorInv, NEW speech \in BOOLEAN, scores' = Append(scores, speech), SpeechStarting(speech)
  PROVE  DetectorInv'
<1>. USE FrameArrives
<1>0. /\ TypeOK /\ lookback \in Seq(Frames) /\ Len(lookback) \in 0 .. Lookback /\ Sound(lookback)
      /\ pending \in Seq(Frames) /\ Len(pending) \in Nat /\ Sound(pending)
      /\ utterance = <<>> /\ speechCount \in 1 .. MinSpeech /\ Len(pending) <= Lookback + speechCount
  BY LenProperties, Sizes DEF DetectorInv, TypeOK, BufferInv, SpeechStarting
<1>1. PICK w : w = Append(pending, Frame)
  OBVIOUS
<1>2. /\ w \in Seq(Frames') /\ w # <<>> /\ Len(w) = Len(pending) + 1 /\ Whole(w)
      /\ dispatched' = dispatched => Sound(w)'
  BY <1>0, <1>1, SoundAppend
<1>3. lookback' = lookback /\ dispatched' = dispatched /\ silenceCount' = silenceCount
  BY DEF SpeechStarting
<1>4. Sound(lookback)'
  BY <1>0, <1>3, SoundShort DEF Sound
<1>5. GivenInv'
  BY <1>3 DEF GivenInv, DetectorInv, Whole
<1>6. CASE ~ speech
  <2>1. vad' = "SILENCE" /\ pending' = <<>> /\ speechCount' = speechCount /\ utterance' = <<>>
    BY <1>0, <1>6 DEF SpeechStarting
  <2>2. TypeOK'
    BY <1>0, <1>3, <2>1, Sizes, EmptySeq DEF TypeOK
  <2>3. BufferInv'
    BY <1>0, <1>4, <2>1, SoundEmpty, Sizes DEF BufferInv
  <2>4. QED
    BY <1>5, <2>2, <2>3 DEF DetectorInv
<1>7. CASE speech /\ speechCount + 1 >= MinSpeech
  <2>1. vad' = "SPEECH" /\ pending' = <<>> /\ speechCount' = speechCount + 1 /\ utterance' = w
    BY <1>0, <1>1, <1>7 DEF SpeechStarting
  <2>2. TypeOK'
    BY <1>0, <1>2, <1>3, <2>1, Sizes, EmptySeq DEF TypeOK
  <2>3. BufferInv'
    BY <1>0, <1>2, <1>3, <1>4, <2>1, SoundEmpty, Sizes DEF BufferInv
  <2>4. QED
    BY <1>5, <2>2, <2>3 DEF DetectorInv
<1>8. CASE speech /\ ~ (speechCount + 1 >= MinSpeech)
  <2>1. vad' = "SPEECH_STARTING" /\ pending' = w /\ speechCount' = speechCount + 1 /\ utterance' = <<>>
    BY <1>0, <1>1, <1>8 DEF SpeechStarting
  <2>2. TypeOK'
    <3>1. speechCount + 1 \in 0 .. MinSpeech /\ Len(w) < Lookback + MinSpeech + 1
      BY <1>0, <1>2, <1>8, Sizes
    <3>2. QED
      BY <1>0, <1>2, <1>3, <2>1, <3>1, Sizes, EmptySeq DEF TypeOK
  <2>3. BufferInv'
    BY <1>0, <1>2, <1>3, <1>4, <1>8, <2>1, SoundEmpty, Sizes DEF BufferInv
  <2>4. QED
    BY <1>5, <2>2, <2>3 DEF DetectorInv
<1>9. QED
  BY <1>6, <1>7, <1>8

\* A frame of an utterance joins it, or is the last of it.
LEMMA SpeechStep ==
  ASSUME DetectorInv, NEW speech \in BOOLEAN, scores' = Append(scores, speech),
         Speech(speech) \/ SpeechEnding(speech)
  PROVE  DetectorInv'
<1>. USE FrameArrives
<1>0. /\ TypeOK /\ lookback \in Seq(Frames) /\ Len(lookback) \in 0 .. Lookback /\ Sound(lookback)
      /\ utterance \in Seq(Frames) /\ Len(utterance) \in Nat /\ Len(utterance) < MaxUtterance
      /\ Sound(utterance) /\ pending = <<>> /\ vad \in {"SPEECH", "SPEECH_ENDING"}
  BY LenProperties, Sizes DEF DetectorInv, TypeOK, BufferInv, Speech, SpeechEnding
<1>1. PICK w : w = Append(utterance, Frame)
  OBVIOUS
<1>2. /\ w \in Seq(Frames') /\ w # <<>> /\ Len(w) = Len(utterance) + 1 /\ Whole(w) /\ Fresh(w)
      /\ dispatched' = dispatched => Sound(w)'
  BY <1>0, <1>1, SoundAppend
<1>3. lookback' = lookback /\ pending' = <<>> /\ speechCount' = speechCount
  BY <1>0 DEF Speech, SpeechEnding
<1>4. Sound(lookback)'
  BY <1>0, <1>3, SoundShort DEF Sound
<1>5. CASE EndOfUtterance
  <2>1. vad' = "SILENCE" /\ silenceCount' = 0 /\ dispatched' = Append(dispatched, w) /\ utterance' = <<>>
    BY <1>1, <1>5 DEF EndOfUtterance, Dispatch
  <2>2. dispatched' \in Seq(Seq(Frames'))
    BY <1>0, <1>2, <2>1, AppendProperties DEF TypeOK
  <2>3. TypeOK'
    BY <1>0, <1>3, <2>1, <2>2, Sizes, EmptySeq DEF TypeOK
  <2>4. BufferInv'
    BY <1>0, <1>3, <1>4, <2>1, SoundEmpty, Sizes DEF BufferInv
  <2>5. GivenInv'
    <3>1. w \in Seq(Nat)
      <4>1. Frames' \subseteq Nat
        BY LenProperties, <1>0 DEF Frames
      <4>2. QED
        BY <1>2, <4>1, SeqMonotonic
    <3>2. Len(w) <= MaxUtterance
      BY <1>0, <1>2, Sizes
    <3>3. QED
      BY <1>2, <2>1, <3>1, <3>2, Given
  <2>6. QED
    BY <2>3, <2>4, <2>5 DEF DetectorInv
<1>6. CASE ~ EndOfUtterance
  <2>1. /\ vad' \in {"SPEECH", "SPEECH_ENDING"} /\ utterance' = w /\ dispatched' = dispatched
        /\ silenceCount' \in 0 .. MinSilence /\ ~ (Len(utterance) + 1 >= MaxUtterance)
    <3>1. CASE Speech(speech)
      BY <1>0, <1>1, <1>6, <3>1, Sizes DEF Speech, Full, TypeOK
    <3>2. CASE SpeechEnding(speech)
      BY <1>0, <1>1, <1>6, <3>2, Sizes DEF SpeechEnding, Full, TypeOK
    <3>3. QED
      BY <3>1, <3>2
  <2>2. TypeOK'
    BY <1>0, <1>2, <1>3, <2>1, Sizes, EmptySeq DEF TypeOK
  <2>3. BufferInv'
    BY <1>0, <1>2, <1>3, <1>4, <2>1, SoundEmpty, Sizes DEF BufferInv
  <2>4. GivenInv'
    BY <2>1 DEF GivenInv, DetectorInv, Whole
  <2>5. QED
    BY <2>2, <2>3, <2>4 DEF DetectorInv
<1>7. QED
  BY <1>5, <1>6

\* A control event gives what there is.
LEMMA ControlBoundaryStep ==
  ASSUME DetectorInv, ControlBoundary
  PROVE  DetectorInv'
<1>0. /\ TypeOK /\ BufferInv /\ utterance \in Seq(Frames) /\ Len(utterance) < MaxUtterance
      /\ Len(utterance) \in Nat
  BY LenProperties DEF DetectorInv, TypeOK, BufferInv
<1>1. PICK w : w = utterance
  OBVIOUS
<1>2. dispatched' = Append(dispatched, w) /\ utterance' = <<>> /\ pending = <<>>
  BY <1>0, <1>1 DEF ControlBoundary, Dispatch, BufferInv
<1>3. w \in Seq(Frames) /\ Frames' = Frames /\ w \in Seq(Nat)
  <2>1. Frames \subseteq Nat
    BY LenProperties, <1>0 DEF Frames, TypeOK
  <2>2. QED
    BY <1>0, <1>1, <2>1, SeqMonotonic DEF ControlBoundary, Frames
<1>4. TypeOK'
  <2>1. dispatched' \in Seq(Seq(Frames'))
    BY <1>0, <1>2, <1>3, AppendProperties DEF TypeOK
  <2>2. QED
    BY <1>0, <1>2, <1>3, <2>1, EmptySeq DEF TypeOK, ControlBoundary
<1>5. Sound(lookback)'
  <2>1. lookback \in Seq(Nat) /\ Len(lookback) <= Lookback /\ Whole(lookback)
    <3>1. Frames \subseteq Nat
      BY LenProperties, <1>0 DEF Frames, TypeOK
    <3>2. QED
      BY <1>0, <3>1, SeqMonotonic DEF TypeOK, BufferInv, Sound
  <2>2. QED
    BY <2>1, SoundShort DEF ControlBoundary, Sound
<1>6. BufferInv'
  BY <1>0, <1>2, <1>5, SoundEmpty, Sizes DEF BufferInv, ControlBoundary
<1>7. GivenInv'
  <2>1. Whole(w) /\ Fresh(w) /\ Len(w) <= MaxUtterance
    BY <1>0, <1>1, Sizes DEF BufferInv, Sound
  <2>2. QED
    BY <1>2, <1>3, <2>1, Given
<1>8. QED
  BY <1>4, <1>6, <1>7 DEF DetectorInv

(***************************************************************************)
(* The theorems.                                                           *)
(***************************************************************************)
\* The invariant is inductive.
LEMMA InvAlways == Spec => []DetectorInv
<1>1. DetectorInv /\ [Next]_vars => DetectorInv'
  <2>. SUFFICES ASSUME DetectorInv, [Next]_vars PROVE DetectorInv'
    OBVIOUS
  <2>1. CASE ControlBoundary
    BY <2>1, ControlBoundaryStep
  <2>2. ASSUME NEW speech \in BOOLEAN, ProcessFrame(speech) PROVE DetectorInv'
    BY <2>2, SilenceStep, SpeechStartingStep, SpeechStep DEF ProcessFrame
  <2>3. CASE UNCHANGED vars
    BY <2>3 DEF vars, DetectorInv, TypeOK, BufferInv, GivenInv, Sound, Whole, Fresh, Frames
  <2>4. QED
    BY <2>1, <2>2, <2>3 DEF Next
<1>2. QED
  BY InitDetectorInv, <1>1, PTL DEF Spec

\* Counters and buffers stay within the debounce, the lookback and a start, and hold
\* frames of the call only (process_frames).
THEOREM DetectorTypeCorrect == Spec => []TypeOK
<1>1. DetectorInv => TypeOK
  BY DEF DetectorInv
<1>2. QED
  BY InvAlways, <1>1, PTL

LEMMA Utterance ==
  ASSUME DetectorInv, NEW u \in Utterances
  PROVE  Len(u) <= MaxUtterance /\ Whole(u)
<1>1. CASE u = utterance
  <2>1. Len(utterance) \in Nat
    BY LenProperties DEF DetectorInv, TypeOK
  <2>2. QED
    BY <1>1, <2>1, Sizes DEF DetectorInv, BufferInv, Sound
<1>2. CASE \E a \in 1 .. Len(dispatched) : u = dispatched[a]
  BY <1>2 DEF DetectorInv, GivenInv
<1>3. QED
  BY <1>1, <1>2 DEF Utterances

\* No utterance passes the ceiling, whether it ends by silence, by the ceiling or by
\* a control event (_process_speech, _process_speech_ending).
THEOREM NeverPastTheCeiling == Spec => []Bounded
<1>1. DetectorInv => Bounded
  BY Utterance DEF Bounded
<1>2. QED
  BY InvAlways, <1>1, PTL

\* Past its lookback an utterance is the audio of the call without a hole, through
\* every lull and control event.
THEOREM WithoutHoles == Spec => []NoHoles
<1>1. DetectorInv => NoHoles
  BY Utterance DEF NoHoles, Whole
<1>2. QED
  BY InvAlways, <1>1, PTL

\* Past its lookback an utterance repeats nothing given before: the frames confirmed
\* as speech leave the detector with the utterance (get_utterance_frames).
THEOREM NothingGivenTwice == Spec => []GivenOnce
<1>1. ASSUME DetectorInv PROVE GivenOnce
  <2>1. ASSUME NEW a \in 1 .. Len(dispatched), NEW b \in 1 .. Len(dispatched), a < b,
               NEW i \in 1 .. Len(dispatched[a]), NEW j \in Lookback + 1 .. Len(dispatched[b])
        PROVE  dispatched[a][i] # dispatched[b][j]
    <3>1. dispatched[a][i] < dispatched[b][j]
      BY <1>1, <2>1 DEF DetectorInv, GivenInv
    <3>2. dispatched[a][i] \in Nat
      <4>1. dispatched[a] \in Seq(Frames)
        BY <1>1, ElementOfSeq DEF DetectorInv, TypeOK
      <4>2. dispatched[a][i] \in Frames
        BY <4>1, ElementOfSeq
      <4>3. QED
        BY <4>2 DEF Frames
    <3>3. QED
      BY <3>1, <3>2
  <2>2. QED
    BY <2>1 DEF GivenOnce
<1>2. QED
  BY InvAlways, <1>1, PTL

(***************************************************************************)
(* The debounce.                                                           *)
(***************************************************************************)
\* The last n scores are the same.
Run(n, score) ==
  n <= Len(scores) /\ \A i \in Len(scores) - n + 1 .. Len(scores) : scores[i] = score

\* The counters count: speech in a row while an utterance starts, silence in a row
\* while it ends.
CountInv ==
  /\ vad = "SPEECH_STARTING" => Run(speechCount, TRUE)
  /\ vad = "SPEECH_ENDING" => Run(silenceCount, FALSE)

LEMMA Scored ==
  ASSUME TypeOK, NEW speech \in BOOLEAN, ProcessFrame(speech)
  PROVE  /\ Len(scores) \in Nat /\ Len(scores') = Len(scores) + 1
         /\ \A i \in 1 .. Len(scores) : scores'[i] = scores[i]
         /\ scores'[Len(scores) + 1] = speech
<1>1. scores \in Seq(BOOLEAN) /\ scores' = Append(scores, speech)
  BY DEF TypeOK, ProcessFrame
<1>2. QED
  BY <1>1, AppendProperties, LenProperties

\* One frame more of the same, after n of them.
LEMMA RunGrows ==
  ASSUME TypeOK, NEW speech \in BOOLEAN, ProcessFrame(speech), NEW n \in Nat, n = 0 \/ Run(n, speech)
  PROVE  Last(n + 1, speech)
<1>1. /\ Len(scores) \in Nat /\ Len(scores') = Len(scores) + 1
      /\ \A i \in 1 .. Len(scores) : scores'[i] = scores[i]
      /\ scores'[Len(scores) + 1] = speech
  BY Scored
<1>2. n + 1 <= Len(scores')
  BY <1>1 DEF Run
<1>3. ASSUME NEW i \in Len(scores') - (n + 1) + 1 .. Len(scores') PROVE scores'[i] = speech
  <2>1. CASE i = Len(scores) + 1
    BY <1>1, <2>1
  <2>2. CASE i # Len(scores) + 1
    <3>1. n # 0 /\ i \in Len(scores) - n + 1 .. Len(scores) /\ i \in 1 .. Len(scores)
      BY <1>1, <1>2, <2>2
    <3>2. QED
      BY <1>1, <3>1 DEF Run
  <2>3. QED
    BY <2>1, <2>2
<1>4. QED
  BY <1>2, <1>3 DEF Last

LEMMA CountNext ==
  ASSUME vad' = "SPEECH_STARTING" => Last(speechCount', TRUE),
         vad' = "SPEECH_ENDING" => Last(silenceCount', FALSE)
  PROVE  CountInv'
BY DEF Last, Run, CountInv

LEMMA LastShorter ==
  ASSUME TypeOK', NEW n \in Nat, NEW m \in Nat, NEW score, m <= n, Last(n, score)
  PROVE  Last(m, score)
<1>1. Len(scores') \in Nat
  BY LenProperties DEF TypeOK
<1>2. QED
  BY <1>1 DEF Last

\* What a frame does to the counters, and what it takes to change the state.
LEMMA FrameCounted ==
  ASSUME DetectorInv, TypeOK', CountInv, NEW speech \in BOOLEAN, ProcessFrame(speech)
  PROVE  /\ CountInv'
         /\ vad = "SPEECH_STARTING" /\ vad' = "SPEECH" => Last(MinSpeech, TRUE)
         /\ vad \in {"SPEECH", "SPEECH_ENDING"} /\ vad' = "SILENCE" =>
              Last(MinSilence, FALSE) \/ Len(utterance) + 1 = MaxUtterance
<1>0. /\ speechCount \in Nat /\ silenceCount \in Nat /\ Len(utterance) \in Nat
      /\ Len(utterance) < MaxUtterance /\ TypeOK
  BY LenProperties, Sizes DEF DetectorInv, TypeOK, BufferInv
<1>1. CASE Silence(speech)
  <2>1. CASE speech
    <3>1. Last(1, TRUE)
      <4>1. Last(0 + 1, speech)
        BY <1>0, RunGrows, 0 \in Nat
      <4>2. 0 + 1 = 1
        OBVIOUS
      <4>3. speech = TRUE
        BY <2>1
      <4>4. QED
        BY <4>1, <4>2, <4>3
    <3>2. vad' = "SPEECH_STARTING" /\ speechCount' = 1
      BY <1>1, <2>1 DEF Silence
    <3>3. QED
      BY <1>1, <3>1, <3>2, CountNext DEF Silence
  <2>2. CASE ~ speech
    BY <1>1, <2>2, CountNext DEF Silence
  <2>3. QED
    BY <2>1, <2>2
<1>2. CASE SpeechStarting(speech)
  <2>1. CASE speech
    <3>1. speech = TRUE /\ Run(speechCount, TRUE) /\ speechCount' = speechCount + 1
      BY <1>2, <2>1 DEF SpeechStarting, CountInv
    <3>2. Last(speechCount + 1, TRUE)
      BY <1>0, <3>1, RunGrows
    <3>3. ASSUME vad' = "SPEECH" PROVE Last(MinSpeech, TRUE)
      <4>1. MinSpeech <= speechCount + 1
        BY <1>2, <2>1, <3>3 DEF SpeechStarting
      <4>2. MinSpeech \in Nat /\ speechCount + 1 \in Nat
        BY <1>0, Sizes
      <4>3. QED
        BY <3>2, <4>1, <4>2, LastShorter
    <3>4. vad' \in {"SPEECH", "SPEECH_STARTING"}
      BY <1>2, <2>1 DEF SpeechStarting
    <3>5. vad = "SPEECH_STARTING"
      BY <1>2 DEF SpeechStarting
    <3>6. QED
      BY <3>1, <3>2, <3>3, <3>4, <3>5, CountNext
  <2>2. CASE ~ speech
    BY <1>2, <2>2, CountNext DEF SpeechStarting
  <2>3. QED
    BY <2>1, <2>2
<1>3. CASE Speech(speech)
  <2>0. vad = "SPEECH"
    BY <1>3 DEF Speech
  <2>1. CASE Full
    <3>1. vad' = "SILENCE"
      BY <1>3, <2>1 DEF Speech, EndOfUtterance
    <3>2. Len(utterance) + 1 = MaxUtterance
      BY <1>0, <2>1, Sizes DEF Full
    <3>3. QED
      BY <2>0, <3>1, <3>2, CountNext
  <2>2. CASE ~ Full /\ speech
    BY <1>3, <2>0, <2>2, CountNext DEF Speech
  <2>3. CASE ~ Full /\ ~ speech
    <3>1. Last(1, FALSE)
      <4>1. Last(0 + 1, speech)
        BY <1>0, RunGrows, 0 \in Nat
      <4>2. 0 + 1 = 1
        OBVIOUS
      <4>3. speech = FALSE
        BY <2>3
      <4>4. QED
        BY <4>1, <4>2, <4>3
    <3>2. vad' = "SPEECH_ENDING" /\ silenceCount' = 1
      BY <1>3, <2>3 DEF Speech
    <3>3. QED
      BY <2>0, <3>1, <3>2, CountNext
  <2>4. QED
    BY <2>1, <2>2, <2>3
<1>4. CASE SpeechEnding(speech)
  <2>0. vad = "SPEECH_ENDING"
    BY <1>4 DEF SpeechEnding
  <2>1. ASSUME ~ speech PROVE Last(silenceCount + 1, FALSE)
    <3>1. speech = FALSE /\ Run(silenceCount, FALSE)
      BY <2>0, <2>1 DEF CountInv
    <3>2. QED
      BY <1>0, <3>1, RunGrows
  <2>2. CASE Full
    <3>1. vad' = "SILENCE"
      BY <1>4, <2>2 DEF SpeechEnding, EndOfUtterance
    <3>2. Len(utterance) + 1 = MaxUtterance
      BY <1>0, <2>2, Sizes DEF Full
    <3>3. QED
      BY <2>0, <3>1, <3>2, CountNext
  <2>3. CASE ~ Full /\ ~ speech /\ silenceCount + 1 >= MinSilence
    <3>1. Last(MinSilence, FALSE)
      <4>1. MinSilence \in Nat /\ silenceCount + 1 \in Nat /\ MinSilence <= silenceCount + 1
        BY <1>0, <2>3, Sizes
      <4>2. QED
        BY <2>1, <2>3, <4>1, LastShorter
    <3>2. vad' = "SILENCE"
      BY <1>4, <2>3 DEF SpeechEnding, EndOfUtterance
    <3>3. QED
      BY <2>0, <3>1, <3>2, CountNext
  <2>4. CASE ~ Full /\ ~ speech /\ ~ silenceCount + 1 >= MinSilence
    <3>1. vad' = "SPEECH_ENDING" /\ silenceCount' = silenceCount + 1
      BY <1>4, <2>0, <2>4 DEF SpeechEnding
    <3>2. QED
      BY <2>0, <2>1, <2>4, <3>1, CountNext
  <2>5. CASE ~ Full /\ speech
    BY <1>4, <2>0, <2>5, CountNext DEF SpeechEnding
  <2>6. QED
    BY <2>2, <2>3, <2>4, <2>5
<1>5. QED
  BY <1>1, <1>2, <1>3, <1>4 DEF ProcessFrame

LEMMA CountAlways == Spec => []CountInv
<1>1. Init => CountInv
  BY DEF Init, CountInv
<1>2. DetectorInv /\ DetectorInv' /\ CountInv /\ [Next]_vars => CountInv'
  <2>. SUFFICES ASSUME DetectorInv, DetectorInv', CountInv, [Next]_vars PROVE CountInv'
    OBVIOUS
  <2>1. CASE ControlBoundary \/ UNCHANGED vars
    BY <2>1 DEF ControlBoundary, vars, CountInv, Run
  <2>2. ASSUME NEW speech \in BOOLEAN, ProcessFrame(speech) PROVE CountInv'
    BY <2>2, FrameCounted DEF DetectorInv
  <2>3. QED
    BY <2>1, <2>2 DEF Next
<1>3. QED
  BY InvAlways, <1>1, <1>2, PTL DEF Spec

\* Noise shorter than the debounce never opens an utterance, whatever false starts came
\* before it (_process_speech_starting).
THEOREM NoiseOpensNothing == Spec => SpeechIsConfirmed
<1>1. DetectorInv /\ DetectorInv' /\ CountInv /\ [Next]_vars =>
        [vad = "SPEECH_STARTING" /\ vad' = "SPEECH" => Last(MinSpeech, TRUE)]_vars
  <2>. SUFFICES ASSUME DetectorInv, DetectorInv', CountInv, Next, vad = "SPEECH_STARTING", vad' = "SPEECH"
                PROVE  Last(MinSpeech, TRUE)
    BY DEF vars
  <2>1. PICK speech \in BOOLEAN : ProcessFrame(speech)
    BY DEF Next, ControlBoundary
  <2>2. QED
    BY <2>1, FrameCounted DEF DetectorInv
<1>2. QED
  BY InvAlways, CountAlways, <1>1, PTL DEF Spec, SpeechIsConfirmed

\* A pause shorter than the debounce never closes an utterance, however many came before
\* it, and only the ceiling cuts one short (_process_speech, _process_speech_ending).
THEOREM LullsCloseNothing == Spec => SilenceIsConfirmed
<1>1. DetectorInv /\ DetectorInv' /\ CountInv /\ [Next]_vars =>
        [vad # "SILENCE" /\ vad' = "SILENCE" /\ vad # "SPEECH_STARTING"
           => Last(MinSilence, FALSE) \/ Len(utterance) + 1 = MaxUtterance]_vars
  <2>. SUFFICES ASSUME DetectorInv, DetectorInv', CountInv, Next,
                       vad # "SILENCE", vad' = "SILENCE", vad # "SPEECH_STARTING"
                PROVE  Last(MinSilence, FALSE) \/ Len(utterance) + 1 = MaxUtterance
    BY DEF vars
  <2>1. PICK speech \in BOOLEAN : ProcessFrame(speech)
    BY DEF Next, ControlBoundary
  <2>2. vad \in {"SPEECH", "SPEECH_ENDING"}
    BY DEF DetectorInv, TypeOK
  <2>3. QED
    BY <2>1, <2>2, FrameCounted DEF DetectorInv
<1>2. QED
  BY InvAlways, CountAlways, <1>1, PTL DEF Spec, SilenceIsConfirmed
=============================================================================
