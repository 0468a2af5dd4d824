\* Every sequence of scores long enough for two utterances, one of them cut at
\* the ceiling, with false starts and lulls between.
SPECIFICATION Spec
CONSTANTS
  MinSpeech = 2
  MinSilence = 2
  Lookback = 2
  MaxUtterance = 6
  MaxFrames = 12
\* The call has no more audio.
CHECK_DEADLOCK FALSE
INVARIANTS
  TypeOK
  Bounded
  NoHoles
  GivenOnce
PROPERTIES
  SpeechIsConfirmed
  SilenceIsConfirmed
