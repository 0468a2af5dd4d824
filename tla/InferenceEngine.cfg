\* One utterance more than the history keeps, and answers of up to two sentences.
SPECIFICATION Spec
CONSTANTS
  MaxUtterances = 3
  MaxSentences = 2
  HistoryTurns = 2
\* The stream is over, or its worker is.
CHECK_DEADLOCK FALSE
INVARIANTS
  TypeOK
  OutcomeIsLast
  BasisIsLatest
PROPERTIES
  ImplementsStream
  StreamEnds
