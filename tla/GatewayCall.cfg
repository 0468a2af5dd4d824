\* One call whose engine says one chunk more than AgentAudioChan and the relay
\* hold between them.
SPECIFICATION Spec
CONSTANTS
  ChanCap = 1
  MaxHeard = 1
  MaxSpoken = 3
  None = None
\* The call is over.
CHECK_DEADLOCK FALSE
INVARIANTS
  TypeOK
  SingleSender
  VerdictCollected
  EngineOutlivesCaller
PROPERTIES
  TerminatedIsFinal
  TornDown
