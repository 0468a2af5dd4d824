\* Every reply of up to seven characters, cut into tokens in every way.
SPECIFICATION Spec
CONSTANTS
  MaxLength = 7
  MinChunk = 2
\* The reply has been spoken.
CHECK_DEADLOCK FALSE
INVARIANT
  TokensDoNotMatter
