\* Separators alone, and a comment longer than the line buffer of the simulator.
SPECIFICATION Spec
CONSTANTS
  Streams <- OddLines
  LINE_MAX = 20
  CMD_MAX = 7
  RSP_MAX = 6
  Atr <- SomeAtr
  Answers <- SomeAnswers
INVARIANT EveryStreamAsMeant
CHECK_DEADLOCK FALSE
