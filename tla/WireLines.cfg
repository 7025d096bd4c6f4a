\* Every pair of lines, on either port.  A card on a UART waits for ever when its
\* reader sends no more, and a session that is over stays so.
SPECIFICATION Spec
CONSTANTS
  Streams <- TwoLines
  LINE_MAX = 20
  CMD_MAX = 7
  RSP_MAX = 6
  Atr <- SomeAtr
  Answers <- SomeAnswers
INVARIANTS WireTypeOK OutputAsMeant TakenInv
PROPERTIES LinkAdvances StreamIsServed
CHECK_DEADLOCK FALSE
