SPECIFICATION TextSpec
CONSTANTS
  FS_MAX_FILES = 4
  FS_INVALID_INDEX = 65535
  FLASH_SIZE = 2
  FS_MAX_EF_SIZE = 32767
  FS_MAX_DEPTH = 8
  Fid <- TwoByteFids
  FS_FID_MF = 16128
  FID_FFFF = 65535
  Byte <- Octet
  Erased = 255
  Layout <- NoLayout
  Bodies <- TextBodies
  Texts <- SomeTexts
INVARIANTS AcceptedIsValid DecodesAsMeant RoundTrip
PROPERTIES ReadsInside ParserAdvances ParsingEnds
CHECK_DEADLOCK FALSE
