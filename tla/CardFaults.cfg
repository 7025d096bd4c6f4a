SPECIFICATION Spec
CONSTANTS
  FS_MAX_FILES = 4
  FS_INVALID_INDEX = 65535
  FLASH_SIZE = 3
  FS_MAX_EF_SIZE = 2
  FS_MAX_DEPTH = 2
  Fid = {"3F00", "FFFF", "2F00", "7F10", "6F01", "6F02"}
  FS_FID_MF = "3F00"
  FID_FFFF = "FFFF"
  Byte = {"FF", "v"}
  Erased = "FF"
  Layout <- SmallLayout
  NvmFaults = {"failed", "unsynced", "torn", "decay"}
  SelectCmds <- MoveAround
  ReadCmds = {}
  UpdateCmds = {}
  CreateReqs <- SomeCreates
  DeleteFids = {"7F10", "6F01"}
  RefusalSws = {}
INVARIANTS TypeOK NoSharedData MirrorAhead TreeWellFormed SiblingsUnique CardInvariant
PROPERTY TopNeverFalls
