SPECIFICATION HostSpec
CONSTANTS
  FS_MAX_FILES = 3
  FS_INVALID_INDEX = 65535
  FLASH_SIZE = 2
  FS_MAX_EF_SIZE = 2
  FS_MAX_DEPTH = 2
  Fid = {"3F00", "FFFF", "7F10", "6F01"}
  FS_FID_MF = "3F00"
  FID_FFFF = "FFFF"
  Byte = {"FF", "v"}
  Erased = "FF"
  Layout <- SmallLayout
  NvmFaults = {}
  SelectCmds <- MoveAround
  ReadCmds = {}
  UpdateCmds <- OneUpdate
  CreateReqs <- OneCreate
  DeleteFids = {"6F01"}
  RefusalSws = {}
  EepromFaults = {"failed", "short"}
  FlashFaults = {"failed", "short"}
  Sram <- AnySram
INVARIANTS HostTypeOK HostTree
PROPERTIES FreshOnHost BlankImageComesUp
