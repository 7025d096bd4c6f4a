SPECIFICATION BootSpec
CONSTANTS
  OSFLASH_SIZE = 3
  CFLASH_PAGE = 1
  BOOT_BLOCK_SIZE = 2
  Bits <- TwoBits
  ThumbBit = 0
  GoodSp <- Sps
  Entry <- Entries
  Blocks <- SomeBlocks
INVARIANTS BootTypeOK OnlySoundImageRuns OnlyActivatedRuns HighWaterCovers
PROPERTIES RefusedLeavesSlot OnlyLoadDamages ActiveUntilErased LoaderAdvances LoaderFinishes
