------------------------------ MODULE FsStore ------------------------------
(***************************************************************************)
(* The physical layer, fs_store.c: a superblock and a descriptor table in  *)
(* EEPROM, file data in FLASH, and the RAM mirror s_sb of the superblock.  *)
(*                                                                         *)
(* Every write of this layer goes to exactly one object (the superblock, a *)
(* descriptor or a range of FLASH) and ends in hal_nvm_sync, so a write is *)
(* one step with an outcome:                                               *)
(*   "done"      written and synced;                                       *)
(*   "failed"    hal_nvm_write refused, nothing changed;                   *)
(*   "unsynced"  written, and hal_nvm_sync reported an error;              *)
(*   "torn"      power was lost in the middle: the object is left with a   *)
(*               checksum that does not match (or, for FLASH, with some of *)
(*               the new bytes).                                           *)
(* Which outcomes a card can have besides "done" is the constant NvmFaults;*)
(* "decay" in it is not an outcome of a write but the loss of the          *)
(* superblock's magic while the card is off (see Decay in CardOS).         *)
(* Reads are assumed to succeed inside the device.  EEPROM is assumed      *)
(* large enough for the table (fs_store.c checks this at mount and format).*)
(***************************************************************************)
EXTENDS FsTypes, FiniteSets

CONSTANT NvmFaults   \* what the memory can do besides what it is told

ASSUME FaultsAssumption == NvmFaults \subseteq {"failed", "unsynced", "torn", "decay"}

VARIABLES
  sb,      \* the superblock in EEPROM
  desc,    \* the descriptor table in EEPROM
  flash,   \* file data
  ram      \* s_sb, the mirror of the superblock in RAM

storeVars == <<sb, desc, flash, ram>>
nvmVars == <<sb, desc, flash>>

\* FS_LAYOUT_VERSION is 1; 2 stands for every other version.
superblock == [magic : BOOLEAN, crc : BOOLEAN, version : {1, 2},
               max_files : Nat, data_top : Nat]

s_sb == [mounted : BOOLEAN, max_files : 0 .. FS_MAX_FILES, data_top : Nat]

BlankSb == [magic |-> FALSE, crc |-> FALSE, version |-> 2,
            max_files |-> 0, data_top |-> 0]
ForeignSb == [magic |-> TRUE, crc |-> TRUE, version |-> 2,
              max_files |-> FS_MAX_FILES, data_top |-> 0]

\* s_sb is zero-initialised: the state of RAM after power-on.
RamAtPowerOn == [mounted |-> FALSE, max_files |-> 0, data_top |-> 0]

StoreTypeOK ==
  /\ sb \in superblock
  /\ desc \in [Slot -> fs_descriptor]
  /\ flash \in [0 .. FLASH_SIZE - 1 -> Byte]
  /\ ram \in s_sb

\* A chip as it leaves the fab, or one that carries an image of another layout.
StoreInit ==
  /\ sb \in {BlankSb, ForeignSb}
  /\ desc = [i \in Slot |-> FreeDesc]
  /\ flash = [c \in 0 .. FLASH_SIZE - 1 |-> Erased]
  /\ ram = RamAtPowerOn

-----------------------------------------------------------------------------
\* What fs_store_mount answers, in the order of its checks.
mount_status ==
  IF ~sb.magic THEN "NOT_FORMATTED"
  ELSE IF ~sb.crc THEN "CORRUPT"
  ELSE IF sb.version # 1 THEN "VERSION"
  ELSE IF sb.max_files = 0 \/ sb.max_files > FS_MAX_FILES THEN "CORRUPT"
  ELSE IF sb.data_top > FLASH_SIZE THEN "CORRUPT"
  ELSE "OK"

\* The mirror fs_store_mount leaves behind.  It runs on freshly cleared RAM.
fs_store_mount ==
  ram' = IF mount_status = "OK"
         THEN [mounted |-> TRUE, max_files |-> sb.max_files, data_top |-> sb.data_top]
         ELSE RamAtPowerOn

fs_store_max_files == IF ram.mounted THEN ram.max_files ELSE 0

\* What fs_store_read_desc answers for slot i; on "OK" its result is desc[i].
fs_store_read_desc(i) ==
  IF ~ram.mounted THEN "NOT_FORMATTED"
  ELSE IF i >= ram.max_files THEN "PARAM"
  ELSE IF desc[i].type = "FREE" THEN "NOT_FOUND"
  ELSE IF desc[i].type = "BAD" THEN "CORRUPT"
  ELSE IF fs_is_ef(desc[i]) /\ desc[i].data_offset + desc[i].size > FLASH_SIZE
       THEN "CORRUPT"
  ELSE "OK"

\* The slots a loop over the table finds readable.
Readable == {i \in Slot : fs_store_read_desc(i) = "OK"}

\* The first hit of a search that goes through the slots in order.
First(S) == {i \in S : \A j \in S : i <= j}

\* {} when fs_store_find_free_slot answers FS_INVALID_INDEX.
FreeSlots == {i \in Slot : i < fs_store_max_files /\ desc[i].type = "FREE"}
fs_store_find_free_slot == First(FreeSlots)

-----------------------------------------------------------------------------
(***************************************************************************)
(* Writes.  Each operator gives the values its object may have afterwards. *)
(***************************************************************************)
Outcome == {"done"} \cup (NvmFaults \ {"decay"})

Written(o) == o \in {"done", "unsynced"}

\* sb_write records the top of the mirror, and FS_MAX_FILES whatever it mounted.
sb_write(o, top) ==
  sb' \in IF Written(o)
            THEN {[magic |-> TRUE, crc |-> TRUE, version |-> 1,
                   max_files |-> FS_MAX_FILES, data_top |-> top]}
          ELSE IF o = "failed" THEN {sb}
          ELSE {[sb EXCEPT !.crc = FALSE], [sb EXCEPT !.magic = TRUE, !.crc = FALSE]}

\* RAM after a write with outcome o: a torn write takes the power with it.
RamAfter(o, mirror) == IF o = "torn" THEN RamAtPowerOn ELSE mirror

\* A descriptor write of d to slot i.  Freeing writes FF everywhere, so tearing
\* it over a free slot changes nothing.
desc_write(o, i, d) ==
  /\ desc' = IF Written(o) THEN [desc EXCEPT ![i] = d]
             ELSE IF o = "failed" \/ desc[i] = d THEN desc
             ELSE [desc EXCEPT ![i] = BadDesc]
  /\ ram' = RamAfter(o, ram)
  /\ UNCHANGED <<sb, flash>>

fs_store_write_desc(o, i, d) == desc_write(o, i, d)

\* Variant with a mistake: freeing an EF gives its space back to the allocator.
free_desc_reclaiming(o, i) ==
  /\ desc' = IF Written(o) THEN [desc EXCEPT ![i] = FreeDesc] ELSE desc
  /\ LET top == IF Written(o) /\ fs_is_ef(desc[i]) THEN desc[i].data_offset
                ELSE sb.data_top
     IN /\ sb' = [sb EXCEPT !.data_top = top]
        /\ ram' = RamAfter(o, [ram EXCEPT !.data_top = top])
  /\ UNCHANGED flash

fs_store_free_desc(o, i) == desc_write(o, i, FreeDesc)

\* fs_store_alloc_data: is there room, and the allocation itself.  The mirror
\* moves before the superblock is written, and stays moved if that fails.
NoRoom(size) == ram.data_top + size > FLASH_SIZE

\* Variant with a mistake: the mirror moves only if the write was reported good.
alloc_data_rolling_back(o, size) ==
  /\ sb_write(o, ram.data_top + size)
  /\ ram' = RamAfter(o, [ram EXCEPT !.data_top = IF o = "done" THEN @ + size ELSE @])
  /\ UNCHANGED <<desc, flash>>

fs_store_alloc_data(o, size) ==
  /\ sb_write(o, ram.data_top + size)
  /\ ram' = RamAfter(o, [ram EXCEPT !.data_top = @ + size])
  /\ UNCHANGED <<desc, flash>>

\* The last write of fs_store_format: an empty table becomes a formatted card.
format_superblock(o) ==
  /\ sb_write(o, 0)
  /\ ram' = RamAfter(o, [mounted |-> o = "done", max_files |-> FS_MAX_FILES,
                         data_top |-> 0])
  /\ UNCHANGED <<desc, flash>>

\* fs_store_write_data of the bytes src at offset; a torn write programs some
\* of the cells.  A refused write is reported as "RANGE", not as "NVM".
Cells(offset, n) == offset .. offset + n - 1
fs_store_write_data(o, offset, src) ==
  /\ \E K \in IF Written(o) THEN {Cells(offset, Len(src))}
              ELSE IF o = "failed" THEN {{}}
              ELSE SUBSET Cells(offset, Len(src)) :
       flash' = [c \in DOMAIN flash |->
                   IF c \in K THEN src[c - offset + 1] ELSE flash[c]]
  /\ ram' = RamAfter(o, ram)
  /\ UNCHANGED <<sb, desc>>
write_data_status(o) ==
  CASE o = "done" -> "OK" [] o = "failed" -> "RANGE" [] OTHER -> "NVM"

fs_store_read_data(offset, n) == [k \in 1 .. n |-> flash[offset + k - 1]]
=============================================================================
