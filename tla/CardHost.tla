------------------------------ MODULE CardHost -----------------------------
(***************************************************************************)
(* The card on a development host.  Neither HAL of the repository drives a *)
(* real non-volatile memory: the native simulator (virtual_card.c) and the *)
(* emulated SCV1 (hal_arm_nvm.c) keep EEPROM and FLASH in memory, load     *)
(* them from card_eeprom.bin and card_flash.bin at power-on and store them *)
(* there at power-off, one file after the other.  Either HAL reads the     *)
(* files of the other, so each power-on here is made by one of the two.    *)
(*                                                                         *)
(* In between runs the card of CardOS, on a memory that neither tears nor  *)
(* fails (hal_nvm_write is a memcpy).  PowerCut of CardOS, after which NVM *)
(* keeps its contents, is not a step here: the process that emulates the   *)
(* card can only be killed, and then the whole session is lost.            *)
(*                                                                         *)
(* A file is modelled by what a load makes of it, that is with the tail of *)
(* a short file erased, and by whether it holds any byte at all.           *)
(***************************************************************************)
EXTENDS CardOS

CONSTANTS
  EepromFaults,   \* what may go wrong with a store of card_eeprom.bin,
  FlashFaults,    \* and of card_flash.bin: see Stored
  Sram            \* what the memory of the SCV1 may hold uninitialised

NoFiles == [i \in Slot |-> FreeDesc]
ErasedFlash == [c \in 0 .. FLASH_SIZE - 1 |-> Erased]

Memory == [sb : superblock, desc : [Slot -> fs_descriptor],
           flash : [0 .. FLASH_SIZE - 1 -> Byte]]

ASSUME HostFaultsAssumption ==
  EepromFaults \cup FlashFaults \subseteq {"failed", "short"}

\* No checksum matches in uninitialised memory, and it does not start with the
\* magic.
ASSUME SramAssumption ==
  /\ Sram \subseteq Memory
  /\ \A m \in Sram : ~m.sb.magic /\ \A i \in Slot : m.desc[i].type \in {"FREE", "BAD"}

VARIABLES
  host,      \* "down", "up", or the store under way at power-off
  backed,    \* the session has files to load from and to store to
  eeprom,    \* card_eeprom.bin
  dflash,    \* card_flash.bin
  spoilt     \* history: what made the files differ from a card's memory

hostVars == <<host, backed, eeprom, dflash, spoilt>>
allVars == <<vars, hostVars>>

EepromFile == [present : BOOLEAN, sb : superblock, desc : [Slot -> fs_descriptor]]
FlashFile == [present : BOOLEAN, flash : [0 .. FLASH_SIZE - 1 -> Byte]]

HostInit ==
  /\ Init
  /\ sb = BlankSb
  /\ host = "down"
  /\ backed = FALSE
  /\ eeprom = [present |-> FALSE, sb |-> BlankSb, desc |-> NoFiles]
  /\ dflash = [present |-> FALSE, flash |-> ErasedFlash]
  /\ spoilt = {}

-----------------------------------------------------------------------------
(***************************************************************************)
(* Power-on.                                                               *)
(***************************************************************************)
\* vcard_power_on: a region without a file is erased; without a state directory
\* (backed is FALSE) both are.
vcard_power_on ==
  /\ host = "down"
  /\ host' = "up"
  /\ backed' \in BOOLEAN
  /\ sb' = IF backed' THEN eeprom.sb ELSE BlankSb
  /\ desc' = IF backed' THEN eeprom.desc ELSE NoFiles
  /\ flash' = IF backed' THEN dflash.flash ELSE ErasedFlash
  /\ UNCHANGED <<ram, kernelVars, eeprom, dflash, spoilt>>

\* scv1_nvm_power_on: what is loaded (backed: semihosting is available), and
\* what becomes of a region that is not.  The magic alone says whether the
\* memory was programmed, and FLASH is erased only together with the EEPROM.
scv1_nvm_power_on ==
  /\ host = "down"
  /\ host' = "up"
  /\ backed' \in BOOLEAN
  /\ LET eeprom_loaded == backed' /\ eeprom.present
         dflash_loaded == backed' /\ dflash.present
         blank == ~eeprom_loaded /\ ~sb.magic
     IN /\ sb' = IF eeprom_loaded THEN eeprom.sb ELSE IF blank THEN BlankSb ELSE sb
        /\ desc' = IF eeprom_loaded THEN eeprom.desc ELSE IF blank THEN NoFiles ELSE desc
        /\ flash' = IF dflash_loaded THEN dflash.flash
                    ELSE IF blank THEN ErasedFlash ELSE flash
        /\ spoilt' = IF eeprom_loaded /\ ~dflash_loaded /\ flash # ErasedFlash
                     THEN spoilt \cup {"flash_uninitialised"} ELSE spoilt
  /\ UNCHANGED <<ram, kernelVars, eeprom, dflash>>

\* A programmer puts the image of a card into the memory of the SCV1 before
\* power-on.
programmed ==
  /\ host = "down"
  /\ sb' = eeprom.sb
  /\ desc' = eeprom.desc
  /\ flash' = dflash.flash
  /\ UNCHANGED <<ram, kernelVars, hostVars>>

-----------------------------------------------------------------------------
(***************************************************************************)
(* A session: the steps of the card, until the link goes down or the       *)
(* process is killed.                                                      *)
(***************************************************************************)
\* scos_init, and what it or a command started.
Processor ==
  /\ host = "up"
  /\ scos_init \/ Internal
  /\ UNCHANGED hostVars

\* What the reader asks for.
Reader ==
  /\ host = "up"
  /\ Command \/ scos_reset
  /\ UNCHANGED hostVars

\* What is left of the card's memory once the process is gone: nothing, and the
\* next power-on of the SCV1 finds it uninitialised.
MemoryLost ==
  /\ host' = "down"
  /\ backed' = FALSE
  /\ \E m \in Sram : sb' = m.sb /\ desc' = m.desc /\ flash' = m.flash
  /\ ram' = RamAtPowerOn
  /\ RamLost

\* The loop of scos_card_loop ends when the reader is gone; main goes on with
\* hal_shutdown.
link_down ==
  /\ host = "up"
  /\ pc = "ready"
  /\ IF backed THEN host' = "save_eeprom" /\ UNCHANGED <<vars, backed>> ELSE MemoryLost
  /\ UNCHANGED <<eeprom, dflash, spoilt>>

killed ==
  /\ host # "down"
  /\ MemoryLost
  /\ UNCHANGED <<eeprom, dflash, spoilt>>

-----------------------------------------------------------------------------
(***************************************************************************)
(* Power-off: vcard_power_off and scv1_nvm_power_off store the EEPROM and  *)
(* then the FLASH, and look at the result of neither.  A store may fail to *)
(* open its file, or leave a prefix in it.                                 *)
(***************************************************************************)
WholeEeprom == [present |-> TRUE, sb |-> sb, desc |-> desc]

\* A prefix ends in the magic, in the rest of the superblock, or in slot k
\* (before or after its type byte).
ShortEeprom ==
  {[present |-> p, sb |-> BlankSb, desc |-> NoFiles] : p \in BOOLEAN}
  \cup {[present |-> TRUE, sb |-> [sb EXCEPT !.crc = FALSE], desc |-> NoFiles]}
  \cup {[present |-> TRUE, sb |-> sb,
         desc |-> [i \in Slot |-> IF i < k THEN desc[i]
                                  ELSE IF i = k /\ desc[k].type # "FREE" THEN d
                                  ELSE FreeDesc]] :
          k \in Slot, d \in {FreeDesc, BadDesc}}

\* Variant with a mistake: what a short file lacks is not erased by the load.
ShortFlash_untailed ==
  {[present |-> k > 0, flash |-> [c \in 0 .. k - 1 |-> flash[c]]] :
     k \in 0 .. FLASH_SIZE - 1}

WholeFlash == [present |-> TRUE, flash |-> flash]
ShortFlash ==
  {[present |-> k > 0,
    flash |-> [c \in DOMAIN flash |-> IF c < k THEN flash[c] ELSE Erased]] :
     k \in 0 .. FLASH_SIZE - 1}

\* The contents a file may have after a store with outcome o.
Stored(o, old, whole, short) ==
  CASE o = "done" -> {whole} [] o = "failed" -> {old} [] o = "short" -> short

\* Variant with a mistake: the FLASH is stored here, before the EEPROM.
save_eeprom_late ==
  /\ host = "save_eeprom"
  /\ \E o \in {"done"} \cup FlashFaults :
       dflash' \in Stored(o, dflash, WholeFlash, ShortFlash)
  /\ host' = "save_flash"
  /\ UNCHANGED <<vars, backed, eeprom, spoilt>>

\* Variant with a mistake: a store that gives up has replaced the table and kept
\* the superblock of an earlier session.
save_eeprom_by_parts ==
  /\ host = "save_eeprom"
  /\ eeprom' \in {WholeEeprom, [eeprom EXCEPT !.desc = desc]}
  /\ host' = "save_flash"
  /\ UNCHANGED <<vars, backed, dflash, spoilt>>

save_eeprom ==
  /\ host = "save_eeprom"
  /\ \E o \in {"done"} \cup EepromFaults :
       /\ eeprom' \in Stored(o, eeprom, WholeEeprom, ShortEeprom)
       /\ spoilt' = IF o = "short" THEN spoilt \cup {"eeprom_cut"} ELSE spoilt
  /\ host' = "save_flash"
  /\ UNCHANGED <<vars, backed, dflash>>

\* Storing the FLASH of a session whose EEPROM could not be stored pairs new
\* data with an old table.
save_flash ==
  /\ host = "save_flash"
  /\ \E o \in {"done"} \cup FlashFaults :
       /\ dflash' \in Stored(o, dflash, WholeFlash, ShortFlash)
       /\ spoilt' = IF o # "failed" /\ eeprom # WholeEeprom
                    THEN spoilt \cup {"flash_ahead"} ELSE spoilt
  /\ MemoryLost
  /\ UNCHANGED eeprom

-----------------------------------------------------------------------------
HostNext ==
  \/ vcard_power_on
  \/ scv1_nvm_power_on
  \/ programmed
  \/ Processor
  \/ Reader
  \/ link_down
  \/ save_eeprom
  \/ save_flash
  \/ killed

\* The process runs, through a session and through the stores of its end.
\* Nothing forces a reader to send a command or a host to power the card.
HostSpec ==
  /\ HostInit
  /\ [][HostNext]_allVars
  /\ WF_allVars(Processor)
  /\ WF_allVars(save_eeprom \/ save_flash)

-----------------------------------------------------------------------------
(***************************************************************************)
(* Properties.                                                             *)
(***************************************************************************)
\* Type invariant: the files, the history and the session.
HostTypeOK ==
  /\ host \in {"down", "up", "save_eeprom", "save_flash"}
  /\ backed \in BOOLEAN
  /\ eeprom \in EepromFile
  /\ dflash \in FlashFile
  /\ spoilt \subseteq {"eeprom_cut", "flash_ahead", "flash_uninitialised"}

\* A file that comes into existence during a session reads as erased, over any
\* number of sessions, crashes of the host and failed stores: because the
\* EEPROM is stored first, the FLASH file is never ahead of the table that says
\* where free space begins.  The exceptions are the three that spoilt records.
FreshOnHost ==
  [][host = "up" /\ host' = "up" /\ spoilt = {} =>
       \A i \in EFs' \ EFs : \A c \in Extent(desc[i])' : flash'[c] = Erased]_allVars

\* The files of a card form a tree with unique siblings in every session, also
\* when a store failed without notice and an older table is loaded.  Only a
\* truncated card_eeprom.bin can lose the DF above a file.
HostTree == "eeprom_cut" \notin spoilt => TreeWellFormed /\ SiblingsUnique /\ NoSharedData

\* A session on a blank image ends its initialisation with an operational card,
\* unless it is killed.
BlankImageComesUp == host = "up" /\ pc = "format" ~> (Serving \/ host = "down")

\* hal_arm_nvm.c on the cases of power-on: a region that is neither loaded nor
\* programmed "is uninitialised SRAM, so erase it to 0xFF to look like a blank
\* chip".
NoUninitialisedFlash == "flash_uninitialised" \notin spoilt
=============================================================================
