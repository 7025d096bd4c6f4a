----------------------------- MODULE BootLoader ----------------------------
(***************************************************************************)
(* The SCV1 boot ROM (boot_main.c) and its loader (boot_loader.c, cflash.c,*)
(* boot_hdr.c): a host erases the OS slot, loads an image block by block,  *)
(* has it verified and activates it; at power-on and at reset the ROM      *)
(* decides whether to hand the core to the image.                          *)
(*                                                                         *)
(* A cell of OSFLASH is a 32-bit word, represented by the set of its bits  *)
(* that are 1: erasing sets all of them, programming can only clear them.  *)
(* A CRC stands for the content it was computed over: collisions of CRC-16 *)
(* are not modelled.                                                       *)
(*                                                                         *)
(* The ROM runs on two kinds of part.  If `persistent` the slot is code    *)
(* flash, which is what cflash.c and the order of the loader's writes are  *)
(* for, and BOOTSEL is a pin.  Without, it is the emulator's RAM, lost     *)
(* with the power and mirrored in host files as far as there is a          *)
(* semihosting host, and BOOTSEL is such a file.  pc says where the ROM is:*)
(*   "off"         no power                                                *)
(*   "loader"      waiting in loader_loop                                  *)
(*   "erase"       do_erase is at page `page` of OSFLASH                   *)
(*   "flash_file"  slot_flush is about to store OSFLASH on the host        *)
(*   "hdr_file"    slot_flush is about to store OSHDR on the host          *)
(*   "decide"      the boot decision after a reset                         *)
(*   "os"          the core has been handed to the OS                      *)
(***************************************************************************)
EXTENDS Integers, Sequences

CONSTANTS
  OSFLASH_SIZE,     \* words of OSFLASH
  CFLASH_PAGE,      \* words of an erase page
  BOOT_BLOCK_SIZE,  \* words of a LOAD block
  Bits,             \* bits of a word
  ThumbBit,         \* bit 0
  GoodSp,           \* initial stack pointers inside SRAM and aligned
  Entry,            \* the offset in OSFLASH a reset vector points at
  Blocks            \* the data fields the host sends with LOAD

Word == SUBSET Bits
ErasedWord == Bits
Cell == 0 .. OSFLASH_SIZE - 1

ASSUME BootAssumption ==
  /\ OSFLASH_SIZE \in Nat \ {0} /\ CFLASH_PAGE \in Nat \ {0}
  /\ BOOT_BLOCK_SIZE \in Nat \ {0}
  /\ OSFLASH_SIZE % CFLASH_PAGE = 0
  /\ ThumbBit \in Bits
  /\ GoodSp \subseteq Word
  /\ Entry \in [Word -> Int]
  /\ Blocks \subseteq Seq(Word)

VARIABLES
  osflash,   \* the OS slot
  oshdr,     \* its header
  file,      \* the host files that mirror them: contents, or absent
  ctx,       \* boot_ctx: high_water and erased
  dirty,     \* g_dirty
  host,      \* semihost_available(): a semihosting host answered the probe
  persistent, \* TRUE: the slot is flash; FALSE: RAM of the emulator
  strap,     \* whether BOOTSEL is held
  pc,        \* where the ROM is, see above
  page,      \* the page do_erase is at
  then,      \* where slot_flush returns to: "decide", "os" or "off"
  sw         \* the answer to the last command

slot == <<osflash, oshdr>>
board == <<persistent, strap>>
vars == <<osflash, oshdr, file, ctx, dirty, host, board, pc, page, then, sw>>

-----------------------------------------------------------------------------
(***************************************************************************)
(* The slot header.  "ERASED" is an erased page, "JUNK" any content that   *)
(* boot_hdr_parse refuses, and only in a file, "ABSENT" no bytes at all.   *)
(* The state word, which the CRC of the header does not cover, is FFFF,    *)
(* 0000 or, after a torn ACTIVATE, in between.  `asked` is history: an     *)
(* ACTIVATE of this header has been completed.                             *)
(***************************************************************************)
crc16(flash, n) == [c \in 0 .. n - 1 |-> flash[c]]

boot_hdr(len, crc, state) ==
  [kind |-> "HDR", length |-> len, image_crc |-> crc, state |-> state, asked |-> FALSE]
NoHdr(k) == [kind |-> k, length |-> 0, image_crc |-> <<>>, state |-> "FFFF", asked |-> FALSE]

boot_hdr_parse(h) == h.kind = "HDR"

\* Variant with a mistake: a state word that is not erased is taken for ACTIVE.
slot_check_hasty(h, flash) ==
  IF ~boot_hdr_parse(h) THEN "BLANK"
  ELSE IF h.length = 0 \/ h.length > OSFLASH_SIZE THEN "DAMAGED"
  ELSE IF crc16(flash, h.length) # h.image_crc THEN "DAMAGED"
  ELSE IF h.state # "FFFF" THEN "ACTIVE" ELSE "LOADED"

boot_slot_check(h, flash) ==
  IF ~boot_hdr_parse(h) THEN "BLANK"
  ELSE IF h.length = 0 \/ h.length > OSFLASH_SIZE THEN "DAMAGED"
  ELSE IF crc16(flash, h.length) # h.image_crc THEN "DAMAGED"
  ELSE IF h.state = "0000" THEN "ACTIVE" ELSE "LOADED"

Slot == boot_slot_check(oshdr, osflash)

\* Two words of vectors: a stack pointer in SRAM, and a reset vector with the
\* Thumb bit that points into the image.
boot_image_plausible(flash, n) ==
  /\ n >= 2
  /\ flash[0] \in GoodSp
  /\ ThumbBit \in flash[1]
  /\ Entry[flash[1]] \in 0 .. n - 1

-----------------------------------------------------------------------------
(***************************************************************************)
(* Code flash: cf_program refuses a program that would have to set a bit,  *)
(* as a whole.  A loss of power leaves a part of the words programmed.     *)
(***************************************************************************)
CanProgram(off, src) == \A k \in 1 .. Len(src) : src[k] \subseteq osflash[off + k - 1]

Programmed(off, src, n) ==
  [c \in Cell |-> IF c \in off .. off + n - 1 THEN src[c - off + 1] ELSE osflash[c]]

\* Bit by bit, header h can be programmed over the present one: always on an
\* erased page and over itself, never once a bit of the state word is cleared;
\* over another header it depends on the bits (`clears`).
CanProgramHdr(h, clears) ==
  \/ oshdr.kind = "ERASED"
  \/ oshdr.kind # "ERASED" /\ oshdr.state = "FFFF" /\ (oshdr = h \/ clears)

-----------------------------------------------------------------------------
(***************************************************************************)
(* Power.                                                                  *)
(***************************************************************************)
boot_ctx_init == [high_water |-> 0, erased |-> FALSE]

NoFile == [osflash |-> <<>>, oshdr |-> NoHdr("ABSENT")]

BootInit ==
  /\ osflash = [c \in Cell |-> ErasedWord]
  /\ oshdr = NoHdr("ERASED")
  /\ file = NoFile
  /\ ctx = boot_ctx_init
  /\ dirty = FALSE
  /\ host = FALSE
  /\ persistent \in BOOLEAN /\ strap \in BOOLEAN
  /\ pc = "off"
  /\ page = 0
  /\ then = "off"
  /\ sw = "none"

PowerLost ==
  /\ pc' = "off"
  /\ ctx' = boot_ctx_init
  /\ dirty' = FALSE
  /\ host' = FALSE
  /\ page' = 0
  /\ then' = "off"
  /\ sw' = "none"

PowerCut == pc # "off" /\ PowerLost /\ UNCHANGED <<osflash, oshdr, file, board>>

\* The strap is a pin, or a file, that the operator holds or lets go.
Strap ==
  /\ strap' = ~strap
  /\ UNCHANGED <<osflash, oshdr, file, ctx, dirty, host, persistent, pc, page, then, sw>>

\* Without a host there is no file to be found.
bootsel_asserted(available) == strap /\ (persistent \/ available)

\* slot_power_on: RAM is loaded from the files.  A short file leaves zeros
\* behind its end; unless both have contents, the slot is made blank.  Flash
\* holds what it held.
slot_power_on(available) ==
  LET stored == available /\ file.osflash # <<>> /\ file.oshdr.kind # "ABSENT"
  IN IF persistent THEN UNCHANGED slot
     ELSE IF stored
       THEN /\ osflash' = [c \in Cell |-> IF c < Len(file.osflash)
                                          THEN file.osflash[c + 1] ELSE {}]
            /\ oshdr' = file.oshdr
       ELSE /\ osflash' = [c \in Cell |-> ErasedWord]
            /\ oshdr' = NoHdr("ERASED")

\* main: look for a host, load the slot and decide.
main ==
  /\ pc = "off"
  /\ host' \in IF persistent THEN {FALSE} ELSE BOOLEAN
  /\ slot_power_on(host')
  /\ pc' = IF /\ ~bootsel_asserted(host')
              /\ boot_slot_check(oshdr', osflash') = "ACTIVE"
              /\ boot_image_plausible(osflash', oshdr'.length)
           THEN "os" ELSE "loader"
  /\ UNCHANGED <<file, ctx, dirty, board, page, then, sw>>

-----------------------------------------------------------------------------
(***************************************************************************)
(* slot_flush, in two files.  A store may fail unnoticed, before or after  *)
(* the old file was emptied, and power may be lost in it.                  *)
(***************************************************************************)
FlushThen(next) ==
  /\ pc' = "flash_file"
  /\ then' = next
  /\ UNCHANGED <<osflash, oshdr, file, host, board, page>>

Flushing == dirty /\ host

store_osflash ==
  /\ pc = "flash_file"
  /\ LET whole == [k \in 1 .. OSFLASH_SIZE |-> osflash[k - 1]]
     IN \/ UNCHANGED file
        \/ /\ Flushing
           /\ \E n \in 0 .. OSFLASH_SIZE :
                file' = [file EXCEPT !.osflash = SubSeq(whole, 1, n)]
  /\ \/ pc' = "hdr_file" /\ UNCHANGED <<ctx, dirty, host, page, then, sw>>
     \/ PowerLost
  /\ UNCHANGED <<osflash, oshdr, board>>

\* What a header file holds, and slot_power_on makes of it, when its first bytes
\* only were written: nothing, too little to parse, all that the CRC covers with
\* the state word, or its second byte, read as zeros, or all 16 bytes.
CutHdr(h) ==
  {NoHdr("ABSENT"), [NoHdr("JUNK") EXCEPT !.state = "0000"], h}
  \cup IF h.kind # "HDR" THEN {}
       ELSE {[h EXCEPT !.state = w] : w \in {"0000", IF h.state = "0000" THEN "0000" ELSE "00FF"}}

store_oshdr ==
  /\ pc = "hdr_file"
  /\ \/ UNCHANGED file
     \/ /\ Flushing
        /\ \E h \in CutHdr(oshdr) : file' = [file EXCEPT !.oshdr = h]
  /\ \/ /\ dirty' = FALSE
        /\ pc' = then
        /\ then' = "off"
        /\ ctx' = IF then = "off" THEN boot_ctx_init ELSE ctx
        /\ host' = (host /\ then # "off")
        /\ UNCHANGED <<page, sw>>
     \/ PowerLost
  /\ UNCHANGED <<osflash, oshdr, board>>

\* The boot decision of loader_loop after a reset.
decide ==
  /\ pc = "decide"
  /\ IF ~bootsel_asserted(host) /\ Slot = "ACTIVE"
     THEN pc' = "os" /\ UNCHANGED ctx
     ELSE pc' = "loader" /\ ctx' = boot_ctx_init
  /\ UNCHANGED <<osflash, oshdr, file, dirty, host, board, page, then, sw>>

-----------------------------------------------------------------------------
(***************************************************************************)
(* loader_loop: a reset, the end of the link, or a command.                *)
(***************************************************************************)
card_reset == pc = "loader" /\ FlushThen("decide") /\ sw' = "none" /\ UNCHANGED <<ctx, dirty>>

link_down == pc = "loader" /\ FlushThen("off") /\ sw' = "none" /\ UNCHANGED <<ctx, dirty>>

\* A command is answered with s; any success makes the slot dirty.
Answer(s) ==
  /\ pc' = "loader"
  /\ sw' = s
  /\ dirty' = (dirty \/ s = "9000")
  /\ UNCHANGED <<file, host, board, then>>

Reply(s) == Answer(s) /\ UNCHANGED <<osflash, oshdr, ctx, page>>

\* Wrong class, instruction, parameters or length; and GET STATUS, which
\* changes nothing either.
boot_handle ==
  /\ pc = "loader"
  /\ \E s \in {"6700", "6E00", "6D00", "6A86", "9000"} : Reply(s)

\* Variant with a mistake: the image is erased before its header.
do_erase_image_first ==
  /\ pc = "loader"
  /\ osflash' = [c \in Cell |-> IF c < CFLASH_PAGE THEN ErasedWord ELSE osflash[c]]
  /\ pc' = "erase"
  /\ page' = 0
  /\ sw' = "none"
  /\ UNCHANGED <<oshdr, file, ctx, dirty, host, board, then>>

\* ERASE takes the header first,
do_erase ==
  /\ pc = "loader"
  /\ \/ /\ oshdr' = NoHdr("ERASED")
        /\ pc' = "erase"
        /\ page' = 0
        /\ sw' = "none"
        /\ UNCHANGED <<ctx, dirty, host, then>>
     \/ /\ oshdr' = NoHdr("JUNK")
        /\ PowerLost
  /\ UNCHANGED <<osflash, file, board>>

\* and then OSFLASH page by page.
InPage(c) == c \in page * CFLASH_PAGE .. (page + 1) * CFLASH_PAGE - 1

\* Variant with a mistake: the loop runs for one page more than there are.
LastPage_late == page * CFLASH_PAGE >= OSFLASH_SIZE

LastPage == (page + 1) * CFLASH_PAGE >= OSFLASH_SIZE

\* Variant with a mistake: the loop never gets past the last page.
cf_erase_page_stuck ==
  /\ pc = "erase"
  /\ osflash' = [c \in Cell |-> IF InPage(c) THEN ErasedWord ELSE osflash[c]]
  /\ page' = IF LastPage THEN page ELSE page + 1
  /\ UNCHANGED <<oshdr, file, ctx, dirty, host, board, pc, then, sw>>

\* A loss of power leaves each word of the page somewhere on its way to erased.
cf_erase_page ==
  /\ pc = "erase"
  /\ \/ /\ osflash' = [c \in Cell |-> IF InPage(c) THEN ErasedWord ELSE osflash[c]]
        /\ IF LastPage
           THEN /\ page' = 0
                /\ ctx' = [high_water |-> 0, erased |-> TRUE]
                /\ Answer("9000")
           ELSE /\ page' = page + 1
                /\ UNCHANGED <<file, ctx, dirty, host, board, pc, then, sw>>
     \/ /\ \E torn \in [Cell -> Word] :
             /\ \A c \in Cell : IF InPage(c) THEN osflash[c] \subseteq torn[c]
                                ELSE torn[c] = osflash[c]
             /\ osflash' = torn
        /\ PowerLost
        /\ UNCHANGED <<file, board>>
  /\ UNCHANGED oshdr

\* Variant with a mistake: LOAD does not insist on an ERASE.
do_load_unerased ==
  /\ pc = "loader"
  /\ \E b \in 0 .. OSFLASH_SIZE \div BOOT_BLOCK_SIZE, src \in Blocks :
       LET off == b * BOOT_BLOCK_SIZE
       IN IF off + Len(src) > OSFLASH_SIZE THEN Reply("6A84")
          ELSE IF ~CanProgram(off, src) THEN Reply("6985")
          ELSE /\ osflash' = Programmed(off, src, Len(src))
               /\ ctx' = [ctx EXCEPT !.high_water = off + Len(src)]
               /\ Answer("9000")
               /\ UNCHANGED <<oshdr, page>>

\* Variant with a mistake: a program that is refused has begun.
do_load_partial ==
  /\ pc = "loader"
  /\ ctx.erased
  /\ \E b \in 0 .. OSFLASH_SIZE \div BOOT_BLOCK_SIZE, src \in Blocks :
       LET off == b * BOOT_BLOCK_SIZE
           ok == CanProgram(off, src)
       IN /\ off + Len(src) <= OSFLASH_SIZE
          /\ osflash' = Programmed(off, src, IF ok THEN Len(src) ELSE 1)
          /\ Answer(IF ok THEN "9000" ELSE "6985")
          /\ UNCHANGED <<oshdr, ctx, page>>

\* Variant with a mistake: the mark counts words sent, so a block that is sent
\* again counts twice.
do_load_counting ==
  /\ pc = "loader"
  /\ ctx.erased
  /\ \E b \in 0 .. OSFLASH_SIZE \div BOOT_BLOCK_SIZE, src \in Blocks :
       LET off == b * BOOT_BLOCK_SIZE
       IN /\ off + Len(src) <= OSFLASH_SIZE
          /\ CanProgram(off, src)
          /\ osflash' = Programmed(off, src, Len(src))
          /\ ctx' = [ctx EXCEPT !.high_water = @ + Len(src)]
          /\ Answer("9000")
          /\ UNCHANGED <<oshdr, page>>

\* LOAD of one block, possibly cut short by a loss of power.
do_load ==
  /\ pc = "loader"
  /\ \/ ~ctx.erased /\ Reply("6985")
     \/ /\ ctx.erased
        /\ \E b \in 0 .. OSFLASH_SIZE \div BOOT_BLOCK_SIZE, src \in Blocks :
             LET off == b * BOOT_BLOCK_SIZE
                 end == off + Len(src)
             IN IF Len(src) \notin 1 .. BOOT_BLOCK_SIZE THEN Reply("6700")
                ELSE IF end > OSFLASH_SIZE THEN Reply("6A84")
                ELSE IF ~CanProgram(off, src) THEN Reply("6985")
                ELSE \/ /\ osflash' = Programmed(off, src, Len(src))
                        /\ ctx' = [ctx EXCEPT !.high_water = IF end > @ THEN end ELSE @]
                        /\ Answer("9000")
                        /\ UNCHANGED <<oshdr, page>>
                     \/ /\ \E n \in 0 .. Len(src) : osflash' = Programmed(off, src, n)
                        /\ PowerLost
                        /\ UNCHANGED <<oshdr, file, board>>

\* Variant with a mistake: any image whose CRC matches is accepted.
do_verify_unchecked ==
  /\ pc = "loader"
  /\ ctx.erased
  /\ \E len \in 1 .. ctx.high_water :
       LET h == boot_hdr(len, crc16(osflash, len), "FFFF")
       IN /\ CanProgramHdr(h, FALSE)
          /\ oshdr' = h
          /\ Answer("9000")
          /\ UNCHANGED <<osflash, ctx, page>>

\* VERIFY of len words; `match` says whether the host's CRC is the image's.
do_verify ==
  /\ pc = "loader"
  /\ \/ ~ctx.erased /\ Reply("6985")
     \/ /\ ctx.erased
        /\ \E len \in 0 .. OSFLASH_SIZE + 1, match, clears \in BOOLEAN :
             LET h == boot_hdr(len, crc16(osflash, len), "FFFF")
             IN IF len = 0 \/ len > OSFLASH_SIZE THEN Reply("6A84")
                ELSE IF len > ctx.high_water \/ ~match THEN Reply("6A80")
                ELSE IF ~boot_image_plausible(osflash, len) THEN Reply("6984")
                ELSE IF ~CanProgramHdr(h, clears) THEN Reply("6581")
                ELSE \/ /\ oshdr' = h
                        /\ Answer("9000")
                        /\ UNCHANGED <<osflash, ctx, page>>
                     \/ /\ oshdr' = NoHdr("JUNK")
                        /\ PowerLost
                        /\ UNCHANGED <<osflash, file, board>>

\* ACTIVATE clears the state word.
do_activate ==
  /\ pc = "loader"
  /\ CASE Slot = "BLANK" -> Reply("6A82")
       [] Slot = "DAMAGED" -> Reply("6984")
       [] Slot = "ACTIVE" -> Reply("9000")
       [] Slot = "LOADED" ->
            \/ /\ oshdr' = [oshdr EXCEPT !.state = "0000", !.asked = TRUE]
               /\ Answer("9000")
               /\ UNCHANGED <<osflash, ctx, page>>
            \/ /\ oshdr' = [oshdr EXCEPT !.state = "00FF"]
               /\ PowerLost
               /\ UNCHANGED <<osflash, file, board>>

\* RESTART hands the core to an active slot without another look.
do_restart ==
  /\ pc = "loader"
  /\ IF Slot # "ACTIVE" THEN Reply("6A82")
     ELSE FlushThen("os") /\ sw' = "9000" /\ dirty' = TRUE /\ UNCHANGED ctx

-----------------------------------------------------------------------------
Internal == cf_erase_page \/ store_osflash \/ store_oshdr \/ decide

BootNext ==
  \/ main
  \/ Internal
  \/ card_reset
  \/ link_down
  \/ boot_handle
  \/ do_erase
  \/ do_load
  \/ do_verify
  \/ do_activate
  \/ do_restart
  \/ PowerCut
  \/ Strap

\* The processor runs while there is power; nothing forces the host to act.
BootSpec == BootInit /\ [][BootNext]_vars /\ WF_vars(Internal)

-----------------------------------------------------------------------------
(***************************************************************************)
(* Properties.                                                             *)
(***************************************************************************)
Image == UNION {[0 .. n - 1 -> Word] : n \in 1 .. OSFLASH_SIZE}
Header == [kind : {"ERASED", "JUNK", "ABSENT", "HDR"}, length : 0 .. OSFLASH_SIZE,
           image_crc : Image \cup {<<>>}, state : {"FFFF", "00FF", "0000"},
           asked : BOOLEAN]

\* Type invariant: the slot, its mirror and boot_ctx hold what the code's
\* declarations allow.
BootTypeOK ==
  /\ osflash \in [Cell -> Word]
  /\ oshdr \in Header
  /\ file \in [osflash : Seq(Word), oshdr : Header]
  /\ ctx \in [high_water : 0 .. OSFLASH_SIZE, erased : BOOLEAN]
  /\ dirty \in BOOLEAN /\ host \in BOOLEAN /\ strap \in BOOLEAN /\ persistent \in BOOLEAN
  /\ pc \in {"off", "loader", "erase", "flash_file", "hdr_file", "decide", "os"}
  /\ page \in Nat
  /\ then \in {"decide", "os", "off"}

\* The core is handed only to an image that is whole, under a header that reads
\* ACTIVE, and has sane vectors.  RESTART and the reset of loader_loop do not look
\* at the vectors, and LOAD may still change flash after VERIFY: what VERIFY
\* established has to survive loads, torn writes, and a mirror stored in two files.
OnlySoundImageRuns ==
  pc = "os" => Slot = "ACTIVE" /\ boot_image_plausible(osflash, oshdr.length)

\* boot_hdr.h: an image whose state word is not 0000 is "LOADED", and "will NOT be
\* booted".  So what runs was activated: an ACTIVATE of it was carried out, and a
\* torn one, a reset or a loss of power does not do for it.
\* This holds of flash.  On the emulator the header is read back from a file, and
\* one that was cut behind its CRC reads as ACTIVE.
OnlyActivatedRuns == persistent /\ pc = "os" => oshdr.asked

\* A command that is refused leaves slot and loader state as they were, which is
\* why cf_program checks every byte before it stores one.
RefusedLeavesSlot ==
  [][sw' \notin {"none", "9000"} => UNCHANGED <<osflash, oshdr, ctx>>]_vars

\* On flash, no loss of power and no ERASE makes a slot read as damaged (do_erase
\* takes the header first for that): only a LOAD does, which writes the image under
\* a header that VERIFY has written before in the same session.
OnlyLoadDamages ==
  [][persistent /\ Slot # "DAMAGED" /\ Slot' = "DAMAGED" =>
       pc = "loader" /\ ctx.erased /\ oshdr' = oshdr]_vars

\* On flash, an active OS is lost only through its header being erased, once
\* the session that loaded it is over: no other command, reset or loss of power
\* takes it away (do_load refuses without an ERASE for that).
ActiveUntilErased ==
  [][persistent /\ Slot = "ACTIVE" /\ ~ctx.erased /\ Slot' # "ACTIVE" =>
       oshdr'.kind \in {"ERASED", "JUNK"}]_vars

\* boot_loader.h: high_water is the "highest offset+length written since ERASE".
\* Nothing above the mark has been written, in whatever order the blocks came, and
\* nothing of the image before the ERASE is left there: VERIFY, which refuses
\* a length above the mark, never refuses bytes that were loaded.
HighWaterCovers ==
  ctx.erased => \A c \in Cell : c >= ctx.high_water => osflash[c] = ErasedWord

\* The steps until the ROM waits for the host again, at most: an ERASE takes no
\* more of them than the slot has words, a flush takes three.
StepsLeft ==
  CASE pc = "erase" -> OSFLASH_SIZE - page * CFLASH_PAGE
    [] pc = "flash_file" -> 3
    [] pc = "hdr_file" -> 2
    [] pc = "decide" -> 1
    [] OTHER -> 0

\* While the ROM is busy, every step but one of the strap leaves fewer steps to
\* go: the loop over the pages in cf_erase_all and the two stores of slot_flush
\* come to their end, whatever fails in them.
LoaderAdvances ==
  [][strap' = strap /\ pc \in {"erase", "flash_file", "hdr_file", "decide"} =>
       StepsLeft' \in 0 .. StepsLeft - 1]_vars

\* An ERASE, a reset, a RESTART or the end of the link runs to its end, unless
\* power is lost.
LoaderFinishes ==
  pc \in {"erase", "flash_file", "hdr_file", "decide"} ~> pc \in {"loader", "os", "off"}
=============================================================================
