----------------------------- MODULE BootProofs ----------------------------
(***************************************************************************)
(* The core is never handed to an unsound image, for every size of the     *)
(* slot, on flash and with the mirror, whatever the host sends and         *)
(* wherever power is lost.                                                 *)
(*                                                                         *)
(* A state in which the OS runs says nothing about how VERIFY was passed,  *)
(* so the invariant follows the header instead: every header that parses,  *)
(* in the slot or in the host file, carries the CRC of a sound image.  LOAD*)
(* may change flash under a header, but then the CRC does not match and    *)
(* the slot is not active.                                                 *)
(*                                                                         *)
(* The action properties follow from a second invariant, StageOK, and from *)
(* a list of the five ways in which a step can touch a slot in flash.      *)
(***************************************************************************)
EXTENDS BootLoader, TLAPS

USE DEF board

SoundHeader(h) ==
  boot_hdr_parse(h) => /\ h.length \in 1 .. OSFLASH_SIZE
                       /\ boot_image_plausible(h.image_crc, h.length)

Committed == pc = "os" \/ (pc \in {"flash_file", "hdr_file"} /\ then = "os")

BootInv ==
  /\ BootTypeOK
  /\ SoundHeader(oshdr)
  /\ SoundHeader(file.oshdr)
  /\ Committed => Slot = "ACTIVE"

-----------------------------------------------------------------------------
\* A header written by boot_hdr_serialise is a header, and so is no header.
LEMMA HeaderTypes ==
  /\ \A k \in {"ERASED", "JUNK", "ABSENT"} : NoHdr(k) \in Header /\ SoundHeader(NoHdr(k))
  /\ \A n \in 1 .. OSFLASH_SIZE : \A f \in [Cell -> Word] :
       boot_hdr(n, crc16(f, n), "FFFF") \in Header
<1> USE BootAssumption
<1>1. ASSUME NEW k \in {"ERASED", "JUNK", "ABSENT"}
      PROVE  NoHdr(k) \in Header /\ SoundHeader(NoHdr(k))
  BY DEF NoHdr, Header, SoundHeader, boot_hdr_parse
<1>2. ASSUME NEW n \in 1 .. OSFLASH_SIZE, NEW f \in [Cell -> Word]
      PROVE  boot_hdr(n, crc16(f, n), "FFFF") \in Header
  <2>1. crc16(f, n) \in [0 .. n - 1 -> Word]
    BY DEF crc16, Cell
  <2>2. crc16(f, n) \in Image
    BY <2>1 DEF Image
  <2>. QED
    BY <2>2 DEF boot_hdr, Header
<1>. QED
  BY <1>1, <1>2

\* Plausibility depends only on the words the CRC covers.
LEMMA PlausibleByCrc ==
  ASSUME NEW n \in Nat, NEW f
  PROVE  boot_image_plausible(crc16(f, n), n) <=> boot_image_plausible(f, n)
<1>1. CASE n >= 2
  <2>1. crc16(f, n)[0] = f[0] /\ crc16(f, n)[1] = f[1]
    BY <1>1 DEF crc16
  <2>. QED
    BY <2>1 DEF boot_image_plausible
<1>2. CASE ~(n >= 2)
  BY <1>2 DEF boot_image_plausible
<1>. QED
  BY <1>1, <1>2

\* Programming and erasing leave a word in every cell.
LEMMA FlashTypes ==
  ASSUME BootTypeOK
  PROVE  /\ [c \in Cell |-> ErasedWord] \in [Cell -> Word]
         /\ \A src \in Blocks : \A off \in Nat, n \in 0 .. Len(src) :
              Programmed(off, src, n) \in [Cell -> Word]
<1> USE BootAssumption
<1>1. ErasedWord \in Word
  BY DEF ErasedWord, Word
<1>2. ASSUME NEW src \in Blocks, NEW off \in Nat, NEW n \in 0 .. Len(src)
      PROVE  Programmed(off, src, n) \in [Cell -> Word]
  <2>1. src \in Seq(Word)
    OBVIOUS
  <2>2. ASSUME NEW c \in Cell, c \in off .. off + n - 1 PROVE src[c - off + 1] \in Word
    <3>1. c - off + 1 \in 1 .. Len(src)
      BY <2>1, <2>2 DEF Cell
    <3>. QED
      BY <2>1, <3>1
  <2>. QED
    BY <2>2 DEF Programmed, BootTypeOK
<1>. QED
  BY <1>1, <1>2

\* Wherever power is lost, what is left in flash and in the files counts.
LEMMA PowerLostInv ==
  ASSUME PowerLost, strap' \in BOOLEAN, persistent' \in BOOLEAN,
         osflash' \in [Cell -> Word], oshdr' \in Header, SoundHeader(oshdr)',
         file' \in [osflash : Seq(Word), oshdr : Header], SoundHeader(file.oshdr)'
  PROVE  BootInv'
<1>1. ctx' \in [high_water : 0 .. OSFLASH_SIZE, erased : BOOLEAN]
  BY BootAssumption DEF PowerLost, boot_ctx_init
<1>2. BootTypeOK'
  BY <1>1 DEF PowerLost, BootTypeOK
<1>. QED
  BY <1>2 DEF PowerLost, BootInv, Committed

\* A command that only answers.
LEMMA ReplyInv ==
  ASSUME BootInv, NEW s, Reply(s)
  PROVE  BootInv'
<1>1. dirty' \in BOOLEAN
  BY DEF Reply, Answer, BootInv, BootTypeOK
<1>2. BootTypeOK' /\ SoundHeader(oshdr)' /\ SoundHeader(file.oshdr)'
  BY <1>1 DEF Reply, Answer, BootInv, BootTypeOK, SoundHeader, boot_hdr_parse,
             boot_image_plausible
<1>. QED
  BY <1>2 DEF Reply, Answer, BootInv, Committed

\* A command that succeeds and leaves the loader waiting.
LEMMA AnswerInv ==
  ASSUME BootInv, NEW s, Answer(s), page' \in Nat,
         osflash' \in [Cell -> Word], oshdr' \in Header, SoundHeader(oshdr)',
         ctx' \in [high_water : 0 .. OSFLASH_SIZE, erased : BOOLEAN]
  PROVE  BootInv'
<1>1. dirty' \in BOOLEAN
  BY DEF Answer, BootInv, BootTypeOK
<1>2. BootTypeOK' /\ SoundHeader(file.oshdr)'
  BY <1>1 DEF Answer, BootInv, BootTypeOK, SoundHeader, boot_hdr_parse, boot_image_plausible
<1>. QED
  BY <1>2 DEF Answer, BootInv, Committed

-----------------------------------------------------------------------------
\* A blank chip.
LEMMA InitInv == BootInit => BootInv
<1> SUFFICES ASSUME BootInit PROVE BootInv
  OBVIOUS
<1>1. osflash \in [Cell -> Word]
  BY DEF BootInit, ErasedWord, Word
<1>2. oshdr \in Header /\ SoundHeader(oshdr) /\ file.oshdr \in Header /\ SoundHeader(file.oshdr)
  BY HeaderTypes DEF BootInit, NoFile
<1>3. ctx \in [high_water : 0 .. OSFLASH_SIZE, erased : BOOLEAN]
  BY BootAssumption DEF BootInit, boot_ctx_init
<1>4. file \in [osflash : Seq(Word), oshdr : Header]
  BY <1>2 DEF BootInit, NoFile
<1>5. BootTypeOK
  BY <1>1, <1>2, <1>3, <1>4 DEF BootInit, BootTypeOK
<1>. QED
  BY <1>2, <1>5 DEF BootInit, BootInv, Committed

\* Power-on: the slot is what flash holds, or what the files hold.
LEMMA MainInv == BootInv /\ main => BootInv'
<1> SUFFICES ASSUME BootInv, main PROVE BootInv'
  OBVIOUS
<1>1. /\ osflash' \in [Cell -> Word]
      /\ oshdr' \in Header
      /\ SoundHeader(oshdr)'
  <2>1. CASE persistent
    BY <2>1 DEF main, slot_power_on, slot, BootInv, BootTypeOK, SoundHeader,
                boot_hdr_parse, boot_image_plausible
  <2>2. CASE ~persistent /\ host' /\ file.osflash # <<>> /\ file.oshdr.kind # "ABSENT"
    <3>1. osflash' \in [Cell -> Word]
      <4>1. ASSUME NEW c \in Cell, c < Len(file.osflash) PROVE file.osflash[c + 1] \in Word
        BY <4>1 DEF BootInv, BootTypeOK, Cell
      <4>2. {} \in Word
        BY DEF Word
      <4>. QED
        BY <2>2, <4>1, <4>2 DEF main, slot_power_on
    <3>2. oshdr' = file.oshdr
      BY <2>2 DEF main, slot_power_on
    <3>. QED
      BY <3>1, <3>2 DEF BootInv, BootTypeOK, SoundHeader, boot_hdr_parse, boot_image_plausible
  <2>3. CASE ~persistent /\ ~(host' /\ file.osflash # <<>> /\ file.oshdr.kind # "ABSENT")
    <3>1. osflash' = [c \in Cell |-> ErasedWord] /\ oshdr' = NoHdr("ERASED")
      BY <2>3 DEF main, slot_power_on
    <3>. QED
      BY <3>1, HeaderTypes, FlashTypes DEF BootInv, SoundHeader, boot_hdr_parse,
                                           boot_image_plausible
  <2>. QED
    BY <2>1, <2>2, <2>3, BootAssumption
<1>2. BootTypeOK' /\ SoundHeader(file.oshdr)'
  BY <1>1 DEF main, BootInv, BootTypeOK, SoundHeader, boot_hdr_parse, boot_image_plausible
<1>3. (Committed => Slot = "ACTIVE")'
  BY DEF main, Committed, Slot, boot_slot_check, boot_hdr_parse, crc16
<1>. QED
  BY <1>1, <1>2, <1>3 DEF BootInv

\* slot_flush starts: the slot and the files are as they were.
LEMMA FlushInv ==
  ASSUME BootInv, NEW next \in {"decide", "os", "off"}, FlushThen(next),
         next = "os" => Slot = "ACTIVE", dirty' \in BOOLEAN, UNCHANGED ctx
  PROVE  BootInv'
<1>1. BootTypeOK' /\ SoundHeader(oshdr)' /\ SoundHeader(file.oshdr)'
  BY DEF FlushThen, BootInv, BootTypeOK, SoundHeader, boot_hdr_parse, boot_image_plausible
<1>2. Slot' = Slot
  BY DEF FlushThen, Slot, boot_slot_check, boot_hdr_parse, crc16
<1>. QED
  BY <1>1, <1>2 DEF FlushThen, BootInv, Committed

\* The first file of slot_flush, stored, not stored, or cut short.
LEMMA StoreFlashInv == BootInv /\ store_osflash => BootInv'
<1> SUFFICES ASSUME BootInv, store_osflash PROVE BootInv'
  OBVIOUS
<1> DEFINE whole == [k \in 1 .. OSFLASH_SIZE |-> osflash[k - 1]]
<1>1. whole \in Seq(Word) /\ Len(whole) = OSFLASH_SIZE
  BY BootAssumption DEF BootInv, BootTypeOK, Cell
<1>2. ASSUME NEW n \in 0 .. OSFLASH_SIZE PROVE SubSeq(whole, 1, n) \in Seq(Word)
  <2> HIDE DEF whole
  <2>. QED
    BY <1>1, <1>2, BootAssumption
<1>3. osflash' = osflash /\ oshdr' = oshdr /\ board' = board
  BY DEF store_osflash
<1>4. file'.oshdr = file.oshdr /\ file' \in [osflash : Seq(Word), oshdr : Header]
  <2> HIDE DEF whole
  <2>1. \/ file' = file
        \/ file' = [file EXCEPT !.osflash = whole]
        \/ \E n \in 0 .. OSFLASH_SIZE : file' = [file EXCEPT !.osflash = SubSeq(whole, 1, n)]
    BY DEF store_osflash, whole
  <2>2. file \in [osflash : Seq(Word), oshdr : Header]
    BY DEF BootInv, BootTypeOK
  <2>. QED
    BY <1>1, <1>2, <2>1, <2>2
<1>5. SoundHeader(oshdr)' /\ SoundHeader(file.oshdr)'
  BY <1>3, <1>4 DEF BootInv, SoundHeader, boot_hdr_parse, boot_image_plausible
<1>6. CASE pc' = "hdr_file" /\ UNCHANGED <<ctx, dirty, host, page, then, sw>>
  <2>1. BootTypeOK'
    BY <1>3, <1>4, <1>6 DEF BootInv, BootTypeOK
  <2>2. Slot' = Slot
    BY <1>3 DEF Slot, boot_slot_check, boot_hdr_parse, crc16
  <2>. QED
    BY <1>5, <1>6, <2>1, <2>2 DEF BootInv, Committed, store_osflash
<1>7. CASE PowerLost
  BY <1>3, <1>4, <1>5, <1>7, PowerLostInv DEF BootInv, BootTypeOK
<1>. QED
  BY <1>6, <1>7 DEF store_osflash

\* A header that was cut parses only if all that its CRC covers is there, and then
\* it describes the image that the whole one did.
LEMMA CutHeader ==
  ASSUME NEW h \in Header, SoundHeader(h), NEW k \in CutHdr(h)
  PROVE  k \in Header /\ SoundHeader(k)
<1>1. CASE k \in {NoHdr("ABSENT"), h}
  BY <1>1, HeaderTypes
<1>2. CASE k = [NoHdr("JUNK") EXCEPT !.state = "0000"]
  <2>1. k = [kind |-> "JUNK", length |-> 0, image_crc |-> <<>>, state |-> "0000",
             asked |-> FALSE]
    BY <1>2 DEF NoHdr
  <2>2. 0 \in 0 .. OSFLASH_SIZE
    BY BootAssumption
  <2>3. k \in Header
    BY <2>1, <2>2 DEF Header
  <2>. QED
    BY <2>1, <2>3 DEF SoundHeader, boot_hdr_parse
<1>3. CASE \E w \in {"0000", "00FF"} : k = [h EXCEPT !.state = w]
  <2>1. /\ k \in Header /\ k.kind = h.kind /\ k.length = h.length
        /\ k.image_crc = h.image_crc
    BY <1>3 DEF Header
  <2>. QED
    BY <2>1 DEF SoundHeader, boot_hdr_parse
<1>. QED
  BY <1>1, <1>2, <1>3 DEF CutHdr

\* The second file, and where slot_flush returns to.
LEMMA StoreHdrInv == BootInv /\ store_oshdr => BootInv'
<1> SUFFICES ASSUME BootInv, store_oshdr PROVE BootInv'
  OBVIOUS
<1>1. osflash' = osflash /\ oshdr' = oshdr /\ board' = board
  BY DEF store_oshdr
<1>2. /\ file'.osflash = file.osflash
      /\ file'.oshdr \in {file.oshdr} \cup CutHdr(oshdr)
      /\ file' = [osflash |-> file'.osflash, oshdr |-> file'.oshdr]
  <2>1. \E h \in {file.oshdr} \cup CutHdr(oshdr) : file' = [file EXCEPT !.oshdr = h]
    BY DEF store_oshdr, BootInv, BootTypeOK
  <2>. QED
    BY <2>1 DEF BootInv, BootTypeOK
<1>3. /\ file' \in [osflash : Seq(Word), oshdr : Header]
      /\ SoundHeader(oshdr)' /\ SoundHeader(file.oshdr)'
  <2>1. file'.oshdr \in Header /\ SoundHeader(file'.oshdr)
    BY <1>2, CutHeader DEF BootInv, BootTypeOK
  <2>2. SoundHeader(file.oshdr)' /\ SoundHeader(oshdr)'
    BY <1>1, <2>1 DEF BootInv, SoundHeader, boot_hdr_parse, boot_image_plausible
  <2>. QED
    BY <1>2, <2>1, <2>2 DEF BootInv, BootTypeOK
<1>4. CASE /\ dirty' = FALSE /\ pc' = then /\ then' = "off"
           /\ ctx' = (IF then = "off" THEN boot_ctx_init ELSE ctx)
           /\ host' = (host /\ then # "off") /\ UNCHANGED <<page, sw>>
  <2>1. ctx' \in [high_water : 0 .. OSFLASH_SIZE, erased : BOOLEAN]
    BY <1>4, BootAssumption DEF boot_ctx_init, BootInv, BootTypeOK
  <2>2. BootTypeOK'
    BY <1>1, <1>2, <1>3, <1>4, <2>1 DEF BootInv, BootTypeOK
  <2>3. Slot' = Slot
    BY <1>1 DEF Slot, boot_slot_check, boot_hdr_parse, crc16
  <2>. QED
    BY <1>3, <1>4, <2>2, <2>3 DEF BootInv, Committed, store_oshdr
<1>5. CASE PowerLost
  BY <1>1, <1>2, <1>3, <1>5, PowerLostInv DEF BootInv, BootTypeOK
<1>. QED
  BY <1>4, <1>5 DEF store_oshdr

\* The boot decision after a reset.
LEMMA DecideInv == BootInv /\ decide => BootInv'
<1> SUFFICES ASSUME BootInv, decide PROVE BootInv'
  OBVIOUS
<1>1. ctx' \in [high_water : 0 .. OSFLASH_SIZE, erased : BOOLEAN]
  <2>1. ctx \in [high_water : 0 .. OSFLASH_SIZE, erased : BOOLEAN]
    BY DEF BootInv, BootTypeOK
  <2>2. boot_ctx_init \in [high_water : 0 .. OSFLASH_SIZE, erased : BOOLEAN]
    BY BootAssumption DEF boot_ctx_init
  <2>. QED
    BY <2>1, <2>2 DEF decide
<1>2. BootTypeOK' /\ SoundHeader(oshdr)' /\ SoundHeader(file.oshdr)'
  BY <1>1 DEF decide, BootInv, BootTypeOK, SoundHeader, boot_hdr_parse, boot_image_plausible
<1>3. Slot' = Slot
  BY DEF decide, Slot, boot_slot_check, boot_hdr_parse, crc16
<1>. QED
  BY <1>2, <1>3 DEF decide, BootInv, Committed

-----------------------------------------------------------------------------
\* ERASE: the header page.
LEMMA EraseInv == BootInv /\ do_erase => BootInv'
<1> SUFFICES ASSUME BootInv, do_erase PROVE BootInv'
  OBVIOUS
<1>1. /\ oshdr' \in Header /\ SoundHeader(oshdr)' /\ SoundHeader(file.oshdr)'
      /\ osflash' = osflash /\ file' = file /\ board' = board
  BY HeaderTypes DEF do_erase, BootInv, SoundHeader, boot_hdr_parse, boot_image_plausible
<1>2. CASE pc' = "erase" /\ page' = 0 /\ UNCHANGED <<ctx, dirty, host, then>>
  <2>1. BootTypeOK'
    BY <1>1, <1>2 DEF BootInv, BootTypeOK
  <2>. QED
    BY <1>1, <1>2, <2>1 DEF BootInv, Committed
<1>3. CASE PowerLost
  BY <1>1, <1>3, PowerLostInv DEF BootInv, BootTypeOK
<1>. QED
  BY <1>2, <1>3 DEF do_erase

\* ERASE: a page of OSFLASH.
LEMMA ErasePageInv == BootInv /\ cf_erase_page => BootInv'
<1> SUFFICES ASSUME BootInv, cf_erase_page PROVE BootInv'
  OBVIOUS
<1>1. osflash' \in [Cell -> Word]
  <2>1. ErasedWord \in Word
    BY DEF ErasedWord, Word
  <2>2. CASE osflash' = [c \in Cell |-> IF InPage(c) THEN ErasedWord ELSE osflash[c]]
    BY <2>1, <2>2 DEF BootInv, BootTypeOK
  <2>. QED
    BY <2>2 DEF cf_erase_page
<1>2. oshdr' = oshdr /\ SoundHeader(oshdr)'
  BY DEF cf_erase_page, BootInv, SoundHeader, boot_hdr_parse, boot_image_plausible
<1>3. CASE LastPage /\ ~PowerLost
  <2>1. ctx' \in [high_water : 0 .. OSFLASH_SIZE, erased : BOOLEAN]
    <3>1. ctx' = [high_water |-> 0, erased |-> TRUE]
      BY <1>3 DEF cf_erase_page
    <3>2. 0 \in 0 .. OSFLASH_SIZE
      BY BootAssumption
    <3>. QED
      BY <3>1, <3>2
  <2>2. Answer("9000") /\ page' = 0
    BY <1>3 DEF cf_erase_page
  <2>. QED
    BY <1>1, <1>2, <2>1, <2>2, AnswerInv DEF BootInv, BootTypeOK
<1>4. CASE ~LastPage /\ ~PowerLost
  <2>1. /\ page' = page + 1
        /\ UNCHANGED <<file, ctx, dirty, host, board, pc, then, sw>>
    BY <1>4 DEF cf_erase_page
  <2>2. BootTypeOK' /\ SoundHeader(file.oshdr)'
    BY <1>1, <1>2, <2>1 DEF BootInv, BootTypeOK, SoundHeader, boot_hdr_parse,
                            boot_image_plausible
  <2>. QED
    BY <1>2, <2>1, <2>2 DEF BootInv, Committed, cf_erase_page
<1>5. CASE PowerLost
  <2>1. file' = file /\ board' = board
    BY DEF cf_erase_page, Answer
  <2>2. SoundHeader(file.oshdr)'
    BY <2>1 DEF BootInv, SoundHeader, boot_hdr_parse, boot_image_plausible
  <2>. QED
    BY <1>1, <1>2, <1>5, <2>1, <2>2, PowerLostInv DEF BootInv, BootTypeOK
<1>. QED
  BY <1>3, <1>4, <1>5

\* LOAD: flash changes, the header does not.
LEMMA LoadInv == BootInv /\ do_load => BootInv'
<1> SUFFICES ASSUME BootInv, do_load PROVE BootInv'
  OBVIOUS
<1>1. CASE \E s \in {"6985", "6700", "6A84"} : Reply(s)
  BY <1>1, ReplyInv
<1>2. CASE ~ \E s \in {"6985", "6700", "6A84"} : Reply(s)
  <2>1. PICK b \in 0 .. OSFLASH_SIZE \div BOOT_BLOCK_SIZE, src \in Blocks :
          LET off == b * BOOT_BLOCK_SIZE
              end == off + Len(src)
          IN /\ end <= OSFLASH_SIZE
             /\ \/ /\ osflash' = Programmed(off, src, Len(src))
                   /\ ctx' = [ctx EXCEPT !.high_water = IF end > @ THEN end ELSE @]
                   /\ Answer("9000")
                   /\ UNCHANGED <<oshdr, page>>
                \/ /\ \E n \in 0 .. Len(src) : osflash' = Programmed(off, src, n)
                   /\ PowerLost
                   /\ UNCHANGED <<oshdr, file, board>>
    <3>1. PICK b \in 0 .. OSFLASH_SIZE \div BOOT_BLOCK_SIZE, src \in Blocks :
            LET off == b * BOOT_BLOCK_SIZE
                end == off + Len(src)
            IN IF end > OSFLASH_SIZE THEN FALSE
               ELSE \/ /\ osflash' = Programmed(off, src, Len(src))
                       /\ ctx' = [ctx EXCEPT !.high_water = IF end > @ THEN end ELSE @]
                       /\ Answer("9000")
                       /\ UNCHANGED <<oshdr, page>>
                    \/ /\ \E n \in 0 .. Len(src) : osflash' = Programmed(off, src, n)
                       /\ PowerLost
                       /\ UNCHANGED <<oshdr, file, board>>
      BY <1>2, Zenon DEF do_load
    <3>2. b * BOOT_BLOCK_SIZE + Len(src) <= OSFLASH_SIZE
      <4>1. b * BOOT_BLOCK_SIZE \in Nat /\ Len(src) \in Nat
        BY BootAssumption
      <4>2. ~(b * BOOT_BLOCK_SIZE + Len(src) > OSFLASH_SIZE)
        BY <3>1
      <4>. QED
        BY <4>1, <4>2, BootAssumption
    <3>. QED
      BY <3>1, <3>2
  <2> DEFINE off == b * BOOT_BLOCK_SIZE
             end == off + Len(src)
  <2>2. off \in Nat /\ end \in 0 .. OSFLASH_SIZE /\ Len(src) \in 0 .. Len(src)
    BY <2>1, BootAssumption
  <2>3. oshdr' = oshdr /\ SoundHeader(oshdr)' /\ oshdr' \in Header
    BY <2>1 DEF BootInv, BootTypeOK, SoundHeader, boot_hdr_parse, boot_image_plausible
  <2>4. osflash' \in [Cell -> Word]
    <3> HIDE DEF off
    <3>1. \E n \in 0 .. Len(src) : osflash' = Programmed(off, src, n)
      BY <2>1, <2>2 DEF off
    <3>. QED
      BY <2>2, <3>1, FlashTypes DEF BootInv
  <2>5. CASE /\ ctx' = [ctx EXCEPT !.high_water = IF end > @ THEN end ELSE @]
             /\ Answer("9000") /\ UNCHANGED <<oshdr, page>>
    <3> HIDE DEF end
    <3>1. ctx' \in [high_water : 0 .. OSFLASH_SIZE, erased : BOOLEAN]
      BY <2>2, <2>5 DEF BootInv, BootTypeOK
    <3>. QED
      BY <2>3, <2>4, <2>5, <3>1, AnswerInv DEF BootInv, BootTypeOK
  <2>6. CASE PowerLost /\ UNCHANGED <<oshdr, file, board>>
    <3>1. SoundHeader(file.oshdr)'
      BY <2>6 DEF BootInv, SoundHeader, boot_hdr_parse, boot_image_plausible
    <3>. QED
      BY <2>3, <2>4, <2>6, <3>1, PowerLostInv DEF BootInv, BootTypeOK
  <2>. QED
    BY <2>1, <2>5, <2>6
<1>. QED
  BY <1>1, <1>2

\* VERIFY: the header it writes carries the CRC of an image it found plausible.
LEMMA VerifyInv == BootInv /\ do_verify => BootInv'
<1> SUFFICES ASSUME BootInv, do_verify PROVE BootInv'
  OBVIOUS
<1>1. CASE \E s \in {"6985", "6A84", "6A80", "6984", "6581"} : Reply(s)
  BY <1>1, ReplyInv
<1>2. CASE ~ \E s \in {"6985", "6A84", "6A80", "6984", "6581"} : Reply(s)
  <2>1. PICK len \in 0 .. OSFLASH_SIZE + 1 :
          LET h == boot_hdr(len, crc16(osflash, len), "FFFF")
          IN /\ ~(len = 0 \/ len > OSFLASH_SIZE)
             /\ boot_image_plausible(osflash, len)
             /\ \/ /\ oshdr' = h
                   /\ Answer("9000")
                   /\ UNCHANGED <<osflash, ctx, page>>
                \/ /\ oshdr' = NoHdr("JUNK")
                   /\ PowerLost
                   /\ UNCHANGED <<osflash, file, board>>
    BY <1>2, Zenon DEF do_verify
  <2>2. len \in 1 .. OSFLASH_SIZE
    BY <2>1, BootAssumption
  <2>3. CASE /\ oshdr' = boot_hdr(len, crc16(osflash, len), "FFFF")
             /\ Answer("9000")
             /\ UNCHANGED <<osflash, ctx, page>>
    <3>1. oshdr' \in Header
      BY <2>2, <2>3, HeaderTypes DEF BootInv, BootTypeOK
    <3>2. boot_image_plausible(crc16(osflash, len), len)
      BY <2>1, PlausibleByCrc
    <3>3. SoundHeader(oshdr)'
      BY <2>2, <2>3, <3>2 DEF SoundHeader, boot_hdr, boot_image_plausible
    <3>. QED
      BY <2>3, <3>1, <3>3, AnswerInv DEF BootInv, BootTypeOK
  <2>4. CASE /\ oshdr' = NoHdr("JUNK")
             /\ PowerLost
             /\ UNCHANGED <<osflash, file, board>>
    <3>1. oshdr' \in Header /\ SoundHeader(oshdr)' /\ SoundHeader(file.oshdr)'
      BY <2>4, HeaderTypes DEF BootInv, SoundHeader, boot_hdr_parse, boot_image_plausible
    <3>. QED
      BY <2>4, <3>1, PowerLostInv DEF BootInv, BootTypeOK
  <2>. QED
    BY <2>1, <2>3, <2>4
<1>. QED
  BY <1>1, <1>2

\* ACTIVATE: only the state word changes.
LEMMA ActivateInv == BootInv /\ do_activate => BootInv'
<1> SUFFICES ASSUME BootInv, do_activate PROVE BootInv'
  OBVIOUS
<1>1. CASE \E s \in {"6A82", "6984", "9000"} : Reply(s)
  BY <1>1, ReplyInv
<1>2. CASE ~ \E s \in {"6A82", "6984", "9000"} : Reply(s)
  <2>1. Slot \in {"BLANK", "DAMAGED", "ACTIVE", "LOADED"}
    BY DEF Slot, boot_slot_check
  <2>2. /\ osflash' = osflash
        /\ \/ oshdr' = [oshdr EXCEPT !.state = "0000", !.asked = TRUE]
           \/ oshdr' = [oshdr EXCEPT !.state = "00FF"]
        /\ \/ Answer("9000") /\ UNCHANGED <<ctx, page>>
           \/ PowerLost /\ UNCHANGED <<file, board>>
    BY <1>2, <2>1 DEF do_activate
  <2>3. /\ oshdr' \in Header
        /\ oshdr'.kind = oshdr.kind /\ oshdr'.length = oshdr.length
        /\ oshdr'.image_crc = oshdr.image_crc
    BY <2>2 DEF BootInv, BootTypeOK, Header
  <2>4. SoundHeader(oshdr)'
    BY <2>3 DEF BootInv, SoundHeader, boot_hdr_parse, boot_image_plausible
  <2>5. CASE Answer("9000") /\ UNCHANGED <<ctx, page>>
    BY <2>2, <2>3, <2>4, <2>5, AnswerInv DEF BootInv, BootTypeOK
  <2>6. CASE PowerLost /\ UNCHANGED <<file, board>>
    <3>1. SoundHeader(file.oshdr)'
      BY <2>6 DEF BootInv, SoundHeader, boot_hdr_parse, boot_image_plausible
    <3>. QED
      BY <2>2, <2>3, <2>4, <2>6, <3>1, PowerLostInv DEF BootInv, BootTypeOK
  <2>. QED
    BY <2>2, <2>5, <2>6
<1>. QED
  BY <1>1, <1>2

\* RESTART of an active slot, the only command that commits the ROM to it.
LEMMA RestartInv == BootInv /\ do_restart => BootInv'
<1> SUFFICES ASSUME BootInv, do_restart PROVE BootInv'
  OBVIOUS
<1>1. CASE Slot # "ACTIVE"
  BY <1>1, ReplyInv DEF do_restart
<1>2. CASE Slot = "ACTIVE"
  <2>1. FlushThen("os") /\ dirty' = TRUE /\ UNCHANGED ctx
    BY <1>2 DEF do_restart
  <2>. QED
    BY <1>2, <2>1, FlushInv
<1>. QED
  BY <1>1, <1>2

\* A reset or the end of the link starts a flush that does not lead to the OS.
LEMMA LinkInv == BootInv /\ (card_reset \/ link_down) => BootInv'
<1> SUFFICES ASSUME BootInv, card_reset \/ link_down PROVE BootInv'
  OBVIOUS
<1>1. dirty' \in BOOLEAN /\ UNCHANGED ctx
  BY DEF card_reset, link_down, BootInv, BootTypeOK
<1>2. CASE card_reset
  BY <1>1, <1>2, FlushInv DEF card_reset
<1>3. CASE link_down
  BY <1>1, <1>3, FlushInv DEF link_down
<1>. QED
  BY <1>2, <1>3

\* Steps that leave the slot and the files alone: power, the strap, stuttering.
LEMMA QuietInv == BootInv /\ (PowerCut \/ Strap \/ UNCHANGED vars) => BootInv'
<1> SUFFICES ASSUME BootInv, PowerCut \/ Strap \/ UNCHANGED vars PROVE BootInv'
  OBVIOUS
<1>1. /\ osflash' = osflash /\ oshdr' = oshdr /\ file' = file
      /\ SoundHeader(oshdr)' /\ SoundHeader(file.oshdr)'
  BY DEF PowerCut, Strap, vars, BootInv, SoundHeader, boot_hdr_parse, boot_image_plausible
<1>2. CASE PowerCut
  BY <1>1, <1>2, PowerLostInv DEF PowerCut, BootInv, BootTypeOK
<1>3. CASE Strap \/ UNCHANGED vars
  <2>1. BootTypeOK'
    <3>1. strap' \in BOOLEAN
      BY <1>3, Zenon DEF Strap, vars, BootInv, BootTypeOK
    <3>. QED
      BY <1>1, <1>3, <3>1 DEF Strap, vars, BootInv, BootTypeOK
  <2>2. Slot' = Slot
    BY <1>1 DEF Slot, boot_slot_check, boot_hdr_parse, crc16
  <2>. QED
    BY <1>1, <1>3, <2>1, <2>2 DEF Strap, vars, BootInv, Committed
<1>. QED
  BY <1>2, <1>3

-----------------------------------------------------------------------------
\* The inductive invariant of the boot ROM: types, every header that parses
\* describes a sound image, and the ROM commits only to an active slot.
THEOREM BootInvariance == BootSpec => []BootInv
<1>1. BootInv /\ [BootNext]_vars => BootInv'
  <2> SUFFICES ASSUME BootInv, [BootNext]_vars PROVE BootInv'
    OBVIOUS
  <2>1. CASE main
    BY <2>1, MainInv
  <2>2. CASE Internal
    BY <2>2, ErasePageInv, StoreFlashInv, StoreHdrInv, DecideInv DEF Internal
  <2>3. CASE card_reset \/ link_down
    BY <2>3, LinkInv
  <2>4. CASE boot_handle
    BY <2>4, ReplyInv DEF boot_handle
  <2>5. CASE do_erase
    BY <2>5, EraseInv
  <2>6. CASE do_load
    BY <2>6, LoadInv
  <2>7. CASE do_verify
    BY <2>7, VerifyInv
  <2>8. CASE do_activate
    BY <2>8, ActivateInv
  <2>9. CASE do_restart
    BY <2>9, RestartInv
  <2>10. CASE PowerCut \/ Strap \/ UNCHANGED vars
    BY <2>10, QuietInv
  <2>. QED
    BY <2>1, <2>2, <2>3, <2>4, <2>5, <2>6, <2>7, <2>8, <2>9, <2>10 DEF BootNext
<1>. QED
  BY <1>1, InitInv, PTL DEF BootSpec

\* The slot, its mirror and boot_ctx keep their types.
THEOREM BootTypeCorrect == BootSpec => []BootTypeOK
<1>1. BootInv => BootTypeOK
  BY DEF BootInv
<1>. QED
  BY <1>1, BootInvariance, PTL

\* boot_jump is only ever reached with an image that is whole, has sane vectors and
\* stands under a header that reads ACTIVE, on flash and on the emulator, although
\* RESTART and a reset check no vectors themselves.
THEOREM OnlySoundImagesRun == BootSpec => []OnlySoundImageRuns
<1>1. BootInv => OnlySoundImageRuns
  <2> SUFFICES ASSUME BootInv, pc = "os"
               PROVE  Slot = "ACTIVE" /\ boot_image_plausible(osflash, oshdr.length)
    BY DEF OnlySoundImageRuns
  <2>1. Slot = "ACTIVE"
    BY DEF BootInv, Committed
  <2>2. boot_hdr_parse(oshdr) /\ crc16(osflash, oshdr.length) = oshdr.image_crc
    BY <2>1 DEF Slot, boot_slot_check
  <2>3. /\ oshdr.length \in Nat
        /\ boot_image_plausible(crc16(osflash, oshdr.length), oshdr.length)
    BY <2>2, BootAssumption DEF BootInv, SoundHeader
  <2>. QED
    BY <2>1, <2>3, PlausibleByCrc
<1>. QED
  BY <1>1, BootInvariance, PTL
-----------------------------------------------------------------------------
(***************************************************************************)
(* What a step may do to the slot.  The ROM refuses only from the loader,  *)
(* and erases pages only under a header that is gone.                      *)
(***************************************************************************)
StageOK ==
  /\ pc # "loader" => sw \in {"none", "9000"}
  /\ pc = "erase" => oshdr.kind = "ERASED"

RefusedKeeps == sw' \notin {"none", "9000"} => UNCHANGED <<osflash, oshdr, ctx>>

\* The steps that touch the header or the image of a slot in flash.
SlotMoves ==
  \/ UNCHANGED slot
  \/ oshdr'.kind \in {"ERASED", "JUNK"}
  \/ pc = "loader" /\ ctx.erased /\ oshdr' = oshdr
  \/ /\ ctx.erased
     /\ osflash' = osflash
     /\ \E n \in 1 .. OSFLASH_SIZE : oshdr' = boot_hdr(n, crc16(osflash, n), "FFFF")
  \/ /\ Slot = "LOADED"
     /\ osflash' = osflash
     /\ \/ oshdr' = [oshdr EXCEPT !.state = "0000", !.asked = TRUE]
        \/ oshdr' = [oshdr EXCEPT !.state = "00FF"]

\* A loss of power leaves no answer behind.
LEMMA PowerLostStage ==
  ASSUME PowerLost PROVE StageOK' /\ RefusedKeeps
BY DEF PowerLost, StageOK, RefusedKeeps

\* An answer that changes nothing leaves the slot as it was.
LEMMA ReplyStage ==
  ASSUME NEW s, Reply(s) PROVE StageOK' /\ RefusedKeeps /\ UNCHANGED slot
BY DEF Reply, Answer, StageOK, RefusedKeeps, slot

\* A success is no refusal.
LEMMA DoneStage ==
  ASSUME Answer("9000") PROVE StageOK' /\ RefusedKeeps
BY DEF Answer, StageOK, RefusedKeeps

\* The commands that may be refused: the slot moves only in a session that has
\* erased it.
LEMMA CommandStage ==
  ASSUME boot_handle \/ do_load \/ do_verify \/ do_restart
  PROVE  StageOK' /\ RefusedKeeps /\ SlotMoves
<1>1. CASE boot_handle
  BY <1>1, ReplyStage DEF boot_handle, SlotMoves
<1>2. CASE do_load
  <2>1. (\E s : Reply(s)) \/ (ctx.erased /\ oshdr' = oshdr /\ (Answer("9000") \/ PowerLost))
    BY <1>2 DEF do_load
  <2>2. pc = "loader"
    BY <1>2 DEF do_load
  <2>. QED
    BY <2>1, <2>2, ReplyStage, DoneStage, PowerLostStage DEF SlotMoves
<1>3. CASE do_verify
  <2>1. CASE \E s : Reply(s)
    BY <2>1, ReplyStage DEF SlotMoves
  <2>2. CASE ~ \E s : Reply(s)
    <3>1. PICK n \in 0 .. OSFLASH_SIZE + 1 :
            /\ ctx.erased /\ ~(n = 0 \/ n > OSFLASH_SIZE) /\ osflash' = osflash
            /\ \/ oshdr' = boot_hdr(n, crc16(osflash, n), "FFFF") /\ Answer("9000")
               \/ oshdr' = NoHdr("JUNK") /\ PowerLost
      BY <1>3, <2>2, Zenon DEF do_verify
    <3>2. n \in 1 .. OSFLASH_SIZE
      BY <3>1, BootAssumption
    <3>3. SlotMoves
      BY <3>1, <3>2 DEF SlotMoves, NoHdr
    <3>. QED
      BY <3>1, <3>3, DoneStage, PowerLostStage
  <2>. QED
    BY <2>1, <2>2
<1>4. CASE do_restart
  <2>1. CASE \E s : Reply(s)
    BY <2>1, ReplyStage DEF SlotMoves
  <2>2. CASE FlushThen("os") /\ sw' = "9000"
    BY <2>2 DEF FlushThen, StageOK, RefusedKeeps, SlotMoves, slot
  <2>. QED
    BY <1>4, <2>1, <2>2 DEF do_restart
<1>. QED
  BY <1>1, <1>2, <1>3, <1>4

\* ACTIVATE touches only the state word of a loaded slot.
LEMMA ActivateStage ==
  ASSUME BootInv, do_activate PROVE StageOK' /\ RefusedKeeps /\ SlotMoves
<1>1. Slot \in {"BLANK", "DAMAGED", "ACTIVE", "LOADED"}
  BY DEF Slot, boot_slot_check
<1>2. CASE Slot # "LOADED"
  <2>1. \E s : Reply(s)
    BY <1>1, <1>2 DEF do_activate
  <2>. QED
    BY <2>1, ReplyStage DEF SlotMoves
<1>3. CASE Slot = "LOADED"
  <2>1. /\ osflash' = osflash
        /\ \/ oshdr' = [oshdr EXCEPT !.state = "0000", !.asked = TRUE] /\ Answer("9000")
           \/ oshdr' = [oshdr EXCEPT !.state = "00FF"] /\ PowerLost
    BY <1>3 DEF do_activate
  <2>2. SlotMoves
    BY <1>3, <2>1 DEF SlotMoves
  <2>. QED
    BY <2>1, <2>2, DoneStage, PowerLostStage
<1>. QED
  BY <1>2, <1>3

\* ERASE starts with the header, and erases pages when the header is gone.
LEMMA EraseStage ==
  ASSUME StageOK, do_erase \/ cf_erase_page
  PROVE  StageOK' /\ RefusedKeeps /\ SlotMoves
<1>1. CASE do_erase
  <2>1. oshdr'.kind \in {"ERASED", "JUNK"}
    BY <1>1 DEF do_erase, NoHdr
  <2>2. CASE PowerLost
    BY <2>1, <2>2, PowerLostStage DEF SlotMoves
  <2>3. CASE oshdr' = NoHdr("ERASED") /\ pc' = "erase" /\ sw' = "none"
    BY <2>1, <2>3 DEF StageOK, RefusedKeeps, SlotMoves, NoHdr
  <2>. QED
    BY <1>1, <2>2, <2>3 DEF do_erase
<1>2. CASE cf_erase_page
  <2>1. pc = "erase" /\ oshdr' = oshdr /\ oshdr.kind = "ERASED" /\ sw \in {"none", "9000"}
    BY <1>2 DEF cf_erase_page, StageOK
  <2>2. SlotMoves
    BY <2>1 DEF SlotMoves
  <2>3. CASE Answer("9000")
    BY <2>2, <2>3, DoneStage
  <2>4. CASE pc' = pc /\ sw' = sw
    BY <2>1, <2>2, <2>4 DEF StageOK, RefusedKeeps
  <2>5. CASE PowerLost
    BY <2>2, <2>5, PowerLostStage
  <2>. QED
    BY <1>2, <2>3, <2>4, <2>5 DEF cf_erase_page
<1>. QED
  BY <1>1, <1>2

\* The other steps leave a slot in flash alone.
LEMMA OtherStage ==
  ASSUME BootInv, StageOK,
         \/ main \/ store_osflash \/ store_oshdr \/ decide \/ card_reset \/ link_down
         \/ PowerCut \/ Strap \/ UNCHANGED vars
  PROVE  StageOK' /\ RefusedKeeps /\ (persistent => SlotMoves)
<1>1. CASE main
  <2>1. sw' = sw /\ sw \in {"none", "9000"} /\ pc' # "erase"
    BY <1>1 DEF main, StageOK
  <2>2. persistent => UNCHANGED slot
    BY <1>1 DEF main, slot_power_on
  <2>. QED
    BY <2>1, <2>2 DEF StageOK, RefusedKeeps, SlotMoves
<1>2. CASE store_osflash \/ store_oshdr
  <2>1. UNCHANGED slot /\ sw \in {"none", "9000"}
    BY <1>2 DEF store_osflash, store_oshdr, slot, StageOK
  <2>2. PowerLost \/ (sw' = sw /\ pc' # "erase")
    BY <1>2 DEF store_osflash, store_oshdr, BootInv, BootTypeOK
  <2>3. CASE sw' = sw /\ pc' # "erase"
    BY <2>1, <2>3 DEF StageOK, RefusedKeeps, SlotMoves
  <2>. QED
    BY <2>1, <2>2, <2>3, PowerLostStage DEF SlotMoves
<1>3. CASE decide
  <2>1. UNCHANGED slot /\ sw' = sw /\ sw \in {"none", "9000"} /\ pc' # "erase"
    BY <1>3 DEF decide, slot, StageOK
  <2>. QED
    BY <2>1 DEF StageOK, RefusedKeeps, SlotMoves
<1>4. CASE card_reset \/ link_down
  BY <1>4 DEF card_reset, link_down, FlushThen, StageOK, RefusedKeeps, SlotMoves, slot
<1>5. CASE PowerCut
  BY <1>5, PowerLostStage DEF PowerCut, SlotMoves, slot
<1>6. CASE Strap \/ UNCHANGED vars
  BY <1>6 DEF Strap, vars, StageOK, RefusedKeeps, SlotMoves, slot
<1>. QED
  BY <1>1, <1>2, <1>3, <1>4, <1>5, <1>6

\* Every step keeps the facts, and touches a slot in flash in one of the ways.
LEMMA StageStep ==
  ASSUME BootInv, StageOK, [BootNext]_vars
  PROVE  StageOK' /\ RefusedKeeps /\ (persistent => SlotMoves)
BY CommandStage, ActivateStage, EraseStage, OtherStage DEF BootNext, Internal

\* A part does not turn into another.
LEMMA SameBoard ==
  ASSUME [BootNext]_vars PROVE persistent' = persistent
<1>1. CASE Internal
  BY <1>1 DEF Internal, cf_erase_page, store_osflash, store_oshdr, decide, Answer
<1>2. CASE main \/ card_reset \/ link_down \/ boot_handle \/ do_erase
  BY <1>2 DEF main, card_reset, link_down, FlushThen, boot_handle, Reply, Answer, do_erase
<1>3. CASE do_load
  BY <1>3 DEF do_load, Reply, Answer
<1>4. CASE do_verify
  BY <1>4 DEF do_verify, Reply, Answer
<1>5. CASE do_activate
  <2>1. Slot \in {"BLANK", "DAMAGED", "ACTIVE", "LOADED"}
    BY DEF Slot, boot_slot_check
  <2>. QED
    BY <1>5, <2>1 DEF do_activate, Reply, Answer
<1>6. CASE do_restart
  BY <1>6 DEF do_restart, FlushThen, Reply, Answer
<1>7. CASE PowerCut \/ Strap \/ UNCHANGED vars
  BY <1>7 DEF PowerCut, Strap, vars
<1>. QED
  BY <1>1, <1>2, <1>3, <1>4, <1>5, <1>6, <1>7 DEF BootNext

\* The two facts above hold in every behaviour.
THEOREM StageInvariance == BootSpec => []StageOK
<1>1. BootInit => StageOK
  BY DEF BootInit, StageOK
<1>2. BootInv /\ StageOK /\ [BootNext]_vars => StageOK'
  BY StageStep
<1>. QED
  BY <1>1, <1>2, BootInvariance, PTL DEF BootSpec

\* A refused command changes neither the slot nor the loader's own state, on
\* flash and on the emulator.
THEOREM RefusalsLeaveSlot == BootSpec => RefusedLeavesSlot
<1>1. BootInv /\ StageOK /\ [BootNext]_vars =>
        [sw' \notin {"none", "9000"} => UNCHANGED <<osflash, oshdr, ctx>>]_vars
  BY StageStep DEF RefusedKeeps
<1>. QED
  BY <1>1, BootInvariance, StageInvariance, PTL DEF BootSpec, RefusedLeavesSlot

\* What the moves of a slot make of its status.
LEMMA MovedSlot ==
  ASSUME SlotMoves, BootInv
  PROVE  \/ Slot' = Slot
         \/ Slot' = "BLANK" /\ oshdr'.kind \in {"ERASED", "JUNK"}
         \/ pc = "loader" /\ ctx.erased /\ oshdr' = oshdr
         \/ ctx.erased /\ Slot' = "LOADED"
         \/ Slot = "LOADED" /\ Slot' \in {"LOADED", "ACTIVE"}
<1>1. CASE UNCHANGED slot
  BY <1>1 DEF slot, Slot, boot_slot_check, boot_hdr_parse, crc16
<1>2. CASE oshdr'.kind \in {"ERASED", "JUNK"}
  BY <1>2 DEF Slot, boot_slot_check, boot_hdr_parse
<1>3. ASSUME Slot = "LOADED", osflash' = osflash,
             \/ oshdr' = [oshdr EXCEPT !.state = "0000", !.asked = TRUE]
             \/ oshdr' = [oshdr EXCEPT !.state = "00FF"]
      PROVE  Slot' \in {"LOADED", "ACTIVE"}
  <2>1. oshdr \in Header
    BY DEF BootInv, BootTypeOK
  <2>2. /\ oshdr'.kind = oshdr.kind /\ oshdr'.length = oshdr.length
        /\ oshdr'.image_crc = oshdr.image_crc
    BY <1>3, <2>1 DEF Header
  <2>3. /\ oshdr.kind = "HDR"
        /\ ~(oshdr.length = 0 \/ oshdr.length > OSFLASH_SIZE)
        /\ crc16(osflash, oshdr.length) = oshdr.image_crc
    BY <1>3 DEF Slot, boot_slot_check, boot_hdr_parse
  <2>4. crc16(osflash', oshdr'.length) = oshdr'.image_crc
    BY <1>3, <2>2, <2>3
  <2>. QED
    BY <2>2, <2>3, <2>4 DEF Slot, boot_slot_check, boot_hdr_parse
<1>4. ASSUME NEW n \in 1 .. OSFLASH_SIZE, osflash' = osflash,
             oshdr' = boot_hdr(n, crc16(osflash, n), "FFFF")
      PROVE  Slot' = "LOADED"
  <2>1. ~(n = 0 \/ n > OSFLASH_SIZE)
    BY BootAssumption
  <2>. QED
    BY <1>4, <2>1 DEF boot_hdr, Slot, boot_slot_check, boot_hdr_parse
<1>. QED
  BY <1>1, <1>2, <1>3, <1>4 DEF SlotMoves

\* In flash, a slot comes to read as damaged only by a LOAD of the session that
\* erased it: ERASE, VERIFY, ACTIVATE and a loss of power anywhere else never do
\* that.
THEOREM OnlyLoadsDamage == BootSpec => OnlyLoadDamages
<1>1. BootInv /\ StageOK /\ [BootNext]_vars =>
        [persistent /\ Slot # "DAMAGED" /\ Slot' = "DAMAGED" =>
           pc = "loader" /\ ctx.erased /\ oshdr' = oshdr]_vars
  BY StageStep, MovedSlot
<1>. QED
  BY <1>1, BootInvariance, StageInvariance, PTL DEF BootSpec, OnlyLoadDamages

\* In flash, an OS that is active stays so, once the session that loaded it is
\* over, until its header is erased.
THEOREM ActiveStaysUntilErased == BootSpec => ActiveUntilErased
<1>1. BootInv /\ StageOK /\ [BootNext]_vars =>
        [persistent /\ Slot = "ACTIVE" /\ ~ctx.erased /\ Slot' # "ACTIVE" =>
           oshdr'.kind \in {"ERASED", "JUNK"}]_vars
  BY StageStep, MovedSlot
<1>. QED
  BY <1>1, BootInvariance, StageInvariance, PTL DEF BootSpec, ActiveUntilErased

\* In flash, a header that reads ACTIVE has been activated.
AskedOK == persistent /\ oshdr.kind = "HDR" /\ oshdr.state = "0000" => oshdr.asked

\* Only the last of the moves clears the whole state word, and it is an ACTIVATE.
LEMMA AskedStep ==
  ASSUME BootInv, StageOK, AskedOK, [BootNext]_vars PROVE AskedOK'
<1>1. persistent' = persistent
  BY SameBoard
<1>2. persistent => SlotMoves
  BY StageStep
<1>3. oshdr \in Header
  BY DEF BootInv, BootTypeOK
<1>4. CASE persistent /\ oshdr' = oshdr
  BY <1>1, <1>4 DEF AskedOK
<1>5. CASE persistent /\ oshdr' # oshdr
  <2>1. \/ oshdr'.kind \in {"ERASED", "JUNK"}
        \/ \E n \in 1 .. OSFLASH_SIZE : oshdr' = boot_hdr(n, crc16(osflash, n), "FFFF")
        \/ oshdr' = [oshdr EXCEPT !.state = "0000", !.asked = TRUE]
        \/ oshdr' = [oshdr EXCEPT !.state = "00FF"]
    BY <1>2, <1>5 DEF SlotMoves, slot
  <2>2. CASE oshdr'.kind \in {"ERASED", "JUNK"}
    BY <2>2 DEF AskedOK
  <2>3. CASE \E n \in 1 .. OSFLASH_SIZE : oshdr' = boot_hdr(n, crc16(osflash, n), "FFFF")
    <3>1. oshdr'.state = "FFFF"
      BY <2>3 DEF boot_hdr
    <3>. QED
      BY <3>1 DEF AskedOK
  <2>4. CASE oshdr' = [oshdr EXCEPT !.state = "0000", !.asked = TRUE]
    <3>1. oshdr'.asked = TRUE
      BY <1>3, <2>4 DEF Header
    <3>. QED
      BY <3>1 DEF AskedOK
  <2>5. CASE oshdr' = [oshdr EXCEPT !.state = "00FF"]
    <3>1. oshdr'.state = "00FF"
      BY <1>3, <2>5 DEF Header
    <3>. QED
      BY <3>1 DEF AskedOK
  <2>. QED
    BY <2>1, <2>2, <2>3, <2>4, <2>5
<1>6. CASE ~persistent
  BY <1>1, <1>6 DEF AskedOK
<1>. QED
  BY <1>4, <1>5, <1>6

\* In flash, what runs was activated: no torn ACTIVATE, no other command and no
\* loss of power makes a LOADED header read ACTIVE.
THEOREM OnlyActivatedRun == BootSpec => []OnlyActivatedRuns
<1>1. BootInit => AskedOK
  BY DEF BootInit, AskedOK, NoHdr
<1>2. BootInv /\ StageOK /\ AskedOK /\ [BootNext]_vars => AskedOK'
  BY AskedStep
<1>3. BootInv /\ AskedOK => OnlyActivatedRuns
  BY DEF BootInv, AskedOK, OnlyActivatedRuns, Committed, Slot, boot_slot_check, boot_hdr_parse
<1>. QED
  BY <1>1, <1>2, <1>3, BootInvariance, StageInvariance, PTL DEF BootSpec

-----------------------------------------------------------------------------
(***************************************************************************)
(* What a session has written, and how long the ROM is busy.  The mark     *)
(* holds across an ERASE only because the loop over the pages erases all   *)
(* of them, so the invariant follows the loop.                             *)
(***************************************************************************)
MarkOK ==
  /\ pc = "off" => ~ctx.erased
  /\ pc = "erase" => /\ page * CFLASH_PAGE < OSFLASH_SIZE
                     /\ \A c \in Cell : c < page * CFLASH_PAGE => osflash[c] = ErasedWord
  /\ HighWaterCovers

Busy == {"erase", "flash_file", "hdr_file", "decide"}
Advances == strap' = strap /\ pc \in Busy => StepsLeft' \in 0 .. StepsLeft - 1

\* A busy ROM has a step to go.
LEMMA StepsToGo ==
  ASSUME BootInv, MarkOK, pc \in Busy
  PROVE  StepsLeft \in Nat \ {0} /\ 0 \in 0 .. StepsLeft - 1
<1>1. page * CFLASH_PAGE \in Nat /\ OSFLASH_SIZE \in Nat
  BY BootAssumption DEF BootInv, BootTypeOK
<1>2. pc = "erase" => page * CFLASH_PAGE < OSFLASH_SIZE
  BY DEF MarkOK
<1>3. StepsLeft \in Nat \ {0}
  BY <1>1, <1>2 DEF StepsLeft, Busy
<1>. QED
  BY <1>3

\* A loss of power ends the session and everything the ROM was at.
LEMMA PowerLostMark ==
  ASSUME PowerLost PROVE MarkOK' /\ StepsLeft' = 0
BY DEF PowerLost, boot_ctx_init, MarkOK, HighWaterCovers, StepsLeft

\* A step that leaves image and mark alone, or ends the session, keeps the rest.
LEMMA QuietMark ==
  ASSUME MarkOK, osflash' = osflash, ctx' = ctx \/ ctx' = boot_ctx_init,
         pc' = "off" => ctx' = boot_ctx_init,
         pc' = "erase" => pc = "erase" /\ page' = page
  PROVE  MarkOK'
BY DEF MarkOK, HighWaterCovers, boot_ctx_init

\* The loop of ERASE: one page more is erased, and after the last all of them.
LEMMA ErasePageMark ==
  ASSUME BootInv, MarkOK, cf_erase_page, ~PowerLost PROVE MarkOK' /\ Advances
<1>1. /\ pc = "erase" /\ page \in Nat /\ osflash \in [Cell -> Word]
      /\ ctx.high_water \in Nat
      /\ osflash' = [c \in Cell |-> IF InPage(c) THEN ErasedWord ELSE osflash[c]]
  BY DEF cf_erase_page, BootInv, BootTypeOK
<1>2. PICK p \in Nat, q \in Nat : p = page * CFLASH_PAGE /\ q = (page + 1) * CFLASH_PAGE
  BY <1>1, BootAssumption
<1>3. q = p + CFLASH_PAGE
  BY <1>1, <1>2, BootAssumption
<1>4. \A c : InPage(c) <=> c \in p .. q - 1
  BY <1>2 DEF InPage
<1>5. /\ p < OSFLASH_SIZE /\ \A c \in Cell : c < p => osflash[c] = ErasedWord
  BY <1>1, <1>2 DEF MarkOK
<1>6. \A c \in Cell : c < q => osflash'[c] = ErasedWord
  <2> SUFFICES ASSUME NEW c \in Cell, c < q PROVE osflash'[c] = ErasedWord
    OBVIOUS
  <2>1. osflash'[c] = IF InPage(c) THEN ErasedWord ELSE osflash[c]
    BY <1>1
  <2>2. c < p \/ c \in p .. q - 1
    BY BootAssumption DEF Cell
  <2>. QED
    BY <1>4, <1>5, <2>1, <2>2
<1>7. StepsLeft = OSFLASH_SIZE - p
  BY <1>1, <1>2 DEF StepsLeft
<1>8. CASE LastPage
  <2>1. pc' = "loader"
    BY <1>8 DEF cf_erase_page, Answer
  <2>2. \A c \in Cell : osflash'[c] = ErasedWord
    BY <1>2, <1>6, <1>8, BootAssumption DEF LastPage, Cell
  <2>3. StepsLeft' = 0
    BY <2>1 DEF StepsLeft
  <2>4. MarkOK'
    BY <2>1, <2>2 DEF MarkOK, HighWaterCovers
  <2>. QED
    BY <1>3, <1>5, <1>7, <2>3, <2>4, BootAssumption DEF Advances
<1>9. CASE ~LastPage
  <2>1. page' = page + 1 /\ UNCHANGED <<ctx, pc>>
    BY <1>9 DEF cf_erase_page
  <2>2. q < OSFLASH_SIZE /\ q = page' * CFLASH_PAGE
    BY <1>2, <1>9, <2>1, BootAssumption DEF LastPage
  <2>3. StepsLeft' = OSFLASH_SIZE - q
    BY <1>1, <2>1, <2>2 DEF StepsLeft
  <2>4. HighWaterCovers'
    <3>1. \A c \in Cell : osflash[c] = ErasedWord => osflash'[c] = ErasedWord
      BY <1>1
    <3>. QED
      BY <2>1, <3>1 DEF MarkOK, HighWaterCovers
  <2>5. MarkOK'
    BY <1>1, <1>6, <2>1, <2>2, <2>4 DEF MarkOK
  <2>. QED
    BY <1>3, <1>5, <1>7, <2>2, <2>3, <2>5, BootAssumption DEF Advances
<1>. QED
  BY <1>8, <1>9

\* LOAD writes below the new mark only, and moves the mark up.
LEMMA LoadMark ==
  ASSUME BootInv, MarkOK, do_load PROVE MarkOK'
<1>1. CASE \E s : Reply(s)
  BY <1>1, QuietMark DEF Reply, Answer
<1>2. CASE PowerLost
  BY <1>2, PowerLostMark
<1>3. CASE ~(\E s : Reply(s)) /\ ~PowerLost
  <2>1. PICK b \in 0 .. OSFLASH_SIZE \div BOOT_BLOCK_SIZE, src \in Blocks :
          LET off == b * BOOT_BLOCK_SIZE
              end == off + Len(src)
          IN /\ osflash' = Programmed(off, src, Len(src))
             /\ ctx' = [ctx EXCEPT !.high_water = IF end > @ THEN end ELSE @]
             /\ Answer("9000")
    BY <1>3, Zenon DEF do_load
  <2>2. PICK off \in Nat, len \in Nat : off = b * BOOT_BLOCK_SIZE /\ len = Len(src)
    <3>1. Len(src) \in Nat
      BY BootAssumption
    <3>2. b * BOOT_BLOCK_SIZE \in Nat
      BY BootAssumption
    <3>. QED
      BY <3>1, <3>2
  <2>3. pc' = "loader" /\ ctx.erased
    <3>1. pc' = "loader"
      BY <2>1 DEF Answer
    <3>. QED
      BY <1>3, <3>1 DEF do_load
  <2>4. ctx \in [high_water : 0 .. OSFLASH_SIZE, erased : BOOLEAN]
    BY DEF BootInv, BootTypeOK
  <2>5. /\ ctx'.high_water = IF off + len > ctx.high_water THEN off + len ELSE ctx.high_water
        /\ ctx.high_water \in Nat
    BY <2>1, <2>2, <2>4, BootAssumption
  <2>6. ASSUME NEW c \in Cell, c >= ctx'.high_water PROVE osflash'[c] = ErasedWord
    <3>1. c \in Nat /\ c >= ctx.high_water /\ c \notin off .. off + len - 1
      BY <2>5, <2>6, BootAssumption DEF Cell
    <3>2. osflash'[c] = osflash[c]
      BY <2>1, <2>2, <3>1 DEF Programmed
    <3>. QED
      BY <2>3, <3>1, <3>2 DEF MarkOK, HighWaterCovers
  <2>. QED
    BY <2>3, <2>6 DEF MarkOK, HighWaterCovers
<1>. QED
  BY <1>1, <1>2, <1>3

\* ERASE begins with no page erased.
LEMMA EraseMark ==
  ASSUME BootInv, MarkOK, do_erase PROVE MarkOK'
<1>1. CASE PowerLost
  BY <1>1, PowerLostMark
<1>2. CASE pc' = "erase" /\ page' = 0 /\ UNCHANGED <<osflash, ctx>>
  <2>1. 0 * CFLASH_PAGE = 0 /\ 0 < OSFLASH_SIZE /\ \A c \in Cell : ~(c < 0)
    BY BootAssumption DEF Cell
  <2>. QED
    BY <1>2, <2>1 DEF MarkOK, HighWaterCovers
<1>. QED
  BY <1>1, <1>2 DEF do_erase

\* The other commands of the loader write no image.
LEMMA CommandMark ==
  ASSUME BootInv, MarkOK,
         boot_handle \/ do_verify \/ do_activate \/ do_restart \/ card_reset \/ link_down
  PROVE  MarkOK'
<1>1. CASE PowerLost
  BY <1>1, PowerLostMark
<1>2. CASE UNCHANGED <<osflash, ctx>> /\ pc' \in {"loader", "flash_file"}
  BY <1>2, QuietMark
<1>3. CASE boot_handle
  BY <1>2, <1>3 DEF boot_handle, Reply, Answer
<1>4. CASE do_verify
  <2>1. (\E s : Reply(s)) \/ PowerLost \/ (Answer("9000") /\ UNCHANGED <<osflash, ctx>>)
    BY <1>4, Zenon DEF do_verify
  <2>. QED
    BY <1>1, <1>2, <2>1 DEF Reply, Answer
<1>5. CASE do_activate
  <2>1. Slot \in {"BLANK", "DAMAGED", "ACTIVE", "LOADED"}
    BY DEF Slot, boot_slot_check
  <2>2. (\E s : Reply(s)) \/ PowerLost \/ (Answer("9000") /\ UNCHANGED <<osflash, ctx>>)
    BY <1>5, <2>1 DEF do_activate
  <2>. QED
    BY <1>1, <1>2, <2>2 DEF Reply, Answer
<1>6. CASE do_restart \/ card_reset \/ link_down
  BY <1>2, <1>6 DEF do_restart, card_reset, link_down, FlushThen, Reply, Answer
<1>. QED
  BY <1>3, <1>4, <1>5, <1>6

\* The flush and the decision after it: three steps, then the ROM is elsewhere.
LEMMA FlushMark ==
  ASSUME BootInv, MarkOK, store_osflash \/ store_oshdr \/ decide
  PROVE  MarkOK' /\ Advances
<1>1. then \in {"decide", "os", "off"} /\ osflash' = osflash
  BY DEF store_osflash, store_oshdr, decide, BootInv, BootTypeOK
<1>2. CASE PowerLost
  BY <1>2, PowerLostMark, StepsToGo DEF Advances
<1>3. CASE store_osflash /\ ~PowerLost
  <2>1. pc = "flash_file" /\ pc' = "hdr_file" /\ ctx' = ctx
    BY <1>3 DEF store_osflash
  <2>2. StepsLeft = 3 /\ StepsLeft' = 2
    BY <2>1 DEF StepsLeft
  <2>. QED
    BY <1>1, <2>1, <2>2, QuietMark DEF Advances
<1>4. CASE store_oshdr /\ ~PowerLost
  <2>1. pc = "hdr_file" /\ pc' = then /\ ctx' = IF then = "off" THEN boot_ctx_init ELSE ctx
    BY <1>4 DEF store_oshdr
  <2>2. StepsLeft = 2 /\ StepsLeft' \in {0, 1}
    BY <1>1, <2>1 DEF StepsLeft
  <2>. QED
    BY <1>1, <2>1, <2>2, QuietMark DEF Advances
<1>5. CASE decide
  <2>1. pc = "decide" /\ pc' \in {"os", "loader"} /\ ctx' \in {ctx, boot_ctx_init}
    BY <1>5 DEF decide
  <2>2. StepsLeft = 1 /\ StepsLeft' = 0
    BY <2>1 DEF StepsLeft
  <2>. QED
    BY <1>1, <2>1, <2>2, QuietMark DEF Advances
<1>. QED
  BY <1>2, <1>3, <1>4, <1>5

\* Every step keeps the mark true and brings a busy ROM nearer to its end.
LEMMA MarkStep ==
  ASSUME BootInv, MarkOK, [BootNext]_vars
  PROVE  MarkOK' /\ (UNCHANGED vars \/ Advances)
<1>1. CASE UNCHANGED vars
  BY <1>1 DEF vars, MarkOK, HighWaterCovers
<1>2. CASE cf_erase_page
  <2>1. pc \in Busy
    BY <1>2 DEF cf_erase_page, Busy
  <2>. QED
    BY <1>2, <2>1, ErasePageMark, PowerLostMark, StepsToGo DEF Advances
<1>3. CASE store_osflash \/ store_oshdr \/ decide
  BY <1>3, FlushMark
<1>4. CASE PowerCut
  BY <1>4, PowerLostMark, StepsToGo DEF PowerCut, Advances
<1>5. CASE Strap
  <2>1. strap' # strap
    BY <1>5, Zenon DEF Strap, BootInv, BootTypeOK
  <2>2. UNCHANGED <<osflash, ctx, pc, page>>
    BY <1>5 DEF Strap
  <2>. QED
    BY <2>1, <2>2 DEF Advances, MarkOK, HighWaterCovers
<1>6. CASE main
  <2>1. pc = "off" /\ ctx' = ctx /\ pc' \in {"os", "loader"}
    BY <1>6 DEF main
  <2>. QED
    BY <2>1 DEF MarkOK, HighWaterCovers, Advances, Busy
<1>7. CASE \/ card_reset \/ link_down \/ boot_handle \/ do_erase \/ do_load \/ do_verify
           \/ do_activate \/ do_restart
  <2>1. pc = "loader"
    BY <1>7 DEF card_reset, link_down, boot_handle, do_erase, do_load, do_verify,
                do_activate, do_restart
  <2>2. MarkOK'
    BY <1>7, LoadMark, EraseMark, CommandMark
  <2>. QED
    BY <2>1, <2>2 DEF Advances, Busy
<1>. QED
  BY <1>1, <1>2, <1>3, <1>4, <1>5, <1>6, <1>7 DEF BootNext, Internal

\* The mark and the loop over the pages agree with the flash in every behaviour.
THEOREM MarkInvariance == BootSpec => []MarkOK
<1>1. BootInit => MarkOK
  BY DEF BootInit, boot_ctx_init, MarkOK, HighWaterCovers
<1>2. BootInv /\ MarkOK /\ [BootNext]_vars => MarkOK'
  BY MarkStep
<1>. QED
  BY <1>1, <1>2, BootInvariance, PTL DEF BootSpec

\* Nothing is written above the high-water mark of a session, and nothing of an
\* earlier image is left there.
THEOREM MarkCovers == BootSpec => []HighWaterCovers
<1>1. MarkOK => HighWaterCovers
  BY DEF MarkOK
<1>. QED
  BY <1>1, MarkInvariance, PTL

\* Every step of a busy ROM, the strap aside, brings it nearer to its end, for
\* every number and size of the pages: an ERASE or a flush never goes round.
THEOREM LoaderNearsItsEnd == BootSpec => LoaderAdvances
<1>1. BootInv /\ MarkOK /\ [BootNext]_vars =>
        [strap' = strap /\ pc \in {"erase", "flash_file", "hdr_file", "decide"} =>
           StepsLeft' \in 0 .. StepsLeft - 1]_vars
  BY MarkStep DEF Advances, Busy
<1>. QED
  BY <1>1, BootInvariance, MarkInvariance, PTL DEF BootSpec, LoaderAdvances
=============================================================================
