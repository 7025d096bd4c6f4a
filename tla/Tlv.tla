-------------------------------- MODULE Tlv --------------------------------
(***************************************************************************)
(* The BER-TLV reader, tlv.c, as operators on a byte string b and a window *)
(* pos .. end - 1 of it.  Positions count from 0, as in the code.          *)
(*                                                                         *)
(* A reader is a window: tlv_next says what object starts at pos, which it *)
(* expects to be past the padding, and how far it read to find out.  Bytes *)
(* are numbers, because the length arithmetic is what could go wrong.      *)
(***************************************************************************)
EXTENDS Integers, Sequences

Octet == 0 .. 255
TLV_MAX_LEN_BYTES == 2

\* A byte outside the buffer has a value too, though no read should see it.
At(b, p) == IF p < Len(b) THEN b[p + 1] ELSE 0

\* ISO 7816-4 filler between objects.
IsPadding(octet) == octet \in {0, 255}

\* The outcome of tlv_next.  The value is from .. to - 1, where the next object
\* starts at `to`; bytes up to `read` - 1 have been looked at.
NoObject(st, read) == [st |-> st, tag |-> 0, from |-> 0, to |-> 0, read |-> read]

\* The tag takes a second byte if its low five bits are set, and no third; the
\* length one byte, or up to two more.  Every byte is checked to be in the
\* window before it is read.
tlv_next(b, pos, end) ==
  LET t0 == At(b, pos)
      t1 == At(b, pos + 1)
      high == t0 % 32 = 31
      lpos == IF high THEN pos + 2 ELSE pos + 1
      l0 == At(b, lpos)
      nbytes == IF l0 < 128 THEN 0 ELSE l0 - 128
      from == lpos + 1 + nbytes
      length == IF nbytes = 0 THEN l0
                ELSE IF nbytes = 1 THEN At(b, lpos + 1)
                ELSE 256 * At(b, lpos + 1) + At(b, lpos + 2)
  IN IF pos >= end THEN NoObject("END", pos)
     ELSE IF high /\ pos + 1 >= end THEN NoObject("ERR_TRUNCATED", pos + 1)
     ELSE IF high /\ t1 >= 128 THEN NoObject("ERR_TAG", pos + 2)
     ELSE IF lpos >= end THEN NoObject("ERR_TRUNCATED", lpos)
     ELSE IF l0 \in {128, 255} \/ nbytes > TLV_MAX_LEN_BYTES
          THEN NoObject("ERR_LENGTH", lpos + 1)
     ELSE IF from > end THEN NoObject("ERR_TRUNCATED", lpos + 1)
     ELSE IF from + length > end THEN NoObject("ERR_TRUNCATED", from)
     ELSE [st |-> "OK", tag |-> IF high THEN 256 * t0 + t1 ELSE t0,
           from |-> from, to |-> from + length, read |-> from]

\* tlv_get_uint takes one to four bytes, most significant first.
tlv_is_uint(o) == o.to - o.from \in 1 .. 4
tlv_get_uint(b, o) ==
  LET digit(k) == IF o.from + k < o.to THEN At(b, o.to - 1 - k) ELSE 0
  IN digit(0) + 256 * digit(1) + 65536 * digit(2) + 16777216 * digit(3)
=============================================================================
