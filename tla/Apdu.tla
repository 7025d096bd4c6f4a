-------------------------------- MODULE Apdu -------------------------------
(***************************************************************************)
(* What scos_process does with the bytes of a command before a handler     *)
(* sees it: the structure (apdu_parse.c), the class, the instruction       *)
(* (apdu_dispatch.c); and the buffer a handler answers into (apdu_resp.c). *)
(* Pure operators, with the widths of the code.                            *)
(***************************************************************************)
EXTENDS Integers, Sequences

SW_OK == \h9000
SW_WRONG_LENGTH == \h6700
SW_LOGICAL_CHANNEL_NOT_SUPPORTED == \h6881
SW_SECURE_MESSAGING_NOT_SUPPORTED == \h6882
SW_CHAINING_NOT_SUPPORTED == \h6884
SW_FUNC_NOT_SUPPORTED == \h6A81
SW_INS_NOT_SUPPORTED == \h6D00
SW_CLA_NOT_SUPPORTED == \h6E00
SW_NO_PRECISE_DIAGNOSIS == \h6F00

APDU_HEADER_LEN == 4
APDU_SHORT_LE_MAX == 256

Refused(st) == [st |-> st, lc |-> 0, le |-> 0]

\* Le is 0 when absent, else 1 to 256: a wire value of 0 means 256.
Parsed(lc, le) == [st |-> "OK", lc |-> lc, le |-> le]
normal_le(octet) == IF octet = 0 THEN APDU_SHORT_LE_MAX ELSE octet

apdu_parse(b) ==
  LET len == Len(b)
      p3 == b[5]
      case3_len == APDU_HEADER_LEN + 1 + p3
      case4_len == APDU_HEADER_LEN + 1 + p3 + 1
  IN IF len < APDU_HEADER_LEN THEN Refused("TOO_SHORT")
     ELSE IF len = APDU_HEADER_LEN THEN Parsed(0, 0)
     ELSE IF len = APDU_HEADER_LEN + 1 THEN Parsed(0, normal_le(p3))
     ELSE IF p3 = 0 THEN Refused("EXTENDED")
     ELSE IF len = case3_len THEN Parsed(p3, 0)
     ELSE IF len = case4_len THEN Parsed(p3, normal_le(b[case4_len]))
     ELSE Refused("BAD_LENGTH")

apdu_parse_status_sw(st) ==
  CASE st = "OK" -> SW_OK [] st = "EXTENDED" -> SW_FUNC_NOT_SUPPORTED [] OTHER -> SW_WRONG_LENGTH

\* The class: 000x xxxx, without chaining (b5), secure messaging (b4 b3) or a
\* logical channel (b2 b1).
apdu_check_cla(cla) ==
  IF cla >= 32 THEN SW_CLA_NOT_SUPPORTED
  ELSE IF cla >= 16 THEN SW_CHAINING_NOT_SUPPORTED
  ELSE IF cla >= 4 THEN SW_SECURE_MESSAGING_NOT_SUPPORTED
  ELSE IF cla # 0 THEN SW_LOGICAL_CHANNEL_NOT_SUPPORTED
  ELSE SW_OK

\* The instructions of k_commands: SELECT, READ and UPDATE BINARY, CREATE and
\* DELETE FILE.
k_commands == {164, 176, 214, 224, 228}

\* Structure, then class, then instruction: the refusal, or SW_OK when the
\* command reaches its handler.
process_sw(b) ==
  LET parsed == apdu_parse_status_sw(apdu_parse(b).st)
  IN IF parsed # SW_OK THEN parsed
     ELSE IF apdu_check_cla(b[1]) # SW_OK THEN apdu_check_cla(b[1])
     ELSE IF b[2] \notin k_commands THEN SW_INS_NOT_SUPPORTED
     ELSE SW_OK

-----------------------------------------------------------------------------
(***************************************************************************)
(* The response: the bytes put into it, and whether some did not fit.  Two *)
(* bytes of the buffer stay reserved for the status word.                  *)
(***************************************************************************)
apdu_rsp_init == [data |-> <<>>, overflow |-> FALSE]

available(cap) == IF cap >= 2 THEN cap - 2 ELSE 0

apdu_rsp_put(r, src, cap) ==
  IF src = <<>> THEN r
  ELSE IF Len(r.data) + Len(src) > available(cap) THEN [r EXCEPT !.overflow = TRUE]
  ELSE [r EXCEPT !.data = @ \o src]

\* The finished response; a payload that overflowed is dropped whole.
apdu_rsp_finish(r, sw) ==
  LET status == IF r.overflow THEN SW_NO_PRECISE_DIAGNOSIS ELSE sw
  IN (IF r.overflow THEN <<>> ELSE r.data) \o <<status \div 256, status % 256>>
=============================================================================
