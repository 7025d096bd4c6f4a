-------------------------------- MODULE Wire -------------------------------
(***************************************************************************)
(* The link between a reader and the card: lines of hex digits in, lines   *)
(* of hex digits out, and lines that stand for what a reader does to the   *)
(* card electrically.  hal_card_receive exists twice, over stdin in        *)
(* simulator/transport.c and over a UART in hal_arm_io.c; `port` says      *)
(* which is linked.  Above it run scos_card_loop and scos_process, down to *)
(* the handler, whose answer is any of Answers.                            *)
(*                                                                         *)
(* Characters are strings of length one, but for Nul.  The simulator takes *)
(* a line at a time from fgets, which cuts a line that is too long for its *)
(* buffer; the UART driver decodes each character as it arrives.           *)
(***************************************************************************)
EXTENDS Apdu, Functions, Concat

CONSTANTS
  Streams,      \* what the reader may have sent
  LINE_MAX,     \* the line buffer of the simulator, with its terminator
  CMD_MAX,      \* the size of k->cmd
  RSP_MAX,      \* and of k->rsp
  Atr,          \* the Answer To Reset
  Answers       \* what a handler may do: [puts, sw]

ASSUME SizesAssumption ==
  LINE_MAX \in Nat \ {0, 1} /\ CMD_MAX \in Nat \ {0} /\ RSP_MAX \in Nat \ {0, 1}

ASSUME StreamsAssumption == Streams \subseteq Seq(STRING)

ASSUME AnswersAssumption ==
  /\ Atr \in Seq(0 .. 255)
  /\ \A a \in Answers : a.puts \in Seq(Seq(0 .. 255)) /\ a.sw \in Nat /\ a.sw < 65536

VARIABLES
  port,      \* "sim" or "arm"
  stream,    \* the characters from the reader
  pos,       \* how many of them have been taken
  line,      \* the locals of hal_card_receive
  cmd,       \* k->cmd, up to k->cmd_len
  pc,        \* "receive", "decode", "process" or "down"
  answer,    \* what a handler does in this behaviour
  os,        \* history: what the link gave to the OS
  sent       \* the lines sent to the reader

vars == <<port, stream, pos, line, cmd, pc, answer, os, sent>>

-----------------------------------------------------------------------------
(***************************************************************************)
(* Hex.                                                                    *)
(***************************************************************************)
Digits == <<"0", "1", "2", "3", "4", "5", "6", "7", "8", "9", "A", "B", "C", "D", "E", "F">>
LowerDigits == <<"a", "b", "c", "d", "e", "f">>
HexDigit == Range(Digits) \cup Range(LowerDigits)
Space == {" ", "\t", "\r", "\n"}

hex_nibble(c) ==
  IF c \in Range(Digits) THEN CHOOSE v \in 0 .. 15 : Digits[v + 1] = c
  ELSE IF c \in Range(LowerDigits) THEN CHOOSE v \in 10 .. 15 : LowerDigits[v - 9] = c
  ELSE -1

put_hex_byte(b) == <<Digits[(b \div 16) + 1], Digits[(b % 16) + 1]>>

\* One line of the response stream.
hex_line(bytes) == FlattenSeq([i \in 1 .. Len(bytes) |-> put_hex_byte(bytes[i])])

\* Between two characters of a line the decoders hold the bytes decoded, the
\* first digit of a pair (-1: none), and whether the line is bad.
NoDigits == [buf |-> <<>>, hi |-> -1, bad |-> FALSE]

\* Variant with a mistake: one byte more than the buffer holds.
decode_past_cap(d, c) ==
  LET v == hex_nibble(c)
  IN IF v < 0 THEN [d EXCEPT !.bad = TRUE]
     ELSE IF d.hi < 0 THEN [d EXCEPT !.hi = v]
     ELSE IF Len(d.buf) > CMD_MAX THEN [d EXCEPT !.bad = TRUE, !.hi = -1]
     ELSE [d EXCEPT !.buf = Append(@, 16 * d.hi + v), !.hi = -1]

decode(d, c) ==
  LET v == hex_nibble(c)
  IN IF v < 0 THEN [d EXCEPT !.bad = TRUE]
     ELSE IF d.hi < 0 THEN [d EXCEPT !.hi = v]
     ELSE IF Len(d.buf) >= CMD_MAX THEN [d EXCEPT !.bad = TRUE, !.hi = -1]
     ELSE [d EXCEPT !.buf = Append(@, 16 * d.hi + v), !.hi = -1]

-----------------------------------------------------------------------------
\* The simulator has in `text` what it has still to decode; the other fields are
\* the UART driver's.
NoLine == [dec |-> NoDigits, text |-> <<>>, seen |-> 0, control |-> <<>>, is_control |-> FALSE]

Init ==
  /\ port \in {"sim", "arm"}
  /\ stream \in Streams
  /\ answer \in Answers
  /\ pos = 0
  /\ line = NoLine
  /\ cmd = <<>>
  /\ pc = "receive"
  /\ os = <<>>
  /\ sent = <<>>

\* What hal_card_receive may do with a line: wait for the next, or return.
ignored == UNCHANGED <<cmd, pc, os, sent>>
print_atr == sent' = Append(sent, hex_line(Atr)) /\ UNCHANGED <<cmd, pc, os>>
link_is_down == pc' = "down" /\ UNCHANGED <<cmd, os, sent>>

\* The UART carries the transport's complaints too; the simulator writes them to
\* stderr.
Complaint == <<"transport:">>
complain == sent' = Append(sent, Complaint) /\ UNCHANGED <<cmd, pc, os>>

\* HAL_CARD_RESET: the link answers with the ATR, scos_card_loop resets the OS.
card_reset ==
  /\ sent' = Append(sent, hex_line(Atr))
  /\ os' = Append(os, <<"reset">>)
  /\ UNCHANGED <<cmd, pc>>

\* HAL_OK.
received(buf) ==
  /\ cmd' = buf
  /\ os' = Append(os, <<"command", buf>>)
  /\ pc' = "process"
  /\ UNCHANGED sent

-----------------------------------------------------------------------------
(***************************************************************************)
(* simulator/transport.c.                                                  *)
(***************************************************************************)
\* How many characters fgets takes: to the end of the line, at most LINE_MAX - 1.
fgets_len ==
  LET rest == SubSeq(stream, pos + 1, Len(stream))
      room == IF Len(rest) < LINE_MAX - 1 THEN Len(rest) ELSE LINE_MAX - 1
      ends == {i \in 1 .. room : rest[i] = "\n"}
  IN IF ends = {} THEN room ELSE CHOOSE i \in ends : \A j \in ends : i <= j

trim(s) ==
  LET kept == {i \in 1 .. Len(s) : s[i] \notin Space}
  IN SubSeq(s, 1, IF kept = {} THEN 0 ELSE CHOOSE i \in kept : \A j \in kept : j <= i)

\* A line is a C string to trim, handle_control and hex_decode: it ends before its
\* first NUL, although fgets reads on.
Nul == "NUL"
c_string(s) ==
  LET nuls == {i \in 1 .. Len(s) : s[i] = Nul}
  IN SubSeq(s, 1, IF nuls = {} THEN Len(s) ELSE (CHOOSE i \in nuls : \A j \in nuls : i <= j) - 1)

\* handle_control, and hex_decode for what is card traffic.
sim_line(s) ==
  IF s = <<>> \/ s[1] = "#" THEN ignored /\ UNCHANGED line
  ELSE IF s[1] # "." THEN /\ pc' = "decode"
                          /\ line' = [NoLine EXCEPT !.text = s]
                          /\ UNCHANGED <<cmd, os, sent>>
  ELSE /\ UNCHANGED line
       /\ CASE s \in {<<".", "q", "u", "i", "t">>, <<".", "e", "x", "i", "t">>} -> link_is_down
            [] s = <<".", "a", "t", "r">> -> print_atr
            [] s = <<".", "r", "e", "s", "e", "t">> -> card_reset
            [] OTHER -> ignored

\* One turn of the loop in hal_card_receive.
sim_receive ==
  /\ port = "sim" /\ pc = "receive"
  /\ pos < Len(stream)
  /\ pos' = pos + fgets_len
  /\ \E buf \in {c_string(SubSeq(stream, pos + 1, pos + fgets_len))} : sim_line(trim(buf))
  /\ UNCHANGED <<port, stream, answer>>

\* One turn of the loop in hex_decode, which gives the line up at the first bad
\* character, and its end.
hex_decode ==
  /\ pc = "decode"
  /\ line.text # <<>> /\ ~line.dec.bad
  /\ line' = [line EXCEPT !.text = Tail(@),
                          !.dec = IF Head(line.text) \in Space \cup {":"} THEN @
                                  ELSE decode(@, Head(line.text))]
  /\ UNCHANGED <<port, stream, pos, cmd, pc, answer, os, sent>>

\* Variant with a mistake: a digit that has no pair is dropped.
hex_decoded_odd ==
  /\ pc = "decode"
  /\ line.text = <<>> \/ line.dec.bad
  /\ IF line.dec.bad THEN pc' = "receive" /\ UNCHANGED <<cmd, os, sent>>
     ELSE received(line.dec.buf)
  /\ line' = NoLine
  /\ UNCHANGED <<port, stream, pos, answer>>

hex_decoded ==
  /\ pc = "decode"
  /\ line.text = <<>> \/ line.dec.bad
  /\ IF line.dec.bad \/ line.dec.hi >= 0 THEN pc' = "receive" /\ UNCHANGED <<cmd, os, sent>>
     ELSE received(line.dec.buf)
  /\ line' = NoLine
  /\ UNCHANGED <<port, stream, pos, answer>>

\* Variant with a mistake: the end of the stream is waited out.
sim_eof_ignored ==
  /\ port = "sim" /\ pc = "receive"
  /\ pos = Len(stream)
  /\ UNCHANGED vars

sim_eof ==
  /\ port = "sim" /\ pc = "receive"
  /\ pos = Len(stream)
  /\ link_is_down
  /\ UNCHANGED <<port, stream, pos, line, answer>>

-----------------------------------------------------------------------------
(***************************************************************************)
(* hal_arm_io.c.                                                           *)
(***************************************************************************)
CONTROL_MAX == 15
EndOfLine == {"\n", "\r"}

arm_getc ==
  /\ port = "arm" /\ pc = "receive"
  /\ pos < Len(stream)
  /\ stream[pos + 1] \notin EndOfLine
  /\ pos' = pos + 1
  /\ LET c == stream[pos + 1]
         control == IF line.seen = 0 THEN c \in {".", "#"} ELSE line.is_control
     IN line' = [seen |-> line.seen + 1, text |-> <<>>,
                 is_control |-> control,
                 control |-> IF control /\ Len(line.control) < CONTROL_MAX
                             THEN Append(line.control, c) ELSE line.control,
                 dec |-> IF control \/ c \in {" ", "\t", ":"} THEN line.dec
                         ELSE decode(line.dec, c)]
  /\ UNCHANGED <<port, stream, cmd, pc, answer, os, sent>>

\* A control line is told by its second character.
arm_control(c) ==
  IF c[1] = "#" THEN ignored
  ELSE CASE Len(c) > 1 /\ c[2] = "q" -> link_is_down
         [] Len(c) > 1 /\ c[2] = "a" -> print_atr
         [] Len(c) > 1 /\ c[2] = "r" -> card_reset
         [] OTHER -> complain

arm_line(l) ==
  IF l.seen = 0 THEN ignored
  ELSE IF l.is_control THEN arm_control(l.control)
  ELSE IF l.dec = NoDigits THEN ignored
  ELSE IF l.dec.bad \/ l.dec.hi >= 0 THEN complain
  ELSE received(l.dec.buf)

\* Variant with a mistake: the digit that waits for its pair outlives the line.
arm_end_of_line_keeping ==
  /\ port = "arm" /\ pc = "receive"
  /\ pos < Len(stream)
  /\ stream[pos + 1] \in EndOfLine
  /\ pos' = pos + 1
  /\ arm_line(line)
  /\ line' = [NoLine EXCEPT !.dec.hi = line.dec.hi]
  /\ UNCHANGED <<port, stream, answer>>

\* Variant with a mistake: the character that ends a line is not used up.
arm_end_of_line_unread ==
  /\ port = "arm" /\ pc = "receive"
  /\ pos < Len(stream)
  /\ stream[pos + 1] \in EndOfLine
  /\ pos' = pos
  /\ arm_line(line)
  /\ line' = NoLine
  /\ UNCHANGED <<port, stream, answer>>

arm_end_of_line ==
  /\ port = "arm" /\ pc = "receive"
  /\ pos < Len(stream)
  /\ stream[pos + 1] \in EndOfLine
  /\ pos' = pos + 1
  /\ arm_line(line)
  /\ line' = NoLine
  /\ UNCHANGED <<port, stream, answer>>

-----------------------------------------------------------------------------
(***************************************************************************)
(* The rest of the turn of scos_card_loop: scos_process on an operational  *)
(* card, and hal_card_send.                                                *)
(***************************************************************************)
\* The response once a handler has put each of `puts` into it.
rsp_after(puts) ==
  LET r[i \in 0 .. Len(puts)] == IF i = 0 THEN apdu_rsp_init
                                 ELSE apdu_rsp_put(r[i - 1], puts[i], RSP_MAX)
  IN r[Len(puts)]

response ==
  IF process_sw(cmd) = SW_OK THEN apdu_rsp_finish(rsp_after(answer.puts), answer.sw)
  ELSE apdu_rsp_finish(apdu_rsp_init, process_sw(cmd))

process ==
  /\ pc = "process"
  /\ pc' = "receive"
  /\ sent' = Append(sent, hex_line(response))
  /\ UNCHANGED <<port, stream, pos, line, cmd, answer, os>>

Next ==
  \/ sim_receive \/ hex_decode \/ hex_decoded \/ sim_eof
  \/ arm_getc \/ arm_end_of_line
  \/ process

\* Nothing but the reader keeps either loop waiting.
Spec == Init /\ [][Next]_vars /\ WF_vars(Next)
=============================================================================
