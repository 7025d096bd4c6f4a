----------------------------- MODULE WireMeaning ----------------------------
(***************************************************************************)
(* What a stream of characters means by the protocol of transport.c, which *)
(* hal_arm_io.c says is the UART's too: one command or control to a line,  *)
(* white space and ':' ignored, comments ignored, separators alone no      *)
(* command, and a malformed line no business of the OS.  It is the same    *)
(* for both ports.                                                         *)
(***************************************************************************)
EXTENDS WirePorts

\* Where the line of character i starts.
IsLineStart(s, i, k) == /\ k = 1 \/ s[k - 1] = "\n"
                        /\ \A j \in k .. i - 1 : s[j] # "\n"
LineStart(s, i) == CHOOSE k \in 1 .. i : IsLineStart(s, i, k)

ControlMeaning(w) ==
  IF w = <<".", "a", "t", "r">> THEN Means("atr")
  ELSE IF w = <<".", "r", "e", "s", "e", "t">> THEN Means("reset")
  ELSE IF w = <<".", "q", "u", "i", "t">> THEN Means("quit")
  ELSE Means("nonsense")

FrameMeaning(digits) ==
  IF digits = <<>> THEN Means("nothing")
  ELSE IF /\ \A i \in 1 .. Len(digits) : digits[i] \in HexDigit
          /\ Len(digits) % 2 = 0 /\ Len(digits) <= 2 * CMD_MAX
  THEN [does |-> "command", bytes |-> BytesOf(digits)]
  ELSE Means("nonsense")

LineMeaning(l) ==
  IF l[1] = "#" THEN Means("nothing")
  ELSE IF l[1] = "." THEN ControlMeaning(trim(l))
  ELSE FrameMeaning(DigitsOf(l))

Meaning(s, i) ==
  IF s[i] = "\n" THEN LineMeaning(SubSeq(s, LineStart(s, i), i)) ELSE Means("nothing")

\* The session ends with the stream, or where a line says so.
LastMeant(s) ==
  LET quits == {i \in 1 .. Len(s) : Meaning(s, i).does = "quit"}
  IN IF quits = {} THEN Len(s) ELSE CHOOSE i \in quits : \A j \in quits : i <= j

MeantForOs(s) ==
  FlattenSeq(SubSeq([i \in 1 .. Len(s) |-> ToOs(Meaning(s, i))], 1, LastMeant(s)))
MeantForReader(p, s, a) ==
  FlattenSeq(SubSeq([i \in 1 .. Len(s) |-> ToReader(p, a, Meaning(s, i))], 1, LastMeant(s)))

\* The streams both drivers read by the protocol.  Every line has its line feed,
\* fits the buffer of the simulator and has neither a carriage return nor a NUL
\* in it; a line that is not blank has more than separators; and a control line
\* is a word of the protocol, or a word that neither driver takes for one.
PlainLine(l) ==
  /\ DigitsOf(l) = <<>> => trim(l) = <<>>
  /\ l[1] = "." => LET w == trim(l)
                   IN \/ ControlMeaning(w).does # "nonsense"
                      \/ Len(w) = 1
                      \/ w[2] \notin {"a", "r", "q"} /\ w # <<".", "e", "x", "i", "t">>

Plain(s) ==
  \A i \in 1 .. Len(s) :
    /\ s[i] \notin {"\r", Nul}
    /\ i = Len(s) => s[i] = "\n"
    /\ i + 1 - LineStart(s, i) <= IF s[i] = "\n" THEN Most ELSE Most - 1
    /\ s[i] = "\n" => PlainLine(SubSeq(s, LineStart(s, i), i))

-----------------------------------------------------------------------------
Done == pc = "down" \/ (port = "arm" /\ pc = "receive" /\ pos = Len(stream))

\* What the drivers hold fits their buffers and is what it is taken for, whatever
\* the reader sends: k->cmd holds bytes, within its size; a line of the simulator
\* leaves room for its terminator; the control word of the UART driver stays
\* within control, and has a first character when it is looked at (hal_card_receive on
\* both ports, hex_decode).
WireTypeOK ==
  /\ port \in {"sim", "arm"} /\ pc \in {"receive", "decode", "process", "down"}
  /\ pos \in 0 .. Len(stream)
  /\ \A bytes \in {cmd, line.dec.buf} : bytes \in Seq(0 .. 255) /\ Len(bytes) <= CMD_MAX
  /\ line.dec.hi \in -1 .. 15
  /\ Len(line.text) < LINE_MAX
  /\ Len(line.control) <= CONTROL_MAX
  /\ line.is_control => line.control # <<>>

AsMeant ==
  /\ os = MeantForOs(stream)
  /\ [i \in 1 .. Len(sent) |-> Heard(sent[i])] = MeantForReader(port, stream, answer)

\* On both ports, once a stream of plain lines is used up, the OS has been given
\* and the reader has been sent exactly what the lines mean by the protocol, in
\* their order: a malformed line leaves nothing behind in the driver, no line is
\* answered twice or not at all, and a reply that does not fit the response buffer
\* is replaced whole (hal_card_receive on both ports, scos_card_loop, scos_process,
\* hal_card_send).
OutputAsMeant == Done /\ Plain(stream) => AsMeant

\* The same of every stream.  transport.c says that a comment is ignored, and
\* hal_arm_io.c that the two ports have the same protocol, and that separators
\* alone are no APDU.  The simulator takes the rest of a comment that its buffer
\* does not hold for a line of its own, and separators alone for a command.
EveryStreamAsMeant == Done => AsMeant

\* The steps until the stream is used up, at most: 4 * n + 1 for n characters, for
\* each is taken once and decoded at most once, and each line is answered once.
StepsLeft ==
  4 * (Len(stream) - pos)
  + CASE pc = "receive" -> 1
      [] pc = "decode" -> Len(line.text) + 3
      [] pc = "process" -> 2
      [] OTHER -> 0

\* Every step of the card leaves fewer steps to go, on both ports and whatever is
\* in the stream: no state of hal_card_receive waits for what was already taken.
LinkAdvances == [][StepsLeft' \in 0 .. StepsLeft - 1]_vars

\* The whole stream is used: no line, whatever is in it, keeps the loops of
\* hal_card_receive and scos_card_loop from coming back for the next one, and
\* the simulator shuts down when its reader is gone.
StreamIsServed == <>Done
=============================================================================
