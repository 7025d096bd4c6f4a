------------------------------ MODULE WirePorts -----------------------------
(***************************************************************************)
(* An account of what each driver takes a stream of characters for, stated *)
(* line by line: p is the port, s the stream, i a position in it.  The last*)
(* character of a line is taken for what the line is taken for, a command, *)
(* a reset, a request for the ATR, the end of the session, nonsense, or    *)
(* nothing; every other character for nothing.                             *)
(*                                                                         *)
(* This is what the drivers do, not what they should do: they differ in    *)
(* seven ways, each named below, on lines that are outside of the protocol *)
(* or that only one of them treats as the protocol says.  WireMeaning      *)
(* states the protocol.                                                    *)
(***************************************************************************)
EXTENDS Wire

Means(what) == [does |-> what, bytes |-> <<>>]

\* First difference: a carriage return ends a line for the UART driver, and is
\* white space to the simulator.
Ends(p) == IF p = "arm" THEN {"\n", "\r"} ELSE {"\n"}

\* Where the line of character i starts.
IsStart(p, s, i, k) == /\ k = 1 \/ s[k - 1] \in Ends(p)
                       /\ \A j \in k .. i - 1 : s[j] \notin Ends(p)
Start(p, s, i) == CHOOSE k \in 1 .. i : IsStart(p, s, i, k)

\* Second difference: a line that the buffer of the simulator cannot hold is
\* several lines to it, cut every Most characters.
Most == LINE_MAX - 1
CutStart(p, s, i) ==
  LET k == Start(p, s, i)
  IN IF p = "arm" THEN k ELSE k + ((i - k) \div Most) * Most

\* Third difference: a last line without a line end counts on the simulator only.
EndsLine(p, s, i) ==
  \/ s[i] \in Ends(p)
  \/ p = "sim" /\ (i = Len(s) \/ (i + 1 - Start(p, s, i)) % Most = 0)

\* A line, with its line end.  Fourth difference: to the simulator, the line is a
\* C string and ends before its first NUL.
LineTo(p, s, i) ==
  LET l == SubSeq(s, CutStart(p, s, i), i)
  IN IF p = "sim" THEN c_string(l) ELSE l

\* Fifth difference: the words of the simulator, the initials of the UART driver.
TakesControl(p, w) ==
  LET is(word) == IF p = "sim" THEN w = word ELSE Len(w) > 1 /\ w[2] = word[2]
  IN IF is(<<".", "a", "t", "r">>) THEN Means("atr")
     ELSE IF is(<<".", "r", "e", "s", "e", "t">>) THEN Means("reset")
     ELSE IF is(<<".", "q", "u", "i", "t">>) \/ (p = "sim" /\ w = <<".", "e", "x", "i", "t">>)
     THEN Means("quit")
     ELSE Means("nonsense")

\* What is left of a line without white space and separators.
DigitsOf(l) ==
  FlattenSeq([i \in 1 .. Len(l) |-> IF l[i] \in Space \cup {":"} THEN <<>> ELSE <<l[i]>>])

\* The bytes of an even number of digits, read in pairs.
Value(c) == CHOOSE v \in 0 .. 15 : c \in {Digits[v + 1]} \cup
                                         (IF v > 9 THEN {LowerDigits[v - 9]} ELSE {})
BytesOf(digits) ==
  [i \in 1 .. Len(digits) \div 2 |-> 16 * Value(digits[2 * i - 1]) + Value(digits[2 * i])]

\* Sixth difference: no digits at all, only separators, are an empty command to
\* the simulator.
TakesFrame(p, digits) ==
  IF digits = <<>> /\ p = "arm" THEN Means("nothing")
  ELSE IF (\A i \in 1 .. Len(digits) : digits[i] \in HexDigit)
          /\ Len(digits) % 2 = 0 /\ Len(digits) <= 2 * CMD_MAX
  THEN [does |-> "command", bytes |-> BytesOf(digits)]
  ELSE Means("nonsense")

TakesLine(p, l) ==
  IF trim(l) = <<>> \/ l[1] = "#" THEN Means("nothing")
  ELSE IF l[1] = "." THEN TakesControl(p, trim(l))
  ELSE TakesFrame(p, DigitsOf(l))

Takes(p, s, i) ==
  IF EndsLine(p, s, i) THEN TakesLine(p, LineTo(p, s, i)) ELSE Means("nothing")

\* A command is well formed when it is a header, a header and Le, or a header and
\* Lc with as many bytes and perhaps Le.
WellFormed(b) ==
  \/ Len(b) \in {4, 5}
  \/ Len(b) > 5 /\ b[5] > 0 /\ Len(b) - b[5] \in {5, 6}

\* The reply: the first thing wrong with the command, or all that its handler
\* puts, if that fits the response.  The handler does a.
Reply(a, b) ==
  LET data == FlattenSeq(a.puts)
      sw == IF ~WellFormed(b)
              THEN IF Len(b) > 5 /\ b[5] = 0 THEN SW_FUNC_NOT_SUPPORTED ELSE SW_WRONG_LENGTH
            ELSE IF b[1] # 0 THEN apdu_check_cla(b[1])
            ELSE IF b[2] \notin k_commands THEN SW_INS_NOT_SUPPORTED
            ELSE IF Len(data) + 2 > RSP_MAX THEN SW_NO_PRECISE_DIAGNOSIS
            ELSE a.sw
      handled == WellFormed(b) /\ b[1] = 0 /\ b[2] \in k_commands /\ Len(data) + 2 <= RSP_MAX
  IN (IF handled THEN data ELSE <<>>) \o <<sw \div 256, sw % 256>>

\* What a line so taken gives to the OS, and to the reader, who hears bytes or a
\* complaint.  Seventh difference: the simulator complains on stderr, not to the
\* reader.
Bytes(b) == [says |-> "bytes", bytes |-> b]
Complains == [says |-> "complaint", bytes |-> <<>>]

ToOs(m) ==
  CASE m.does = "command" -> << <<"command", m.bytes>> >>
    [] m.does = "reset" -> << <<"reset">> >>
    [] OTHER -> <<>>

ToReader(p, a, m) ==
  CASE m.does = "command" -> <<Bytes(Reply(a, m.bytes))>>
    [] m.does \in {"atr", "reset"} -> <<Bytes(Atr)>>
    [] m.does = "nonsense" /\ p = "arm" -> <<Complains>>
    [] OTHER -> <<>>

OsParts(p, s) == [i \in 1 .. Len(s) |-> ToOs(Takes(p, s, i))]
ReaderParts(p, s, a) == [i \in 1 .. Len(s) |-> ToReader(p, a, Takes(p, s, i))]

\* The session ends with the stream, or where a line says so.
LastOf(p, s) ==
  LET quits == {i \in 1 .. Len(s) : Takes(p, s, i).does = "quit"}
  IN IF quits = {} THEN Len(s) ELSE CHOOSE i \in quits : \A j \in quits : i <= j

TakenForOs(p, s) == FlattenSeq(SubSeq(OsParts(p, s), 1, LastOf(p, s)))
TakenForReader(p, s, a) == FlattenSeq(SubSeq(ReaderParts(p, s, a), 1, LastOf(p, s)))

\* The reader decodes a reply with the digits of a command.
Heard(l) == IF l = Complaint THEN Complains ELSE Bytes(BytesOf(l))
=============================================================================
