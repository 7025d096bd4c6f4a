------------------------------ MODULE LinkInv ------------------------------
(***************************************************************************)
(* The inductive invariant behind OutputAsMeant, stated with the account   *)
(* of WirePorts, so that it holds of every stream.  It says, for every     *)
(* value of pc, how far the stream has been served, and what the driver    *)
(* holds of the line under way.                                            *)
(***************************************************************************)
EXTENDS WireMeaning

\* What the first k characters of a stream give to the OS and to the reader.
ForOs(p, s, k) == FlattenSeq(SubSeq(OsParts(p, s), 1, k))
ForReader(p, s, a, k) == FlattenSeq(SubSeq(ReaderParts(p, s, a), 1, k))

\* The stream has been served up to k: the OS has been given, and the reader has
\* been sent, what that much of it is taken for, and nothing in it ends the session.
HeardOf(lines) == [i \in 1 .. Len(lines) |-> Heard(lines[i])]
Given(k) == os = ForOs(port, stream, k)
Answered(k) == HeardOf(sent) = ForReader(port, stream, answer, k)
NoQuit(k) == \A i \in 1 .. k : Takes(port, stream, i).does # "quit"

\* A decoder that has been given the digits D holds their bytes and a digit that
\* waits for its pair, or knows that they are no frame.
AllHex(D) == \A i \in 1 .. Len(D) : D[i] \in HexDigit
Decoded(d, D) ==
  IF AllHex(D) /\ Len(D) <= 2 * CMD_MAX + 1
  THEN d = [buf |-> BytesOf(D), hi |-> IF Len(D) % 2 = 1 THEN Value(D[Len(D)]) ELSE -1,
            bad |-> FALSE]
  ELSE d.bad

\* The UART driver, after the characters l of a line.
ArmLine(ln, l) ==
  /\ ln.seen = Len(l)
  /\ ln.is_control <=> l # <<>> /\ l[1] \in {".", "#"}
  /\ IF ln.is_control
     THEN /\ ln.control[1] = l[1]
          /\ Len(ln.control) > 1 <=> Len(l) > 1
          /\ Len(l) > 1 => ln.control[2] = l[2]
     ELSE ln.control = <<>> /\ Decoded(ln.dec, DigitsOf(l))

\* The next line of the simulator starts after k.
Cut(s, k) == k = Len(s) \/ (k + 1 - Start("sim", s, k + 1)) % Most = 0

\* The driver waits for the reader, or has just returned.
Between == IF port = "sim" THEN line = NoLine /\ Cut(stream, pos)
           ELSE ArmLine(line, SubSeq(stream, Start("arm", stream, pos + 1), pos))

\* hex_decode has read n characters of the line that ends at pos.
Decoding ==
  LET l == LineTo("sim", stream, pos)
      t == trim(l)
  IN /\ port = "sim" /\ pos > 0 /\ Cut(stream, pos) /\ EndsLine("sim", stream, pos)
     /\ TakesLine("sim", l) = TakesFrame("sim", DigitsOf(t))
     /\ \E n \in 0 .. Len(t) : /\ line.text = SubSeq(t, n + 1, Len(t))
                               /\ Decoded(line.dec, DigitsOf(SubSeq(t, 1, n)))

\* Between any two steps of the drivers and of scos_card_loop, the OS and the
\* reader have what the driver takes the used part of the stream for, whether the
\* protocol agrees or not, and the driver holds what it needs of the line under
\* way and nothing of an earlier line, malformed or cut as that may have been
\* (hal_card_receive on both ports, hex_decode, scos_card_loop).
TakenInv ==
  /\ pc = "receive" => NoQuit(pos) /\ Given(pos) /\ Answered(pos) /\ Between
  /\ pc = "decode" => NoQuit(pos) /\ Given(pos - 1) /\ Answered(pos - 1) /\ Decoding
  /\ pc = "process" => /\ NoQuit(pos) /\ Given(pos) /\ Answered(pos - 1) /\ Between
                       /\ pos > 0 /\ Takes(port, stream, pos) = [does |-> "command", bytes |-> cmd]
  /\ pc = "down" => /\ os = TakenForOs(port, stream)
                    /\ HeardOf(sent) = TakenForReader(port, stream, answer)
=============================================================================
