----------------------------- MODULE WireProofs -----------------------------
(***************************************************************************)
(* For every stream that a reader can send and all sizes of the buffers:   *)
(* the receive drivers stay within their buffers, the OS is given, and the *)
(* reader is sent, exactly what WirePorts says of the lines, and for plain *)
(* streams that is what they mean by the protocol.                         *)
(***************************************************************************)
EXTENDS LinkInv, SeqLemmas

\* Characters.
Char == STRING

\* What hex_decode and the UART driver hold between two characters.
Dec == {d \in [buf : Seq(0 .. 255), hi : -1 .. 15, bad : BOOLEAN] : Len(d.buf) <= CMD_MAX}

\* The invariant: WireTypeOK, and the types of the fields it says nothing about.
WireInv ==
  /\ port \in {"sim", "arm"} /\ pc \in {"receive", "decode", "process", "down"}
  /\ stream \in Seq(Char) /\ pos \in 0 .. Len(stream)
  /\ cmd \in Seq(0 .. 255) /\ Len(cmd) <= CMD_MAX
  /\ line \in [dec : Dec, text : Seq(Char), seen : Nat, control : Seq(Char),
               is_control : BOOLEAN]
  /\ Len(line.text) < LINE_MAX
  /\ Len(line.control) <= CONTROL_MAX
  /\ line.is_control => line.control # <<>>

-----------------------------------------------------------------------------
\* A bounded set of numbers has a greatest: the CHOOSE in trim.
LEMMA Greatest ==
  ASSUME NEW n \in Nat, NEW S \in SUBSET (1 .. n), S # {}
  PROVE  \E i \in S : \A j \in S : j <= i
<1> DEFINE T == {n - i : i \in S}
<1>1. T \in SUBSET Nat
  <2>1. \A i \in S : n - i \in Nat
    OBVIOUS
  <2> QED
    BY <2>1
<1>5. T # {}
  <2>1. PICK i \in S : TRUE
    OBVIOUS
  <2>2. n - i \in T
    OBVIOUS
  <2> QED
    BY <2>2
<1>2. PICK k \in T : \A j \in T : k <= j
  BY <1>1, <1>5, Least
<1>3. PICK i \in S : k = n - i
  BY <1>2
<1>4. ASSUME NEW j \in S PROVE j <= i
  <2>1. k <= n - j
    BY <1>2
  <2> QED
    BY <2>1, <1>3
<1> QED
  BY <1>4

\* What Append gives.
LEMMA AppendFacts ==
  ASSUME NEW X, NEW q \in Seq(X), NEW e \in X
  PROVE  /\ Append(q, e) \in Seq(X) /\ Len(Append(q, e)) = Len(q) + 1
         /\ Append(q, e) # <<>>
         /\ \A i \in 1 .. Len(q) : Append(q, e)[i] = q[i]
         /\ Append(q, e)[Len(q) + 1] = e
<1>1. Len(q) \in Nat
  OBVIOUS
<1>2. Len(Append(q, e)) = Len(q) + 1
  OBVIOUS
<1>3. Append(q, e) # <<>>
  BY <1>1, <1>2
<1> QED
  BY <1>3

\* The sizes of the buffers.
LEMMA Sizes ==
  /\ LINE_MAX \in Nat /\ LINE_MAX > 1
  /\ CMD_MAX \in Nat /\ CMD_MAX > 0
BY SizesAssumption

\* fgets takes at least one character of what there is, and leaves room for the
\* terminator.
LEMMA FgetsFits ==
  ASSUME stream \in Seq(Char), pos \in 0 .. Len(stream), pos < Len(stream)
  PROVE  /\ fgets_len \in 1 .. Len(stream) - pos
         /\ fgets_len < LINE_MAX
<1> DEFINE rest == SubSeq(stream, pos + 1, Len(stream))
           room == IF Len(rest) < LINE_MAX - 1 THEN Len(rest) ELSE LINE_MAX - 1
           ends == {i \in 1 .. room : rest[i] = "\n"}
<1>1. Len(rest) = Len(stream) - pos
  OBVIOUS
<1>2. fgets_len = IF ends = {} THEN room ELSE CHOOSE i \in ends : \A j \in ends : i <= j
  BY DEF fgets_len
<1> HIDE DEF rest
<1>3. Len(stream) \in Nat
  OBVIOUS
<1>4. room \in 1 .. Len(stream) - pos /\ room < LINE_MAX
  BY <1>1, <1>3, Sizes
<1> HIDE DEF room
<1>5. ends \in SUBSET (1 .. room)
  OBVIOUS
<1>6. \A i \in 1 .. room : i \in Nat /\ i \in 1 .. Len(stream) - pos /\ i < LINE_MAX
  BY <1>3, <1>4, Sizes
<1> HIDE DEF ends
<1>7. CASE ends = {}
  BY <1>2, <1>4, <1>7
<1>8. CASE ends # {}
  <2>1. \E i \in ends : \A j \in ends : i <= j
    BY <1>5, <1>6, <1>8, Least
  <2>2. fgets_len \in ends
    BY <1>2, <1>8, <2>1
  <2> QED
    BY <1>5, <1>6, <2>2
<1> QED
  BY <1>7, <1>8

\* trim only shortens.
LEMMA TrimFits ==
  ASSUME NEW s \in Seq(Char)
  PROVE  trim(s) \in Seq(Char) /\ Len(trim(s)) <= Len(s)
<1> DEFINE kept == {i \in 1 .. Len(s) : s[i] \notin Space}
           m == IF kept = {} THEN 0 ELSE CHOOSE i \in kept : \A j \in kept : j <= i
<1>1. trim(s) = SubSeq(s, 1, m)
  BY DEF trim
<1>2. kept \in SUBSET (1 .. Len(s)) /\ Len(s) \in Nat
  OBVIOUS
<1> HIDE DEF kept
<1>3. kept # {} => \E i \in kept : \A j \in kept : j <= i
  BY <1>2, Greatest
<1>4. m \in 0 .. Len(s)
  <2>1. CASE kept = {}
    BY <1>2, <2>1
  <2>2. CASE kept # {}
    <3>1. m \in kept
      BY <1>3, <2>2
    <3>2. \A i \in 1 .. Len(s) : i \in 0 .. Len(s)
      OBVIOUS
    <3> HIDE DEF m
    <3> QED
      BY <1>2, <3>1, <3>2
  <2> QED
    BY <2>1, <2>2
<1> HIDE DEF m
<1> QED
  BY <1>1, <1>4

\* So does a NUL, and a line without one is the whole C string.
LEMMA CStringFits ==
  ASSUME NEW s \in Seq(Char)
  PROVE  /\ c_string(s) \in Seq(Char) /\ Len(c_string(s)) <= Len(s)
         /\ (\A i \in 1 .. Len(s) : s[i] # Nul) => c_string(s) = s
<1> DEFINE nuls == {i \in 1 .. Len(s) : s[i] = Nul}
           m == IF nuls = {} THEN Len(s) ELSE (CHOOSE i \in nuls : \A j \in nuls : i <= j) - 1
<1>1. c_string(s) = SubSeq(s, 1, m)
  BY DEF c_string
<1>2. nuls \in SUBSET Nat /\ Len(s) \in Nat /\ \A i \in nuls : i - 1 \in 0 .. Len(s)
  OBVIOUS
<1>3. (\A i \in 1 .. Len(s) : s[i] # Nul) => nuls = {}
  OBVIOUS
<1> HIDE DEF nuls
<1>4. m \in 0 .. Len(s) /\ (nuls = {} => m = Len(s))
  <2>1. CASE nuls = {}
    BY <1>2, <2>1
  <2>2. CASE nuls # {}
    <3>1. \E i \in nuls : \A j \in nuls : i <= j
      BY <1>2, <2>2, Least
    <3>2. (CHOOSE i \in nuls : \A j \in nuls : i <= j) \in nuls
      BY <3>1
    <3> QED
      BY <1>2, <2>2, <3>2
  <2> QED
    BY <2>1, <2>2
<1> HIDE DEF m
<1>5. c_string(s) \in Seq(Char) /\ Len(c_string(s)) <= Len(s)
  BY <1>1, <1>2, <1>4
<1>6. SubSeq(s, 1, Len(s)) = s
  OBVIOUS
<1> QED
  BY <1>1, <1>3, <1>4, <1>5, <1>6

-----------------------------------------------------------------------------
\* The drivers start with empty buffers.
LEMMA InvInit == Init => WireInv
<1> SUFFICES ASSUME Init PROVE WireInv
  OBVIOUS
<1>1. stream \in Seq(Char) /\ pos \in 0 .. Len(stream)
  BY StreamsAssumption DEF Init, Char
<1>2. NoDigits \in Dec
  <2>1. -1 \in -1 .. 15
    OBVIOUS
  <2> QED
    BY <2>1, Sizes DEF NoDigits, Dec
<1>3. line = NoLine /\ cmd = <<>> /\ port \in {"sim", "arm"} /\ pc = "receive"
  BY DEF Init
<1> QED
  BY <1>1, <1>2, <1>3, Sizes DEF WireInv, NoLine, CONTROL_MAX

\* The invariant holds of every behaviour.
THEOREM WireInvariance ==
  Spec => []WireInv
\* A nibble is -1 or 0 to 15, whatever the character.
<1>NibbleRange.
    ASSUME NEW c
    PROVE  hex_nibble(c) \in -1 .. 15
  <2>1. CASE c \in Range(Digits)
    <3>1. PICK i \in 1 .. 16 : Digits[i] = c
      BY <2>1 DEF Range, Digits
    <3>2. i - 1 \in 0 .. 15 /\ (i - 1) + 1 = i
      OBVIOUS
    <3>3. \E v \in 0 .. 15 : Digits[v + 1] = c
      BY <3>1, <3>2
    <3> QED
      BY <2>1, <3>3 DEF hex_nibble
  <2>2. CASE c \notin Range(Digits) /\ c \in Range(LowerDigits)
    <3>1. PICK i \in 1 .. 6 : LowerDigits[i] = c
      BY <2>2 DEF Range, LowerDigits
    <3>2. i + 9 \in 10 .. 15 /\ (i + 9) - 9 = i
      OBVIOUS
    <3>3. \E v \in 10 .. 15 : LowerDigits[v - 9] = c
      BY <3>1, <3>2
    <3> QED
      BY <2>2, <3>3 DEF hex_nibble
  <2> QED
    BY <2>1, <2>2 DEF hex_nibble
\* Decoding a character keeps within the command buffer.
<1>DecodeFits.
    ASSUME NEW d \in Dec, NEW c
    PROVE  decode(d, c) \in Dec
  <2> DEFINE v == hex_nibble(c)
  <2>1. v \in -1 .. 15
    BY <1>NibbleRange
  <2> HIDE DEF v
  <2>2. decode(d, c) = IF v < 0 THEN [d EXCEPT !.bad = TRUE]
                       ELSE IF d.hi < 0 THEN [d EXCEPT !.hi = v]
                       ELSE IF Len(d.buf) >= CMD_MAX THEN [d EXCEPT !.bad = TRUE, !.hi = -1]
                       ELSE [d EXCEPT !.buf = Append(@, 16 * d.hi + v), !.hi = -1]
    BY DEF decode, v
  <2>3. /\ d \in [buf : Seq(0 .. 255), hi : -1 .. 15, bad : BOOLEAN]
        /\ Len(d.buf) <= CMD_MAX
    BY Zenon DEF Dec
  <2>4. d.buf \in Seq(0 .. 255) /\ d.hi \in -1 .. 15 /\ d.bad \in BOOLEAN /\ Len(d.buf) \in Nat
    BY <2>3
  <2>5. \A b \in Seq(0 .. 255), h \in -1 .. 15, x \in BOOLEAN :
          Len(b) <= CMD_MAX => [buf |-> b, hi |-> h, bad |-> x] \in Dec
    BY DEF Dec
  <2>6. CASE v < 0
    <3>1. decode(d, c) = [buf |-> d.buf, hi |-> d.hi, bad |-> TRUE]
      BY <2>2, <2>3, <2>6
    <3> QED
      BY <2>3, <2>4, <2>5, <3>1
  <2>7. CASE ~(v < 0) /\ d.hi < 0
    <3>1. decode(d, c) = [buf |-> d.buf, hi |-> v, bad |-> d.bad]
      BY <2>2, <2>3, <2>7
    <3> QED
      BY <2>1, <2>3, <2>4, <2>5, <3>1
  <2>8. CASE ~(v < 0) /\ ~(d.hi < 0) /\ Len(d.buf) >= CMD_MAX
    <3>1. decode(d, c) = [buf |-> d.buf, hi |-> -1, bad |-> TRUE]
      BY <2>2, <2>3, <2>8
    <3>2. -1 \in -1 .. 15
      OBVIOUS
    <3> QED
      BY <2>3, <2>4, <2>5, <3>1, <3>2
  <2>9. CASE ~(v < 0) /\ ~(d.hi < 0) /\ ~(Len(d.buf) >= CMD_MAX)
    <3> DEFINE b == Append(d.buf, 16 * d.hi + v)
    <3>1. decode(d, c) = [buf |-> b, hi |-> -1, bad |-> d.bad]
      BY <2>2, <2>3, <2>9
    <3>2. \A h, w \in -1 .. 15 : ~(h < 0) /\ ~(w < 0) => 16 * h + w \in 0 .. 255
      OBVIOUS
    <3>3. 16 * d.hi + v \in 0 .. 255
      BY <3>2, <2>1, <2>4, <2>9
    <3>4. \A q \in Seq(0 .. 255), e \in 0 .. 255 :
            Append(q, e) \in Seq(0 .. 255) /\ Len(Append(q, e)) = Len(q) + 1
      OBVIOUS
    <3>5. b \in Seq(0 .. 255) /\ Len(b) = Len(d.buf) + 1
      BY <3>3, <3>4, <2>4
    <3> HIDE DEF b
    <3>6. \A n, m \in Nat : ~(n >= m) => n + 1 <= m
      OBVIOUS
    <3>7. Len(b) <= CMD_MAX
      BY <3>5, <3>6, <2>4, <2>9, Sizes
    <3>8. -1 \in -1 .. 15
      OBVIOUS
    <3> QED
      BY <3>1, <3>5, <3>7, <3>8, <2>4, <2>5
  <2> QED
    BY <2>6, <2>7, <2>8, <2>9
\* A driver that has dropped its line keeps the invariant if the command does.
<1>LineDropped.
    ASSUME WireInv, line' = NoLine, port' = port, stream' = stream,
           pos' \in 0 .. Len(stream), pc' \in {"receive", "decode", "process", "down"},
           cmd' \in Seq(0 .. 255), Len(cmd') <= CMD_MAX
    PROVE  WireInv'
  <2>1. NoDigits \in Dec
    <3>1. -1 \in -1 .. 15
      OBVIOUS
    <3> QED
      BY <3>1, Sizes DEF NoDigits, Dec
  <2>2. /\ NoLine \in [dec : Dec, text : Seq(Char), seen : Nat, control : Seq(Char),
                       is_control : BOOLEAN]
        /\ Len(NoLine.text) < LINE_MAX /\ Len(NoLine.control) <= CONTROL_MAX
        /\ ~NoLine.is_control
    BY <2>1, Sizes DEF NoLine, CONTROL_MAX
  <2> QED
    BY <1>LineDropped, <2>2 DEF WireInv
\* A line that fgets has read fits the text that hex_decode is given.
<1>SimReceive.
    WireInv /\ sim_receive => WireInv'
  <2> SUFFICES ASSUME WireInv, sim_receive PROVE WireInv'
    OBVIOUS
  <2> DEFINE s == trim(c_string(SubSeq(stream, pos + 1, pos + fgets_len)))
  <2>1. /\ stream \in Seq(Char) /\ pos \in 0 .. Len(stream) /\ pos < Len(stream)
        /\ Len(stream) \in Nat
    BY DEF WireInv, sim_receive
  <2>2. fgets_len \in 1 .. Len(stream) - pos /\ fgets_len < LINE_MAX
    BY <2>1, FgetsFits
  <2>3. pos + fgets_len \in 0 .. Len(stream)
    BY <2>1, <2>2
  <2>4. /\ SubSeq(stream, pos + 1, pos + fgets_len) \in Seq(Char)
        /\ Len(SubSeq(stream, pos + 1, pos + fgets_len)) = fgets_len
    BY <2>1, <2>2, <2>3
  <2>5. s \in Seq(Char) /\ Len(s) <= fgets_len
    <3>1. PICK c \in Seq(Char) : /\ c = c_string(SubSeq(stream, pos + 1, pos + fgets_len))
                                 /\ Len(c) <= fgets_len
      BY <2>4, CStringFits
    <3>2. s = trim(c) /\ trim(c) \in Seq(Char) /\ Len(trim(c)) <= Len(c)
      BY <3>1, TrimFits
    <3> QED
      BY <2>2, <3>1, <3>2
  <2>6. Len(s) < LINE_MAX
    BY <2>2, <2>5, Sizes
  <2>7. pos' \in 0 .. Len(stream) /\ UNCHANGED <<port, stream>> /\ sim_line(s)
    BY <2>3 DEF sim_receive
  <2> HIDE DEF s
  <2>8. CASE UNCHANGED <<line, cmd>> /\ pc' \in {pc, "down"}
    BY <2>7, <2>8 DEF WireInv
  <2>9. CASE pc' = "decode" /\ line' = [NoLine EXCEPT !.text = s] /\ UNCHANGED cmd
    <3>1. NoDigits \in Dec
      <4>1. -1 \in -1 .. 15
        OBVIOUS
      <4> QED
        BY <4>1, Sizes DEF NoDigits, Dec
    <3>2. line' = [dec |-> NoDigits, text |-> s, seen |-> 0, control |-> <<>>,
                   is_control |-> FALSE]
      BY <2>9 DEF NoLine
    <3>3. /\ line' \in [dec : Dec, text : Seq(Char), seen : Nat, control : Seq(Char),
                        is_control : BOOLEAN]
          /\ Len(line'.text) < LINE_MAX /\ Len(line'.control) <= CONTROL_MAX
          /\ ~line'.is_control
      BY <3>1, <3>2, <2>5, <2>6 DEF CONTROL_MAX
    <3> QED
      BY <3>3, <2>7, <2>9 DEF WireInv
  <2> QED
    BY <2>7, <2>8, <2>9 DEF sim_line, ignored, link_is_down, print_atr, card_reset
\* A turn of the loop in hex_decode keeps to the command buffer.
<1>HexDecode.
    WireInv /\ hex_decode => WireInv'
  <2> SUFFICES ASSUME WireInv, hex_decode PROVE WireInv'
    OBVIOUS
  <2> DEFINE d == IF Head(line.text) \in Space \cup {":"} THEN line.dec
                  ELSE decode(line.dec, Head(line.text))
  <2>1. /\ line \in [dec : Dec, text : Seq(Char), seen : Nat, control : Seq(Char),
                     is_control : BOOLEAN]
        /\ line.text # <<>> /\ Len(line.text) < LINE_MAX
    BY DEF WireInv, hex_decode
  <2>2. d \in Dec
    BY <2>1, <1>DecodeFits
  <2>3. line' = [line EXCEPT !.text = Tail(@), !.dec = d]
    BY DEF hex_decode
  <2> HIDE DEF d
  <2>4. Tail(line.text) \in Seq(Char) /\ Len(Tail(line.text)) < LINE_MAX
    BY <2>1, Sizes
  <2>5. line' = [dec |-> d, text |-> Tail(line.text), seen |-> line.seen,
                 control |-> line.control, is_control |-> line.is_control]
    BY <2>1, <2>3
  <2>6. UNCHANGED <<port, stream, pos, cmd, pc>>
    BY DEF hex_decode
  <2> QED
    BY <2>1, <2>2, <2>4, <2>5, <2>6 DEF WireInv
\* A frame that hex_decode returns is a command that fits.
<1>HexDecoded.
    WireInv /\ hex_decoded => WireInv'
  <2> SUFFICES ASSUME WireInv, hex_decoded PROVE WireInv'
    OBVIOUS
  <2>1. line.dec.buf \in Seq(0 .. 255) /\ Len(line.dec.buf) <= CMD_MAX
    BY DEF WireInv, Dec
  <2>2. /\ cmd' \in {cmd, line.dec.buf} /\ pc' \in {"receive", "process"}
        /\ line' = NoLine /\ UNCHANGED <<port, stream, pos>>
    BY DEF hex_decoded, received
  <2>3. cmd' \in Seq(0 .. 255) /\ Len(cmd') <= CMD_MAX
    BY <2>1, <2>2 DEF WireInv
  <2>4. pos' \in 0 .. Len(stream)
    BY <2>2 DEF WireInv
  <2> QED
    BY <2>2, <2>3, <2>4, <1>LineDropped
\* A character of a line keeps to the buffers of the UART driver.
<1>ArmGetc.
    WireInv /\ arm_getc => WireInv'
  <2> SUFFICES ASSUME WireInv, arm_getc PROVE WireInv'
    OBVIOUS
  <2> DEFINE c == stream[pos + 1]
             control == IF line.seen = 0 THEN c \in {".", "#"} ELSE line.is_control
             ctl == IF control /\ Len(line.control) < CONTROL_MAX
                    THEN Append(line.control, c) ELSE line.control
             d == IF control \/ c \in {" ", "\t", ":"} THEN line.dec ELSE decode(line.dec, c)
  <2>1. /\ line \in [dec : Dec, text : Seq(Char), seen : Nat, control : Seq(Char),
                     is_control : BOOLEAN]
        /\ Len(line.control) <= CONTROL_MAX
        /\ stream \in Seq(Char) /\ pos \in 0 .. Len(stream) /\ pos < Len(stream)
        /\ Len(stream) \in Nat
    <3>1. pos < Len(stream)
      BY DEF arm_getc
    <3> QED
      BY <3>1 DEF WireInv
  <2>2. line' = [seen |-> line.seen + 1, text |-> <<>>, is_control |-> control,
                 control |-> ctl, dec |-> d]
    BY DEF arm_getc
  <2>3. d \in Dec
    BY <2>1, <1>DecodeFits
  <2>4. control \in BOOLEAN
    <3>1. line.is_control \in BOOLEAN
      BY <2>1
    <3>2. (c \in {".", "#"}) \in BOOLEAN
      <4>1. CASE c \in {".", "#"}
        BY <4>1
      <4>2. CASE c \notin {".", "#"}
        BY <4>2
      <4> QED
        BY <4>1, <4>2
    <3> HIDE DEF c
    <3> QED
      BY <3>1, <3>2, Zenon
  <2>5. pos + 1 \in 1 .. Len(stream) /\ pos + 1 \in 0 .. Len(stream)
    BY <2>1
  <2>6. c \in Char
    BY <2>1, <2>5
  <2> HIDE DEF d, c
  <2>7. ctl \in Seq(Char) /\ Len(ctl) <= CONTROL_MAX /\ (control => ctl # <<>>)
    <3> HIDE DEF control
    <3>1. /\ Append(line.control, c) \in Seq(Char)
          /\ Len(Append(line.control, c)) = Len(line.control) + 1
          /\ Append(line.control, c) # <<>>
      <4>1. line.control \in Seq(Char)
        BY <2>1
      <4> QED
        BY <4>1, <2>6, AppendFacts
    <3>2. CASE control /\ Len(line.control) < CONTROL_MAX
      BY <3>1, <3>2, <2>1 DEF CONTROL_MAX
    <3>3. CASE ~(control /\ Len(line.control) < CONTROL_MAX)
      <4>1. Len(line.control) < CONTROL_MAX \/ line.control # <<>>
        BY <2>1 DEF CONTROL_MAX
      <4> QED
        BY <2>1, <3>3, <4>1
    <3> QED
      BY <3>2, <3>3
  <2> HIDE DEF ctl, control
  <2>8. /\ line' \in [dec : Dec, text : Seq(Char), seen : Nat, control : Seq(Char),
                      is_control : BOOLEAN]
        /\ Len(line'.text) < LINE_MAX /\ Len(line'.control) <= CONTROL_MAX
        /\ line'.is_control => line'.control # <<>>
    BY <2>1, <2>2, <2>3, <2>4, <2>7, Sizes
  <2>9. UNCHANGED <<port, stream, cmd, pc>> /\ pos' \in 0 .. Len(stream)
    BY <2>5 DEF arm_getc
  <2> QED
    BY <2>8, <2>9 DEF WireInv
\* The end of a line leaves the UART driver with empty buffers.
<1>ArmEndOfLine.
    WireInv /\ arm_end_of_line => WireInv'
  <2> SUFFICES ASSUME WireInv, arm_end_of_line PROVE WireInv'
    OBVIOUS
  <2>1. line.dec.buf \in Seq(0 .. 255) /\ Len(line.dec.buf) <= CMD_MAX
    BY DEF WireInv, Dec
  <2>2. pos' \in 0 .. Len(stream) /\ line' = NoLine /\ UNCHANGED <<port, stream>>
    BY DEF WireInv, arm_end_of_line
  <2>3. arm_line(line)
    BY DEF arm_end_of_line
  <2>4. cmd' \in {cmd, line.dec.buf} /\ pc' \in {pc, "down", "process"}
    BY <2>3 DEF arm_line, arm_control, ignored, link_is_down, print_atr, card_reset, complain,
                received
  <2>5. /\ cmd' \in Seq(0 .. 255) /\ Len(cmd') <= CMD_MAX
        /\ pc' \in {"receive", "decode", "process", "down"}
    BY <2>1, <2>4 DEF WireInv
  <2> QED
    BY <2>2, <2>5, <1>LineDropped
<1>1. WireInv /\ [Next]_vars => WireInv'
  <2> SUFFICES ASSUME WireInv, [Next]_vars PROVE WireInv'
    OBVIOUS
  <2>1. CASE UNCHANGED vars
    BY <2>1 DEF WireInv, vars
  <2>2. CASE sim_eof
    BY <2>2 DEF WireInv, sim_eof, link_is_down
  <2>3. CASE process
    BY <2>3 DEF WireInv, process
  <2> QED
    BY <2>1, <2>2, <2>3, <1>SimReceive, <1>HexDecode, <1>HexDecoded, <1>ArmGetc, <1>ArmEndOfLine DEF Next
<1> QED
  BY InvInit, <1>1, PTL DEF Spec

\* Whatever characters arrive, and however small the buffers are configured,
\* neither receive driver writes past a buffer or gives the OS anything but bytes
\* (hal_card_receive in transport.c and hal_arm_io.c, hex_decode).
THEOREM DriversStayInBuffers == Spec => []WireTypeOK
<1>1. WireInv => WireTypeOK
  BY DEF WireInv, WireTypeOK, Dec
<1> QED
  BY <1>1, WireInvariance, PTL

\* However the reader cuts its characters into lines, every step of the card
\* leaves fewer steps to go: neither driver takes a character twice or waits for
\* itself.
THEOREM LinkNearsItsEnd == Spec => LinkAdvances
<1>1. ASSUME WireInv, Next PROVE StepsLeft' \in 0 .. StepsLeft - 1
  <2>1. PICK n \in Nat, p \in Nat, t \in Nat :
          n = Len(stream) /\ p = pos /\ p <= n /\ t = Len(line.text)
    <3>1. line.text \in Seq(Char) /\ stream \in Seq(Char) /\ pos \in 0 .. Len(stream)
      BY <1>1 DEF WireInv
    <3> QED
      BY <3>1
  <2>0. PICK r \in Nat : r = 4 * (n - p)
    BY <2>1
  <2>2. /\ pc = "receive" => StepsLeft = r + 1
        /\ pc = "decode" => StepsLeft = r + (t + 3)
        /\ pc = "process" => StepsLeft = r + 2
    BY <2>0, <2>1 DEF StepsLeft
  <2>3. ASSUME stream' = stream, NEW m \in Int, m = 4 * (n - pos')
        PROVE  /\ pc' = "receive" => StepsLeft' = m + 1
               /\ pc' = "decode" => StepsLeft' = m + (Len(line'.text) + 3)
               /\ pc' = "process" => StepsLeft' = m + 2
               /\ pc' = "down" => StepsLeft' = m
    <3>1. m = 4 * (Len(stream') - pos')
      BY <2>1, <2>3
    <3>2. pc' = "down" => StepsLeft' = m + 0
      BY <3>1 DEF StepsLeft
    <3>3. m + 0 = m
      OBVIOUS
    <3> QED
      BY <3>1, <3>2, <3>3 DEF StepsLeft
  <2>4. CASE sim_receive
    <3> DEFINE s == trim(c_string(SubSeq(stream, pos + 1, pos + fgets_len)))
    <3>1. stream \in Seq(Char) /\ pos \in 0 .. Len(stream) /\ pos < Len(stream)
      BY <1>1, <2>4 DEF WireInv, sim_receive
    <3>2. fgets_len \in 1 .. Len(stream) - pos
      BY <3>1, FgetsFits
    <3>3. /\ SubSeq(stream, pos + 1, pos + fgets_len) \in Seq(Char)
          /\ Len(SubSeq(stream, pos + 1, pos + fgets_len)) = fgets_len
      BY <3>1, <3>2
    <3>4. s \in Seq(Char) /\ Len(s) <= fgets_len
      <4>1. PICK c \in Seq(Char) : /\ c = c_string(SubSeq(stream, pos + 1, pos + fgets_len))
                                   /\ Len(c) <= fgets_len
        BY <3>3, CStringFits
      <4>2. s = trim(c) /\ trim(c) \in Seq(Char) /\ Len(trim(c)) <= Len(c)
        BY <4>1, TrimFits
      <4> QED
        BY <3>2, <4>1, <4>2
    <3>5. PICK f \in Nat, k \in Nat : f = fgets_len /\ f # 0 /\ f <= n - p /\ k = Len(s) /\ k <= f
      BY <2>1, <3>2, <3>4
    <3>6. pc = "receive" /\ stream' = stream /\ pos' = p + f /\ sim_line(s)
      BY <2>1, <2>4, <3>5 DEF sim_receive
    <3> HIDE DEF s
    <3>7. pc' \in {"receive", "down"} \/ (pc' = "decode" /\ Len(line'.text) = k)
      BY <3>5, <3>6 DEF sim_line, ignored, link_is_down, print_atr, card_reset, NoLine
    <3>8. r - 4 * f = 4 * (n - pos') /\ r - 4 * f \in Nat
      BY <2>0, <2>1, <3>5, <3>6
    <3>9. StepsLeft' \in {r - 4 * f, r - 4 * f + 1, r - 4 * f + (k + 3)}
      BY <2>3, <3>6, <3>7, <3>8
    <3> QED
      BY <2>2, <3>5, <3>6, <3>8, <3>9
  <2>5. ASSUME pos' = p, stream' = stream
        PROVE  /\ pc' = "receive" => StepsLeft' = r + 1
               /\ pc' = "decode" => StepsLeft' = r + (Len(line'.text) + 3)
               /\ pc' = "process" => StepsLeft' = r + 2
               /\ pc' = "down" => StepsLeft' = r
    <3>1. r \in Int /\ r = 4 * (n - pos')
      BY <2>0, <2>5
    <3> QED
      BY <2>3, <2>5, <3>1, Zenon
  <2>6. CASE hex_decode
    <3>1. /\ pc = "decode" /\ pc' = "decode" /\ stream' = stream /\ pos' = p
          /\ line.text # <<>> /\ line'.text = Tail(line.text) /\ line.text \in Seq(Char)
      BY <1>1, <2>1, <2>6 DEF hex_decode, WireInv
    <3>2. t # 0 /\ Len(line'.text) = t - 1
      BY <2>1, <3>1
    <3>3. StepsLeft' = r + ((t - 1) + 3) /\ StepsLeft = r + (t + 3)
      BY <2>2, <2>5, <3>1, <3>2
    <3> QED
      BY <3>2, <3>3
  <2>7. CASE hex_decoded \/ sim_eof \/ process
    <3>1. stream' = stream /\ pos' = p
      BY <2>1, <2>7 DEF hex_decoded, sim_eof, process
    <3>2. \/ pc = "decode" /\ pc' \in {"receive", "process"}
          \/ pc = "receive" /\ pc' = "down"
          \/ pc = "process" /\ pc' = "receive"
      BY <2>7 DEF hex_decoded, sim_eof, process, received, link_is_down
    <3> QED
      BY <2>2, <2>5, <3>1, <3>2
  <2>8. CASE arm_getc \/ arm_end_of_line
    <3>1. pc = "receive" /\ stream' = stream /\ pos' = p + 1 /\ p < n
      BY <2>1, <2>8 DEF arm_getc, arm_end_of_line
    <3>2. pc' \in {"receive", "process", "down"}
      BY <2>8 DEF arm_getc, arm_end_of_line, arm_line, arm_control, ignored, link_is_down,
                  print_atr, card_reset, complain, received
    <3>3. r - 4 = 4 * (n - pos') /\ r - 4 \in Nat
      BY <2>0, <2>1, <3>1
    <3>4. StepsLeft' \in {r - 4, r - 4 + 1, r - 4 + 2}
      BY <2>3, <3>1, <3>2, <3>3
    <3> QED
      BY <2>2, <3>1, <3>3, <3>4
  <2> QED
    BY <1>1, <2>4, <2>6, <2>7, <2>8 DEF Next
<1>2. WireInv /\ [Next]_vars => [StepsLeft' \in 0 .. StepsLeft - 1]_vars
  BY <1>1
<1> QED
  BY <1>2, WireInvariance, PTL DEF Spec, LinkAdvances

\* Where a line starts is determined.
LEMMA StartIs ==
  ASSUME NEW p, NEW s \in Seq(Char), NEW i \in 1 .. Len(s) + 1,
         NEW k \in 1 .. i, IsStart(p, s, i, k)
  PROVE  Start(p, s, i) = k
<1>1. ASSUME NEW j \in 1 .. i, IsStart(p, s, i, j) PROVE j = k
  <2>1. i \in Nat /\ j \in Nat /\ k \in Nat
    OBVIOUS
  <2>2. CASE j < k
    <3>1. k - 1 \in j .. i - 1 /\ k # 1
      BY <2>1, <2>2
    <3> QED
      BY <3>1, <1>1 DEF IsStart
  <2>3. CASE k < j
    <3>1. j - 1 \in k .. i - 1 /\ j # 1
      BY <2>1, <2>3
    <3> QED
      BY <3>1, <1>1 DEF IsStart
  <2> QED
    BY <2>1, <2>2, <2>3
<1> QED
  BY <1>1 DEF Start

\* The line of the character after a line end starts there; of any other, it is
\* the line of the one before.
LEMMA StartNext ==
  ASSUME NEW p, NEW s \in Seq(Char)
  PROVE  /\ Start(p, s, 1) = 1
         /\ \A i \in 1 .. Len(s) + 1 : /\ Start(p, s, i) \in 1 .. i
                                       /\ IsStart(p, s, i, Start(p, s, i))
         /\ \A i \in 1 .. Len(s) :
              Start(p, s, i + 1) = IF s[i] \in Ends(p) THEN i + 1 ELSE Start(p, s, i)
<1>0. Len(s) \in Nat
  OBVIOUS
<1>1. IsStart(p, s, 1, 1) /\ 1 \in 1 .. Len(s) + 1 /\ 1 \in 1 .. 1
  BY <1>0 DEF IsStart
<1>2. Start(p, s, 1) = 1
  BY <1>1, StartIs
<1>3. ASSUME NEW i \in 1 .. Len(s), NEW k \in 1 .. i, IsStart(p, s, i, k)
      PROVE  LET m == IF s[i] \in Ends(p) THEN i + 1 ELSE k
             IN m \in 1 .. i + 1 /\ IsStart(p, s, i + 1, m)
  <2>1. CASE s[i] \in Ends(p)
    <3>1. i + 1 \in 1 .. i + 1 /\ (i + 1) - 1 = i /\ (i + 1) .. i = {}
      BY <1>0
    <3> QED
      BY <2>1, <3>1 DEF IsStart
  <2>2. CASE s[i] \notin Ends(p)
    <3>1. k \in 1 .. i + 1
      BY <1>0
    <3>2. \A j \in k .. (i + 1) - 1 : j = i \/ j \in k .. i - 1
      BY <1>0
    <3> QED
      BY <2>2, <3>1, <3>2, <1>3 DEF IsStart
  <2> QED
    BY <2>1, <2>2
<1> DEFINE U == {n \in Nat : n + 1 \in 1 .. Len(s) + 1 =>
                   \E k \in 1 .. n + 1 : IsStart(p, s, n + 1, k)}
<1>4. 0 \in U
  BY <1>1
<1>5. ASSUME NEW n \in Nat, n \in U PROVE n + 1 \in U
  <2> SUFFICES ASSUME (n + 1) + 1 \in 1 .. Len(s) + 1
               PROVE  \E k \in 1 .. (n + 1) + 1 : IsStart(p, s, (n + 1) + 1, k)
    OBVIOUS
  <2>1. n + 1 \in 1 .. Len(s) /\ n + 1 \in 1 .. Len(s) + 1
    BY <1>0
  <2>2. PICK k \in 1 .. n + 1 : IsStart(p, s, n + 1, k)
    BY <1>5, <2>1
  <2> QED
    BY <1>3, <2>1, <2>2
<1>6. Nat \subseteq U
  <2> HIDE DEF U
  <2> QED
    BY <1>4, <1>5, Induction
<1>7. ASSUME NEW i \in 1 .. Len(s) + 1
      PROVE  Start(p, s, i) \in 1 .. i /\ IsStart(p, s, i, Start(p, s, i))
  <2>1. i - 1 \in Nat /\ (i - 1) + 1 = i
    BY <1>0
  <2>2. i - 1 \in U
    BY <1>6, <2>1
  <2>3. PICK k \in 1 .. i : IsStart(p, s, i, k)
    BY <2>2, <2>1
  <2> QED
    BY <2>3, StartIs
<1>8. ASSUME NEW i \in 1 .. Len(s)
      PROVE  Start(p, s, i + 1) = IF s[i] \in Ends(p) THEN i + 1 ELSE Start(p, s, i)
  <2>1. i \in 1 .. Len(s) + 1 /\ i + 1 \in 1 .. Len(s) + 1
    BY <1>0
  <2> QED
    BY <1>3, <1>7, <2>1, StartIs
<1> QED
  BY <1>2, <1>7, <1>8

\* Division with remainder.
LEMMA Remainder ==
  ASSUME NEW m \in Nat \ {0}, NEW a \in Nat
  PROVE  a = (a \div m) * m + (a % m) /\ a % m \in 0 .. m - 1 /\ a \div m \in Nat
OBVIOUS

\* A character that a driver reads into its buffer from where a line was cut, up
\* to the line end and as far as there is room.
InReach(s, k, j) ==
  /\ k \in 0 .. Len(s) - 1 /\ j \in k + 1 .. Len(s) /\ j - k <= Most
  /\ \A x \in k + 1 .. j - 1 : s[x] # "\n"
Stops(s, k, j) == s[j] = "\n" \/ j = Len(s) \/ j - k = Most

\* Where fgets stops, a line of WirePorts ends, that starts where fgets did.
LEMMA CutFacts ==
  \A s \in Seq(Char) : \A k, j : Cut(s, k) /\ InReach(s, k, j) =>
    /\ CutStart("sim", s, j) = k + 1
    /\ EndsLine("sim", s, j) <=> Stops(s, k, j)
    /\ Stops(s, k, j) => Cut(s, j)
\* In the characters up to a line end, the line stays the same.
<1>StartStays.
    ASSUME NEW p, NEW s \in Seq(Char), NEW i \in 1 .. Len(s), NEW j \in i .. Len(s),
           \A x \in i .. j - 1 : s[x] \notin Ends(p)
    PROVE  Start(p, s, j) = Start(p, s, i)
  <2>0. Len(s) \in Nat /\ i \in 1 .. Len(s) + 1 /\ j \in 1 .. Len(s) + 1
    OBVIOUS
  <2> DEFINE k == Start(p, s, i)
  <2>1. k \in 1 .. i /\ IsStart(p, s, i, k)
    BY <2>0, StartNext
  <2> HIDE DEF k
  <2>2. \A x \in k .. j - 1 : x \in k .. i - 1 \/ x \in i .. j - 1
    BY <2>0, <2>1
  <2>3. k \in 1 .. j
    BY <2>0, <2>1
  <2>4. IsStart(p, s, j, k)
    BY <1>StartStays, <2>1, <2>2 DEF IsStart
  <2> QED
    BY <2>0, <2>3, <2>4, StartIs DEF k
\* Quotient and remainder are determined.
<1>Quotient.
    ASSUME NEW m \in Nat \ {0}, NEW q \in Nat, NEW r \in 0 .. m - 1
    PROVE  (q * m + r) \div m = q /\ (q * m + r) % m = r
  BY <1>Quotient
\* Less than m characters after a multiple of m: the quotient is the same, and
\* only the m-th makes a multiple again.
<1>NextMultiple.
    ASSUME NEW m \in Nat \ {0}, NEW a \in Nat, a % m = 0, NEW d \in 0 .. m - 1
    PROVE  /\ ((a + d) \div m) * m = a
           /\ (a + d + 1) % m = 0 <=> d + 1 = m
           /\ (a + m) % m = 0
  <2> DEFINE q == a \div m
  <2>1. a = q * m /\ q \in Nat
    BY <1>NextMultiple, Remainder
  <2> HIDE DEF q
  <2>2. q * m \in Nat
    BY <2>1
  <2>3. (q * m + d) \div m = q
    BY <2>1, <1>Quotient
  <2>4. (q + 1) * m = q * m + m /\ q + 1 \in Nat /\ 0 \in 0 .. m - 1
    BY <2>1
  <2>5. ((q + 1) * m + 0) % m = 0
    BY <2>4, <1>Quotient
  <2>6. (a + m) % m = 0
    BY <2>1, <2>2, <2>4, <2>5
  <2>7. CASE d + 1 = m
    BY <2>1, <2>2, <2>3, <2>6, <2>7
  <2>8. CASE d + 1 # m
    <3>1. d + 1 \in 0 .. m - 1
      BY <2>8
    <3>2. (q * m + (d + 1)) % m = d + 1
      BY <2>1, <3>1, <1>Quotient
    <3>3. q * m + (d + 1) = a + d + 1
      BY <2>1, <2>2
    <3> QED
      BY <2>1, <2>3, <2>6, <2>8, <3>1, <3>2, <3>3
  <2> QED
    BY <2>7, <2>8
<1> SUFFICES ASSUME NEW s \in Seq(Char), NEW k, NEW j, Cut(s, k), InReach(s, k, j)
             PROVE  /\ CutStart("sim", s, j) = k + 1
                    /\ EndsLine("sim", s, j) <=> Stops(s, k, j)
                    /\ Stops(s, k, j) => Cut(s, j)
  OBVIOUS
<1>0. /\ Len(s) \in Nat /\ k \in Nat /\ j \in Nat /\ k < j /\ j <= Len(s)
      /\ Most \in Nat \ {0} /\ j - k <= Most
      /\ k + 1 \in 1 .. Len(s) /\ j \in k + 1 .. Len(s)
      /\ k + 1 \in 1 .. Len(s) + 1 /\ j \in 1 .. Len(s)
  BY Sizes DEF InReach, Most
<1>1. Ends("sim") = {"\n"}
  BY DEF Ends
<1> DEFINE st == Start("sim", s, k + 1)
           a == k + 1 - st
           d == j - (k + 1)
<1>2. st \in 1 .. k + 1
  BY <1>0, StartNext
<1>3. Start("sim", s, j) = st
  BY <1>0, <1>1, <1>StartStays DEF InReach
<1>4. a % Most = 0
  BY <1>0 DEF Cut
<1>5. Start("sim", s, j + 1) = IF s[j] \in Ends("sim") THEN j + 1 ELSE st
  BY <1>0, <1>3, StartNext
<1> HIDE DEF st
<1>6. a \in Nat /\ d \in 0 .. Most - 1 /\ a + d = j - st /\ a + d + 1 = j + 1 - st
  BY <1>0, <1>2
<1>7. /\ ((j - st) \div Most) * Most = a
      /\ (j + 1 - st) % Most = 0 <=> d + 1 = Most
  <2> HIDE DEF a, d
  <2>1. /\ ((a + d) \div Most) * Most = a
        /\ (a + d + 1) % Most = 0 <=> d + 1 = Most
    <3>1. Most \in Nat \ {0} /\ a \in Nat /\ a % Most = 0 /\ d \in 0 .. Most - 1
      BY <1>0, <1>4, <1>6
    <3> QED
      BY <3>1, <1>NextMultiple, Zenon
  <2> QED
    BY <2>1, <1>6
<1>8. CutStart("sim", s, j) = k + 1
  <2>1. CutStart("sim", s, j) = st + ((j - st) \div Most) * Most
    BY <1>3 DEF CutStart
  <2> QED
    BY <2>1, <1>7, <1>0, <1>2
<1>9. d + 1 = Most <=> j - k = Most
  BY <1>0
<1>10. EndsLine("sim", s, j) <=> Stops(s, k, j)
  BY <1>1, <1>3, <1>7, <1>9 DEF EndsLine, Stops
<1>11. Stops(s, k, j) => Cut(s, j)
  <2>1. CASE s[j] = "\n"
    <3>1. j + 1 - Start("sim", s, j + 1) = 0
      BY <1>0, <1>1, <1>5, <2>1
    <3>2. 0 % Most = 0
      BY <1>0
    <3> QED
      BY <3>1, <3>2 DEF Cut
  <2>2. CASE s[j] # "\n" /\ j - k = Most
    BY <2>2, <1>1, <1>5, <1>7, <1>9 DEF Cut
  <2> QED
    BY <2>1, <2>2 DEF Stops, Cut
<1> QED
  BY <1>8, <1>10, <1>11

\* The first line is not cut.
LEMMA CutFirst ==
  ASSUME NEW s \in Seq(Char)
  PROVE  Cut(s, 0)
<1>1. Start("sim", s, 1) = 1
  BY StartNext
<1>2. 0 % Most = 0 /\ 0 + 1 = 1 /\ 1 - 1 = 0
  BY Sizes DEF Most
<1> QED
  BY <1>1, <1>2 DEF Cut

\* Where fgets stops: at the line end, at the end of the stream or when the
\* buffer is full, and at none of these before.
LEMMA FgetsStops ==
  ASSUME stream \in Seq(Char), pos \in 0 .. Len(stream), pos < Len(stream)
  PROVE  /\ InReach(stream, pos, pos + fgets_len) /\ Stops(stream, pos, pos + fgets_len)
         /\ \A j \in pos + 1 .. pos + fgets_len - 1 :
              InReach(stream, pos, j) /\ ~Stops(stream, pos, j)
<1> DEFINE rest == SubSeq(stream, pos + 1, Len(stream))
           room == IF Len(rest) < LINE_MAX - 1 THEN Len(rest) ELSE LINE_MAX - 1
           ends == {i \in 1 .. room : rest[i] = "\n"}
           n == fgets_len
<1>1. Len(rest) = Len(stream) - pos /\ \A i \in 1 .. Len(rest) : rest[i] = stream[pos + i]
  OBVIOUS
<1>2. n = IF ends = {} THEN room ELSE CHOOSE i \in ends : \A j \in ends : i <= j
  BY DEF fgets_len
<1>3. n \in 1 .. Len(stream) - pos /\ n < LINE_MAX
  BY FgetsFits
<1> HIDE DEF rest, n
<1>4. Len(stream) \in Nat /\ pos \in Nat /\ Most \in Nat /\ Most = LINE_MAX - 1
  BY Sizes DEF Most
<1>4a. LINE_MAX \in Nat
  BY Sizes
<1>5. room \in 1 .. Len(stream) - pos /\ room <= Most /\ (room = Len(stream) - pos \/ room = Most)
  BY <1>1, <1>4, Sizes
<1> HIDE DEF room
<1>6. \A i \in 1 .. room : i \in ends <=> stream[pos + i] = "\n"
  BY <1>1, <1>4, <1>5
<1>7. ends \in SUBSET (1 .. room) /\ ends \in SUBSET Nat
  BY <1>5, <1>4
<1> HIDE DEF ends
<1>8. n \in 1 .. room /\ (n \in ends \/ n = room) /\ \A i \in 1 .. n - 1 : i \in 1 .. room /\ i \notin ends
  <2>1. CASE ends = {}
    BY <1>2, <1>4, <1>5, <2>1
  <2>2. CASE ends # {}
    <3>1. \E i \in ends : \A j \in ends : i <= j
      BY <1>7, <2>2, Least
    <3>2. n \in ends /\ \A j \in ends : n <= j
      BY <1>2, <2>2, <3>1
    <3>3. \A i \in 1 .. n - 1 : i \in 1 .. room /\ ~(n <= i)
      BY <1>4, <1>5, <1>7, <3>2
    <3> QED
      BY <1>7, <3>2, <3>3
  <2> QED
    BY <2>1, <2>2
<1>9. \A j \in pos + 1 .. pos + n - 1 : stream[j] # "\n"
  <2> SUFFICES ASSUME NEW j \in pos + 1 .. pos + n - 1 PROVE stream[j] # "\n"
    OBVIOUS
  <2>1. j - pos \in 1 .. n - 1 /\ pos + (j - pos) = j
    BY <1>3, <1>4
  <2> QED
    BY <1>6, <1>8, <2>1
<1>10. InReach(stream, pos, pos + n)
  BY <1>3, <1>4, <1>4a, <1>9 DEF InReach
<1>11. Stops(stream, pos, pos + n)
  BY <1>3, <1>4, <1>5, <1>6, <1>8 DEF Stops
<1>12. ASSUME NEW j \in pos + 1 .. pos + n - 1
       PROVE  InReach(stream, pos, j) /\ ~Stops(stream, pos, j)
  <2>1. j \in pos + 1 .. Len(stream) /\ j < Len(stream) /\ j - pos < Most /\ j \in Int
    BY <1>3, <1>4, <1>4a
  <2>2. \A x \in pos + 1 .. j - 1 : x \in pos + 1 .. pos + n - 1
    BY <1>3, <1>4
  <2>3. pos \in 0 .. Len(stream) - 1
    BY <1>4
  <2> QED
    BY <1>4, <1>9, <2>1, <2>2, <2>3 DEF InReach, Stops
<1> QED
  BY <1>10, <1>11, <1>12 DEF n

\* No two of the digits are alike.
LEMMA DigitsDiffer ==
  /\ \A v, w \in 0 .. 15 : Digits[v + 1] = Digits[w + 1] => v = w
  /\ \A v \in 0 .. 15, w \in 10 .. 15 : Digits[v + 1] # LowerDigits[w - 9]
  /\ \A v, w \in 10 .. 15 : LowerDigits[v - 9] = LowerDigits[w - 9] => v = w
<1>1. /\ \A v \in 0 .. 15 : v \in {0, 1, 2, 3, 4, 5, 6, 7, 8, 9, 10, 11, 12, 13, 14, 15}
      /\ \A v \in 10 .. 15 : v \in {10, 11, 12, 13, 14, 15}
  OBVIOUS
<1>2. /\ Digits[1] = "0" /\ Digits[2] = "1" /\ Digits[3] = "2" /\ Digits[4] = "3"
      /\ Digits[5] = "4" /\ Digits[6] = "5" /\ Digits[7] = "6" /\ Digits[8] = "7"
      /\ Digits[9] = "8" /\ Digits[10] = "9" /\ Digits[11] = "A" /\ Digits[12] = "B"
      /\ Digits[13] = "C" /\ Digits[14] = "D" /\ Digits[15] = "E" /\ Digits[16] = "F"
  BY DEF Digits
<1>3. /\ LowerDigits[1] = "a" /\ LowerDigits[2] = "b" /\ LowerDigits[3] = "c"
      /\ LowerDigits[4] = "d" /\ LowerDigits[5] = "e" /\ LowerDigits[6] = "f"
  BY DEF LowerDigits
<1>4. \A v, w \in 0 .. 15 : Digits[v + 1] = Digits[w + 1] => v = w
  BY <1>1, <1>2
<1>5. \A v \in 0 .. 15, w \in 10 .. 15 : Digits[v + 1] # LowerDigits[w - 9]
  BY <1>1, <1>2, <1>3
<1>6. \A v, w \in 10 .. 15 : LowerDigits[v - 9] = LowerDigits[w - 9] => v = w
  BY <1>1, <1>3
<1> QED
  BY <1>4, <1>5, <1>6

\* hex_nibble gives a digit its value, and -1 to anything else.
LEMMA NibbleIs ==
  ASSUME NEW c
  PROVE  /\ c \in HexDigit => Value(c) \in 0 .. 15 /\ hex_nibble(c) = Value(c)
         /\ c \notin HexDigit => hex_nibble(c) = -1
<1>0. /\ c \in HexDigit <=> c \in Range(Digits) \/ c \in Range(LowerDigits)
      /\ 10 .. 15 \subseteq 0 .. 15 /\ \A v \in 10 .. 15 : v > 9
      /\ \A v \in 0 .. 15 : v > 9 => v \in 10 .. 15
  BY DEF HexDigit
<1>1. CASE c \in Range(Digits)
  <2>1. PICK i \in 1 .. 16 : Digits[i] = c
    BY <1>1 DEF Range, Digits
  <2>2. i - 1 \in 0 .. 15 /\ (i - 1) + 1 = i
    OBVIOUS
  <2>3. \A v \in 0 .. 15 : Digits[v + 1] = c => v = i - 1
    BY <2>1, <2>2, DigitsDiffer
  <2>4. hex_nibble(c) = i - 1
    BY <1>1, <2>1, <2>2, <2>3 DEF hex_nibble
  <2>5. \A v \in 10 .. 15 : LowerDigits[v - 9] # c
    BY <2>1, <2>2, DigitsDiffer
  <2> DEFINE Is(v) == c \in {Digits[v + 1]} \cup (IF v > 9 THEN {LowerDigits[v - 9]} ELSE {})
  <2>6. Is(i - 1) /\ \A v \in 0 .. 15 : Is(v) => v = i - 1
    BY <2>1, <2>2, <2>3, <2>5, <1>0
  <2>7. Value(c) = CHOOSE v \in 0 .. 15 : Is(v)
    BY DEF Value
  <2> HIDE DEF Is
  <2>8. Value(c) = i - 1
    BY <2>2, <2>6, <2>7
  <2> QED
    BY <1>0, <1>1, <2>2, <2>4, <2>8
<1>2. CASE c \notin Range(Digits) /\ c \in Range(LowerDigits)
  <2>1. PICK i \in 1 .. 6 : LowerDigits[i] = c
    BY <1>2 DEF Range, LowerDigits
  <2>2. i + 9 \in 10 .. 15 /\ (i + 9) - 9 = i /\ i + 9 \in 0 .. 15 /\ i + 9 > 9
    OBVIOUS
  <2>3. \A v \in 10 .. 15 : LowerDigits[v - 9] = c => v = i + 9
    BY <2>1, <2>2, DigitsDiffer
  <2>4. hex_nibble(c) = i + 9
    BY <1>2, <2>1, <2>2, <2>3 DEF hex_nibble
  <2>5. \A v \in 0 .. 15 : Digits[v + 1] # c
    BY <2>1, <2>2, DigitsDiffer
  <2> DEFINE Is(v) == c \in {Digits[v + 1]} \cup (IF v > 9 THEN {LowerDigits[v - 9]} ELSE {})
  <2>6. Is(i + 9) /\ \A v \in 0 .. 15 : Is(v) => v = i + 9
    BY <2>1, <2>2, <2>3, <2>5, <1>0
  <2>7. Value(c) = CHOOSE v \in 0 .. 15 : Is(v)
    BY DEF Value
  <2> HIDE DEF Is
  <2>8. Value(c) = i + 9
    BY <2>2, <2>6, <2>7
  <2> QED
    BY <1>0, <1>2, <2>2, <2>4, <2>8
<1>3. CASE c \notin Range(Digits) /\ c \notin Range(LowerDigits)
  BY <1>0, <1>3 DEF hex_nibble
<1> QED
  BY <1>1, <1>2, <1>3

\* decode does to its record what one digit more does to the digits.
LEMMA DecodeStep ==
  \A d \in Dec, D \in Seq(Char), c \in Char :
    Decoded(d, D) => Decoded(decode(d, c), Append(D, c))
\* One more digit: half a byte more.
<1>BytesOfAppend.
    ASSUME NEW D \in Seq(Char), NEW c \in Char
    PROVE  /\ Len(BytesOf(D)) = Len(D) \div 2
           /\ Len(D) % 2 = 0 => BytesOf(Append(D, c)) = BytesOf(D)
           /\ Len(D) % 2 = 1 => BytesOf(Append(D, c)) =
                                  Append(BytesOf(D), 16 * Value(D[Len(D)]) + Value(c))
  <2> DEFINE n == Len(D)
             E == Append(D, c)
             h == n \div 2
             F(S, i) == 16 * Value(S[2 * i - 1]) + Value(S[2 * i])
  <2>1. n \in Nat /\ Len(E) = n + 1 /\ h \in Nat
        /\ \A i \in 1 .. n : E[i] = D[i]
        /\ E[n + 1] = c
    OBVIOUS
  <2>2. /\ BytesOf(D) = [i \in 1 .. h |-> F(D, i)]
        /\ BytesOf(E) = [i \in 1 .. (n + 1) \div 2 |-> F(E, i)]
    BY <2>1 DEF BytesOf
  <2>3. Len(BytesOf(D)) = h
    BY <2>1, <2>2
  <2>4. \A i \in 1 .. h : 2 * i - 1 \in 1 .. n /\ 2 * i \in 1 .. n
    BY <2>1
  <2> HIDE DEF E
  <2>5. \A i \in 1 .. h : F(E, i) = F(D, i)
    BY <2>1, <2>4
  <2>6. ASSUME n % 2 = 0 PROVE BytesOf(E) = BytesOf(D)
    <3>1. (n + 1) \div 2 = h
      BY <2>1, <2>6
    <3>2. BytesOf(E) = BytesOf(D)
      <4> HIDE DEF F, h
      <4> QED
        BY <2>2, <2>5, <3>1
    <3> QED
      BY <3>2
  <2>7. ASSUME n % 2 = 1 PROVE BytesOf(E) = Append(BytesOf(D), 16 * Value(D[n]) + Value(c))
    <3>1. (n + 1) \div 2 = h + 1 /\ 2 * (h + 1) - 1 = n /\ 2 * (h + 1) = n + 1 /\ n \in 1 .. n
      BY <2>1, <2>7
    <3>2. F(E, h + 1) = 16 * Value(D[n]) + Value(c)
      <4>1. F(E, h + 1) = 16 * Value(E[2 * (h + 1) - 1]) + Value(E[2 * (h + 1)])
        OBVIOUS
      <4> HIDE DEF h
      <4> QED
        BY <4>1, <3>1, <2>1
    <3>3. Append([i \in 1 .. h |-> F(D, i)], F(E, h + 1)) = [i \in 1 .. h + 1 |-> F(E, i)]
      <4> HIDE DEF F, h
      <4> QED
        BY <2>1, <2>5
    <3>4. BytesOf(E) = Append(BytesOf(D), F(E, h + 1))
      <4> HIDE DEF F, h
      <4> QED
        BY <2>2, <3>1, <3>3
    <3>5. BytesOf(E) = Append(BytesOf(D), 16 * Value(D[n]) + Value(c))
      <4> HIDE DEF F, h
      <4> QED
        BY <3>2, <3>4
    <3> QED
      BY <3>5
  <2>8. n % 2 = 0 => BytesOf(E) = BytesOf(D)
    BY <2>6
  <2>9. n % 2 = 1 => BytesOf(E) = Append(BytesOf(D), 16 * Value(D[n]) + Value(c))
    BY <2>7
  <2> QED
    BY <2>3, <2>8, <2>9 DEF E
<1> SUFFICES ASSUME NEW d \in Dec, NEW D \in Seq(Char), NEW c \in Char, Decoded(d, D)
             PROVE  Decoded(decode(d, c), Append(D, c))
  OBVIOUS
<1> DEFINE E == Append(D, c)
           n == Len(D)
           v == hex_nibble(c)
<1>1. n \in Nat /\ Len(E) = n + 1 /\ E \in Seq(Char)
      /\ (\A i \in 1 .. n : E[i] = D[i]) /\ E[n + 1] = c
  OBVIOUS
<1>2. AllHex(E) <=> AllHex(D) /\ c \in HexDigit
  <2>1. \A i \in 1 .. n + 1 : i \in 1 .. n \/ i = n + 1
    BY <1>1
  <2>2. \A i \in 1 .. n : i \in 1 .. n + 1
    BY <1>1
  <2>3. n + 1 \in 1 .. n + 1
    BY <1>1
  <2> HIDE DEF E
  <2> QED
    BY <1>1, <2>1, <2>2, <2>3 DEF AllHex
<1>3. /\ Len(BytesOf(D)) = n \div 2
      /\ n % 2 = 0 => BytesOf(E) = BytesOf(D)
      /\ n % 2 = 1 => BytesOf(E) = Append(BytesOf(D), 16 * Value(D[n]) + Value(c))
  BY <1>BytesOfAppend
<1> HIDE DEF E
<1>4. decode(d, c) = IF v < 0 THEN [d EXCEPT !.bad = TRUE]
                     ELSE IF d.hi < 0 THEN [d EXCEPT !.hi = v]
                     ELSE IF Len(d.buf) >= CMD_MAX THEN [d EXCEPT !.bad = TRUE, !.hi = -1]
                     ELSE [d EXCEPT !.buf = Append(@, 16 * d.hi + v), !.hi = -1]
  BY DEF decode
<1>5. /\ c \in HexDigit => v \in 0 .. 15 /\ v = Value(c)
      /\ c \notin HexDigit => v = -1
  BY NibbleIs
<1> HIDE DEF v
<1>6. d \in [buf : Seq(0 .. 255), hi : -1 .. 15, bad : BOOLEAN]
  BY Zenon DEF Dec
<1>7. v < 0 <=> c \notin HexDigit
  BY <1>5
<1>8. CASE ~(AllHex(D) /\ n <= 2 * CMD_MAX + 1)
  <2>1. d.bad = TRUE
    BY <1>6, <1>8 DEF Decoded
  <2>2. decode(d, c).bad = TRUE
    BY <1>4, <1>6, <2>1
  <2>3. ~(AllHex(E) /\ Len(E) <= 2 * CMD_MAX + 1)
    BY <1>1, <1>2, <1>8, Sizes
  <2> QED
    BY <2>2, <2>3 DEF Decoded, E
<1>9. CASE AllHex(D) /\ n <= 2 * CMD_MAX + 1 /\ c \notin HexDigit
  <2>1. decode(d, c).bad = TRUE
    BY <1>4, <1>6, <1>7, <1>9
  <2> QED
    BY <1>2, <1>9, <2>1 DEF Decoded, E
<1>10. CASE AllHex(D) /\ n <= 2 * CMD_MAX + 1 /\ c \in HexDigit /\ n % 2 = 0
  <2>1. d = [buf |-> BytesOf(D), hi |-> -1, bad |-> FALSE]
    BY <1>10 DEF Decoded
  <2>2. d.hi < 0 /\ ~(v < 0)
    BY <2>1, <1>7, <1>10
  <2>3. decode(d, c) = [buf |-> BytesOf(E), hi |-> v, bad |-> FALSE]
    BY <1>3, <1>4, <1>10, <2>1, <2>2
  <2>4. Len(E) <= 2 * CMD_MAX + 1 /\ Len(E) % 2 = 1
    <3>1. \A m, k \in Nat : m % 2 = 0 /\ m <= 2 * k + 1 =>
                             m + 1 <= 2 * k + 1 /\ (m + 1) % 2 = 1
      OBVIOUS
    <3> QED
      BY <1>1, <1>10, <3>1, Sizes
  <2>5. v = Value(E[Len(E)])
    BY <1>1, <1>5, <1>10
  <2> QED
    BY <1>2, <1>10, <2>3, <2>4, <2>5 DEF Decoded, E
<1>11. CASE AllHex(D) /\ n <= 2 * CMD_MAX + 1 /\ c \in HexDigit /\ n % 2 = 1
  <2> DEFINE w == Value(D[n])
  <2>1. d = [buf |-> BytesOf(D), hi |-> w, bad |-> FALSE]
    BY <1>11 DEF Decoded
  <2>2. n \in 1 .. n
    BY <1>1, <1>11
  <2>3. w \in 0 .. 15
    BY <2>2, <1>11, NibbleIs DEF AllHex
  <2> HIDE DEF w
  <2>4. ~(d.hi < 0) /\ ~(v < 0) /\ d.hi = w /\ d.buf = BytesOf(D)
    BY <2>1, <2>3, <1>7, <1>11
  <2>5. Len(d.buf) = n \div 2
    BY <1>3, <2>4
  <2>6. Len(d.buf) >= CMD_MAX <=> ~(n + 1 <= 2 * CMD_MAX + 1)
    BY <2>5, <1>1, <1>11, Sizes
  <2>7. CASE Len(d.buf) >= CMD_MAX
    <3>1. decode(d, c).bad = TRUE
      BY <1>4, <1>6, <2>4, <2>7
    <3> QED
      BY <1>1, <2>6, <2>7, <3>1 DEF Decoded, E
  <2>8. CASE ~(Len(d.buf) >= CMD_MAX)
    <3>1. decode(d, c) = [d EXCEPT !.buf = Append(@, 16 * d.hi + v), !.hi = -1]
      BY <1>4, <2>4, <2>8
    <3>2. v = Value(c)
      BY <1>5, <1>11
    <3>3. decode(d, c) = [buf |-> Append(BytesOf(D), 16 * w + Value(c)), hi |-> -1, bad |-> FALSE]
      BY <2>1, <3>1, <3>2
    <3>4. decode(d, c) = [buf |-> BytesOf(E), hi |-> -1, bad |-> FALSE]
      BY <1>3, <1>11, <3>3 DEF w
    <3>5. Len(E) % 2 # 1
      BY <1>1, <1>11
    <3>6. Len(E) <= 2 * CMD_MAX + 1 /\ AllHex(E)
      BY <1>1, <1>2, <1>11, <2>6, <2>8
    <3> QED
      BY <3>4, <3>5, <3>6 DEF Decoded, E
  <2> QED
    BY <2>7, <2>8
<1>12. n % 2 = 0 \/ n % 2 = 1
  BY <1>1
<1> QED
  BY <1>8, <1>9, <1>10, <1>11, <1>12

\* Before the first digit.
LEMMA DecodedNothing == Decoded(NoDigits, <<>>)
<1>1. AllHex(<<>>) /\ Len(<<>>) = 0 /\ 0 <= 2 * CMD_MAX + 1 /\ 0 % 2 = 0 /\ 0 % 2 # 1
  BY Sizes DEF AllHex
<1>2. BytesOf(<<>>) = <<>>
  BY DEF BytesOf
<1>3. NoDigits = [buf |-> BytesOf(<<>>),
                  hi |-> IF Len(<<>>) % 2 = 1 THEN Value(<<>>[Len(<<>>)]) ELSE -1,
                  bad |-> FALSE]
  <2>1. (IF Len(<<>>) % 2 = 1 THEN Value(<<>>[Len(<<>>)]) ELSE -1) = -1
    BY <1>1
  <2> QED
    BY <1>2, <2>1 DEF NoDigits
<1>4. AllHex(<<>>) /\ Len(<<>>) <= 2 * CMD_MAX + 1
  BY <1>1
<1> QED
  BY <1>3, <1>4 DEF Decoded

-----------------------------------------------------------------------------
\* What DigitsOf keeps of a character.
Kept(c) == IF c \in Space \cup {":"} THEN <<>> ELSE <<c>>

Keeps(l) == [i \in 1 .. Len(l) |-> Kept(l[i])]

\* The digits of the first n characters.
LEMMA DigitsAre ==
  ASSUME NEW l \in Seq(Char)
  PROVE  /\ Keeps(l) \in Seq(Seq(Char)) /\ Len(Keeps(l)) = Len(l)
         /\ \A i \in 1 .. Len(l) : Keeps(l)[i] = Kept(l[i])
         /\ \A n \in 0 .. Len(l) : DigitsOf(SubSeq(l, 1, n)) = UpTo(Keeps(l), n)
<1> DEFINE q == Keeps(l)
<1>1. \A s : DigitsOf(s) = FlattenSeq(Keeps(s))
  BY DEF DigitsOf, Kept, Keeps
<1>2. Len(l) \in Nat
  OBVIOUS
<1>3. \A i \in 1 .. Len(l) : Kept(l[i]) \in Seq(Char)
  <2> SUFFICES ASSUME NEW i \in 1 .. Len(l) PROVE Kept(l[i]) \in Seq(Char)
    OBVIOUS
  <2>1. l[i] \in Char
    OBVIOUS
  <2>2. <<>> \in Seq(Char) /\ \A x \in Char : <<x>> \in Seq(Char)
    OBVIOUS
  <2> QED
    BY <2>1, <2>2 DEF Kept
<1>4. q \in Seq(Seq(Char)) /\ Len(q) = Len(l) /\ \A i \in 1 .. Len(l) : q[i] = Kept(l[i])
  BY <1>2, <1>3 DEF Keeps
<1>5. ASSUME NEW n \in 0 .. Len(l) PROVE DigitsOf(SubSeq(l, 1, n)) = UpTo(q, n)
  <2>1. Len(SubSeq(l, 1, n)) = n /\ \A i \in 1 .. n : SubSeq(l, 1, n)[i] = l[i]
    BY <1>2
  <2>2. Keeps(SubSeq(l, 1, n)) = [i \in 1 .. n |-> Kept(l[i])]
    BY <2>1 DEF Keeps
  <2>3. SubSeq(q, 1, n) = [i \in 1 .. n |-> Kept(l[i])]
    <3> HIDE DEF q
    <3>1. SubSeq(q, 1, n) = [i \in 1 .. n |-> q[i]]
      BY <1>2, <1>4
    <3>2. \A i \in 1 .. n : q[i] = Kept(l[i])
      BY <1>2, <1>4
    <3> QED
      BY <3>1, <3>2
  <2> QED
    BY <1>1, <2>2, <2>3 DEF UpTo
<1> QED
  BY <1>4, <1>5

\* Taking one character more into account.
LEMMA DigitsGrow ==
  ASSUME NEW l \in Seq(Char)
  PROVE  /\ \A n \in 0 .. Len(l) : DigitsOf(SubSeq(l, 1, n)) \in Seq(Char)
         /\ DigitsOf(SubSeq(l, 1, 0)) = <<>>
         /\ \A n \in 1 .. Len(l) : DigitsOf(SubSeq(l, 1, n)) =
                                     Cat(DigitsOf(SubSeq(l, 1, n - 1)), Kept(l[n]))
<1> DEFINE q == Keeps(l)
<1>1. /\ q \in Seq(Seq(Char)) /\ Len(q) = Len(l)
      /\ \A i \in 1 .. Len(l) : q[i] = Kept(l[i])
      /\ \A n \in 0 .. Len(l) : DigitsOf(SubSeq(l, 1, n)) = UpTo(q, n)
  BY DigitsAre
<1> HIDE DEF q
<1>2. /\ \A k \in 0 .. Len(q) : UpTo(q, k) \in Seq(Char)
      /\ UpTo(q, 0) = <<>>
      /\ \A k \in 1 .. Len(q) : UpTo(q, k) = Cat(UpTo(q, k - 1), q[k])
  BY <1>1, UpToFacts
<1>3. 0 \in 0 .. Len(l) /\ \A n \in 1 .. Len(l) : n \in 0 .. Len(l) /\ n - 1 \in 0 .. Len(l)
  OBVIOUS
<1> QED
  BY <1>1, <1>2, <1>3

\* The digits of some first characters are first digits of the line.
LEMMA DigitsPrefix ==
  ASSUME NEW l \in Seq(Char), NEW n \in 0 .. Len(l)
  PROVE  LET D == DigitsOf(SubSeq(l, 1, n))
             E == DigitsOf(l)
         IN /\ D \in Seq(Char) /\ E \in Seq(Char) /\ Len(D) <= Len(E)
            /\ \A i \in 1 .. Len(D) : E[i] = D[i]
<1> DEFINE q == Keeps(l)
           D == DigitsOf(SubSeq(l, 1, n))
           E == DigitsOf(l)
<1>0. Len(l) \in 0 .. Len(l) /\ SubSeq(l, 1, Len(l)) = l /\ n <= Len(l)
  OBVIOUS
<1>1. q \in Seq(Seq(Char)) /\ Len(q) = Len(l) /\ D = UpTo(q, n) /\ E = UpTo(q, Len(l))
  BY <1>0, DigitsAre
<1>2. D \in Seq(Char) /\ E \in Seq(Char)
  BY <1>0, DigitsGrow
<1> HIDE DEF q, D, E
<1>3. /\ Len(UpTo(q, n)) <= Len(UpTo(q, Len(l)))
      /\ \A i \in 1 .. Len(UpTo(q, n)) : UpTo(q, Len(l))[i] = UpTo(q, n)[i]
  BY <1>0, <1>1, UpToPrefix
<1>4. Len(D) <= Len(E) /\ \A i \in 1 .. Len(D) : E[i] = D[i]
  BY <1>1, <1>3
<1> QED
  BY <1>2, <1>4 DEF D, E

\* The same, one case at a time.
LEMMA DigitsNext ==
  ASSUME NEW l \in Seq(Char), NEW n \in 1 .. Len(l)
  PROVE  /\ DigitsOf(SubSeq(l, 1, n - 1)) \in Seq(Char)
         /\ l[n] \in Space \cup {":"} =>
              DigitsOf(SubSeq(l, 1, n)) = DigitsOf(SubSeq(l, 1, n - 1))
         /\ l[n] \notin Space \cup {":"} =>
              DigitsOf(SubSeq(l, 1, n)) = Append(DigitsOf(SubSeq(l, 1, n - 1)), l[n])
<1> DEFINE D == DigitsOf(SubSeq(l, 1, n - 1))
<1>1. n - 1 \in 0 .. Len(l)
  OBVIOUS
<1>2. D \in Seq(Char) /\ DigitsOf(SubSeq(l, 1, n)) = Cat(D, Kept(l[n]))
  BY <1>1, DigitsGrow
<1> HIDE DEF D
<1>3. Cat(D, <<>>) = D
  BY <1>2 DEF Cat
<1>4. \A x \in Char : Cat(D, <<x>>) = Append(D, x)
  BY <1>2 DEF Cat
<1>5. l[n] \in Char
  OBVIOUS
<1> QED
  BY <1>2, <1>3, <1>4, <1>5 DEF Kept, D

\* What a buffer of the size of k->rsp has room for beside the status word.
Room == available(RSP_MAX)

\* The response buffer has two bytes more than the data may take.
LEMMA RoomIs == Room \in Nat /\ Room + 2 = RSP_MAX /\ RSP_MAX \in Nat
<1>1. RSP_MAX \in Nat /\ RSP_MAX >= 2
  BY SizesAssumption
<1> QED
  BY <1>1 DEF Room, available

\* The states of a response buffer.
Rsp(X) == [data : Seq(X), overflow : BOOLEAN]

\* What apdu_rsp_put leaves in the buffer.
Holds(r, u, X) == /\ r \in Rsp(X)
                  /\ Len(u) <= Room => r = [data |-> u, overflow |-> FALSE]
                  /\ Len(u) > Room => r.overflow = TRUE

\* apdu_rsp_put keeps the type of a response.
LEMMA PutType ==
  ASSUME NEW X, NEW r \in Rsp(X), NEW src \in Seq(X)
  PROVE  apdu_rsp_put(r, src, RSP_MAX) \in Rsp(X)
<1>1. r.data \in Seq(X) /\ r.overflow \in BOOLEAN
      /\ r = [data |-> r.data, overflow |-> r.overflow]
  BY DEF Rsp
<1>2. Cat(r.data, src) \in Seq(X)
  BY <1>1 DEF Cat
<1>3. \A x \in Seq(X), o \in BOOLEAN : [data |-> x, overflow |-> o] \in Rsp(X)
  BY DEF Rsp
<1>4. [r EXCEPT !.overflow = TRUE] \in Rsp(X)
  BY DEF Rsp
<1>5. [r EXCEPT !.data = Cat(@, src)] = [data |-> Cat(r.data, src), overflow |-> r.overflow]
  BY <1>1
<1>6. apdu_rsp_put(r, src, RSP_MAX) \in
        {r, [r EXCEPT !.overflow = TRUE], [r EXCEPT !.data = Cat(@, src)]}
  BY DEF apdu_rsp_put, Cat
<1> QED
  BY <1>1, <1>2, <1>3, <1>4, <1>5, <1>6

\* A put more: the response holds all the puts or has overflowed.
LEMMA PutHolds ==
  ASSUME NEW X, NEW u \in Seq(X), NEW r, Holds(r, u, X), NEW src \in Seq(X)
  PROVE  Holds(apdu_rsp_put(r, src, RSP_MAX), Cat(u, src), X)
<1> DEFINE p == apdu_rsp_put(r, src, RSP_MAX)
           w == Cat(u, src)
<1>1. p \in Rsp(X) /\ r \in Rsp(X)
  BY PutType DEF Holds
<1>2. w \in Seq(X) /\ Len(w) = Len(u) + Len(src) /\ Len(u) \in Nat /\ Len(src) \in Nat
      /\ (src = <<>> <=> Len(src) = 0)
  BY DEF Cat
<1>3. p = IF src = <<>> THEN r
          ELSE IF Len(r.data) + Len(src) > Room THEN [r EXCEPT !.overflow = TRUE]
          ELSE [r EXCEPT !.data = Cat(@, src)]
  BY DEF apdu_rsp_put, Cat, Room
<1>4. src = <<>> => w = u
  BY DEF Cat
<1> HIDE DEF p, w
<1>5. CASE Len(u) > Room
  <2>1. r.overflow = TRUE
    BY <1>5 DEF Holds
  <2>2. p.overflow = TRUE
    BY <1>1, <1>3, <2>1 DEF Rsp
  <2> QED
    BY <1>1, <1>2, <1>5, <2>2, RoomIs DEF Holds, p, w
<1>6. CASE Len(u) <= Room
  <2>1. r = [data |-> u, overflow |-> FALSE]
    BY <1>6 DEF Holds
  <2>2. r.data = u
    BY <2>1
  <2>3. CASE src = <<>>
    BY <1>3, <1>4, <2>3 DEF Holds, p, w
  <2>4. CASE src # <<>> /\ Len(u) + Len(src) > Room
    <3>1. p.overflow = TRUE
      BY <1>1, <1>3, <2>2, <2>4 DEF Rsp
    <3> QED
      BY <1>1, <1>2, <2>4, <3>1, RoomIs DEF Holds, p, w
  <2>5. CASE src # <<>> /\ ~(Len(u) + Len(src) > Room)
    <3>1. p = [r EXCEPT !.data = Cat(@, src)]
      BY <1>3, <2>2, <2>5
    <3>2. p = [data |-> w, overflow |-> FALSE]
      BY <2>1, <3>1 DEF w
    <3> QED
      BY <1>1, <1>2, <2>5, <3>2, RoomIs DEF Holds, p, w
  <2> QED
    BY <2>3, <2>4, <2>5
<1>7. Len(u) > Room \/ Len(u) <= Room
  BY <1>2, RoomIs
<1> QED
  BY <1>5, <1>6, <1>7

\* All that a handler puts, if it fits.
LEMMA RspAfter ==
  ASSUME NEW X, NEW puts \in Seq(Seq(X))
  PROVE  FlattenSeq(puts) \in Seq(X) /\ Holds(rsp_after(puts), FlattenSeq(puts), X)
<1> DEFINE N == Len(puts)
           T == Rsp(X)
           Put(v, i) == apdu_rsp_put(v, puts[i], RSP_MAX)
           F == [n \in Nat |-> [v \in T |-> IF n < N THEN Put(v, n + 1) ELSE v]]
           G(g) == g = [i \in 0 .. N |-> IF i = 0 THEN apdu_rsp_init ELSE Put(g[i - 1], i)]
<1>1. N \in Nat
  OBVIOUS
<1>2. \A i \in 1 .. N : puts[i] \in Seq(X)
  OBVIOUS
<1>3. apdu_rsp_init \in T
  <2>1. <<>> \in Seq(X)
    OBVIOUS
  <2> QED
    BY <2>1 DEF apdu_rsp_init, Rsp
<1>4. \A v \in T, i \in 1 .. N : Put(v, i) \in T
  BY <1>2, PutType
<1>5. F \in Updates(T)
  <2>1. ASSUME NEW n \in Nat, NEW v \in T PROVE (IF n < N THEN Put(v, n + 1) ELSE v) \in T
    <3>1. CASE n < N
      <4>1. n + 1 \in 1 .. N
        BY <1>1, <3>1
      <4> HIDE DEF Put
      <4> QED
        BY <1>4, <3>1, <4>1
    <3> QED
      BY <3>1
  <2> HIDE DEF T, Put
  <2> QED
    BY <2>1 DEF Updates
<1>6. PICK f : Iterates(f, T, apdu_rsp_init, F)
  <2> HIDE DEF F, T
  <2> QED
    BY <1>3, <1>5, Recursion
<1>7. f \in [Nat -> T] /\ f[0] = apdu_rsp_init
  BY <1>6 DEF Iterates
<1>8. ASSUME NEW i \in 1 .. N PROVE f[i] = Put(f[i - 1], i)
  <2>1. i - 1 \in Nat /\ (i - 1) + 1 = i /\ i - 1 < N
    BY <1>1
  <2>2. f[(i - 1) + 1] = F[i - 1][f[i - 1]]
    BY <1>6, <2>1 DEF Iterates
  <2>3. f[i - 1] \in T
    BY <1>7, <2>1
  <2> HIDE DEF T, Put
  <2>4. F[i - 1][f[i - 1]] = Put(f[i - 1], (i - 1) + 1)
    BY <2>1, <2>3
  <2> QED
    BY <2>1, <2>2, <2>4
<1> DEFINE h == [i \in 0 .. N |-> f[i]]
           hh == [i \in 0 .. N |-> IF i = 0 THEN apdu_rsp_init ELSE Put(h[i - 1], i)]
<1>9. ASSUME NEW i \in 0 .. N PROVE h[i] = hh[i]
  <2>1. CASE i = 0
    BY <1>7, <2>1
  <2>2. CASE i # 0
    <3>1. i \in 1 .. N /\ i - 1 \in 0 .. N
      BY <1>1, <2>2
    <3>2. h[i - 1] = f[i - 1] /\ h[i] = f[i]
      BY <3>1
    <3>3. hh[i] = Put(h[i - 1], i)
      <4> HIDE DEF h, Put
      <4> QED
        BY <2>2
    <3> HIDE DEF h, hh, Put
    <3> QED
      BY <1>8, <3>1, <3>2, <3>3
  <2> QED
    BY <2>1, <2>2
<1>10. h = hh
  <2>1. h = [i \in 0 .. N |-> h[i]] /\ hh = [i \in 0 .. N |-> hh[i]]
    OBVIOUS
  <2> HIDE DEF h, hh
  <2> QED
    BY <1>9, <2>1
<1>11. G(h)
  BY <1>10
<1> DEFINE g == CHOOSE x : G(x)
<1>12. G(g)
  <2> HIDE DEF h, G
  <2> QED
    BY <1>11
<1>13. rsp_after(puts) = g[N]
  BY DEF rsp_after
<1> HIDE DEF g
<1>14. ASSUME NEW i \in 0 .. N
       PROVE  g[i] = IF i = 0 THEN apdu_rsp_init ELSE Put(g[i - 1], i)
  <2> HIDE DEF Put
  <2> QED
    BY <1>12
<1>15. /\ \A k \in 0 .. N : UpTo(puts, k) \in Seq(X)
       /\ UpTo(puts, 0) = <<>>
       /\ \A k \in 1 .. N : UpTo(puts, k) = Cat(UpTo(puts, k - 1), puts[k])
       /\ UpTo(puts, N) = FlattenSeq(puts)
  BY UpToFacts
<1> DEFINE U == {n \in Nat : n <= N => Holds(g[n], UpTo(puts, n), X)}
<1>16. 0 \in U
  <2>1. g[0] = apdu_rsp_init
    BY <1>1, <1>14
  <2>2. Len(<<>>) = 0 /\ 0 <= Room /\ ~(0 > Room)
    BY RoomIs
  <2>3. Holds(apdu_rsp_init, <<>>, X)
    BY <1>3, <2>2 DEF Holds, apdu_rsp_init
  <2> QED
    BY <1>15, <2>1, <2>3
<1>17. ASSUME NEW n \in Nat, n \in U PROVE n + 1 \in U
  <2> SUFFICES ASSUME n + 1 <= N PROVE Holds(g[n + 1], UpTo(puts, n + 1), X)
    OBVIOUS
  <2>1. n + 1 \in 1 .. N /\ n + 1 \in 0 .. N /\ n \in 0 .. N /\ (n + 1) - 1 = n /\ n + 1 # 0
        /\ n <= N
    BY <1>1
  <2>2. Holds(g[n], UpTo(puts, n), X)
    BY <1>17, <2>1
  <2>3. g[n + 1] = Put(g[n], n + 1)
    BY <1>14, <2>1
  <2>4. UpTo(puts, n + 1) = Cat(UpTo(puts, n), puts[n + 1])
    BY <1>15, <2>1
  <2>5. UpTo(puts, n) \in Seq(X) /\ puts[n + 1] \in Seq(X)
    BY <1>2, <1>15, <2>1
  <2>6. Holds(Put(g[n], n + 1), Cat(UpTo(puts, n), puts[n + 1]), X)
    BY <2>2, <2>5, PutHolds
  <2> QED
    BY <2>3, <2>4, <2>6
<1>18. N \in U
  <2> HIDE DEF U
  <2> QED
    BY <1>1, <1>16, <1>17, Induction
<1>19. N <= N /\ N \in 0 .. N
  BY <1>1
<1> QED
  BY <1>13, <1>15, <1>18, <1>19

\* Bytes. The bounds stay hidden from the provers.
Octet == 0 .. 255

\* The reader decodes a line that the card sends to the bytes it was made of, and
\* takes none for a complaint.
LEMMA HexLineDecodes ==
  ASSUME NEW b \in Seq(Octet)
  PROVE  Heard(hex_line(b)) = Bytes(b)
<1> DEFINE q == [i \in 1 .. Len(b) |-> put_hex_byte(b[i])]
           L == hex_line(b)
           n == Len(b)
<1>1. n \in Nat /\ \A i \in 1 .. n : b[i] \in Octet
  OBVIOUS
<1>0. \A x \in Octet : /\ x \div 16 \in 0 .. 15 /\ x % 16 \in 0 .. 15
                       /\ 16 * (x \div 16) + (x % 16) = x
  BY SMT DEF Octet
<1>2. \A v \in 0 .. 15 : /\ Digits[v + 1] \in HexDigit /\ Value(Digits[v + 1]) = v
  <2> SUFFICES ASSUME NEW v \in 0 .. 15
               PROVE  Digits[v + 1] \in HexDigit /\ Value(Digits[v + 1]) = v
    OBVIOUS
  <2>1. Digits[v + 1] \in Range(Digits)
    <3>1. v + 1 \in 1 .. 16 /\ Len(Digits) = 16
      BY DEF Digits
    <3> QED
      BY <3>1 DEF Range
  <2>2. hex_nibble(Digits[v + 1]) = v
    BY <2>1, DigitsDiffer DEF hex_nibble
  <2>3. Digits[v + 1] \in HexDigit
    BY <2>1 DEF HexDigit
  <2> QED
    BY <2>2, <2>3, NibbleIs
<1>3. \A i \in 1 .. n : /\ q[i] = <<Digits[(b[i] \div 16) + 1], Digits[(b[i] % 16) + 1]>>
                        /\ q[i] \in Seq(HexDigit) /\ Len(q[i]) = 2
  <2> SUFFICES ASSUME NEW i \in 1 .. n
               PROVE  /\ q[i] = <<Digits[(b[i] \div 16) + 1], Digits[(b[i] % 16) + 1]>>
                      /\ q[i] \in Seq(HexDigit) /\ Len(q[i]) = 2
    OBVIOUS
  <2>1. q[i] = <<Digits[(b[i] \div 16) + 1], Digits[(b[i] % 16) + 1]>>
    BY DEF put_hex_byte
  <2>2. b[i] \div 16 \in 0 .. 15 /\ b[i] % 16 \in 0 .. 15
    BY <1>0, <1>1
  <2>3. \A x, y \in HexDigit : <<x, y>> \in Seq(HexDigit) /\ Len(<<x, y>>) = 2
    OBVIOUS
  <2> QED
    BY <1>2, <2>1, <2>2, <2>3
<1>4. q \in Seq(Seq(HexDigit)) /\ Len(q) = n
  <2>1. \A i \in 1 .. n : q[i] \in Seq(HexDigit)
    BY <1>3
  <2>2. q = [i \in 1 .. n |-> q[i]]
    OBVIOUS
  <2> HIDE DEF q
  <2> QED
    BY <1>1, <2>1, <2>2
<1>5. L = FlattenSeq(q)
  BY DEF hex_line
<1> HIDE DEF q, L
<1> DEFINE U == {k \in Nat : k <= n => UpTo(q, k) \in Seq(HexDigit) /\ Len(UpTo(q, k)) = 2 * k}
<1>6. 0 \in U
  <2>1. UpTo(q, 0) = <<>>
    BY <1>4, UpToFacts
  <2>2. <<>> \in Seq(HexDigit) /\ Len(<<>>) = 2 * 0
    OBVIOUS
  <2> QED
    BY <2>1, <2>2
<1>7. ASSUME NEW k \in Nat, k \in U PROVE k + 1 \in U
  <2> SUFFICES ASSUME k + 1 <= n
               PROVE  UpTo(q, k + 1) \in Seq(HexDigit) /\ Len(UpTo(q, k + 1)) = 2 * (k + 1)
    OBVIOUS
  <2>1. k + 1 \in 1 .. n /\ (k + 1) - 1 = k /\ k <= n
    BY <1>1
  <2>2. UpTo(q, k + 1) \in Seq(HexDigit)
        /\ Len(UpTo(q, k + 1)) = Len(UpTo(q, (k + 1) - 1)) + Len(q[k + 1])
    BY <1>4, <2>1, FlattenAt
  <2>3. Len(UpTo(q, k)) = 2 * k /\ Len(q[k + 1]) = 2
    BY <1>3, <1>7, <2>1
  <2> QED
    BY <2>1, <2>2, <2>3
<1>8. \A k \in 0 .. n : UpTo(q, k) \in Seq(HexDigit) /\ Len(UpTo(q, k)) = 2 * k
  <2>1. Nat \subseteq U
    <3> HIDE DEF U
    <3> QED
      BY <1>6, <1>7, Induction
  <2>2. \A k \in 0 .. n : k \in Nat /\ k <= n
    BY <1>1
  <2> QED
    BY <2>1, <2>2
<1>9. L \in Seq(HexDigit) /\ Len(L) = 2 * n
  <2>1. UpTo(q, n) = FlattenSeq(q) /\ n \in 0 .. n
    BY <1>1, <1>4, UpToFacts
  <2> QED
    BY <1>5, <1>8, <2>1
<1>10. ASSUME NEW k \in 1 .. n
       PROVE  16 * Value(L[2 * k - 1]) + Value(L[2 * k]) = b[k]
  <2>1. \A j \in 1 .. Len(q[k]) : L[Len(UpTo(q, k - 1)) + j] = q[k][j]
    <3>1. k \in 1 .. Len(q)
      BY <1>4
    <3>2. \A j \in 1 .. Len(q[k]) : FlattenSeq(q)[Len(UpTo(q, k - 1)) + j] = q[k][j]
      BY <1>4, <3>1, FlattenAt
    <3> QED
      BY <1>5, <3>2
  <2>2. k - 1 \in 0 .. n
    BY <1>1
  <2>3. Len(UpTo(q, k - 1)) = 2 * (k - 1) /\ Len(q[k]) = 2
    BY <1>3, <1>8, <2>2
  <2>4. 1 \in 1 .. 2 /\ 2 \in 1 .. 2 /\ 2 * (k - 1) + 1 = 2 * k - 1 /\ 2 * (k - 1) + 2 = 2 * k
    BY <1>1
  <2>5. L[2 * k - 1] = q[k][1] /\ L[2 * k] = q[k][2]
    BY <2>1, <2>3, <2>4
  <2>6. q[k][1] = Digits[(b[k] \div 16) + 1] /\ q[k][2] = Digits[(b[k] % 16) + 1]
    BY <1>3
  <2>7. b[k] \div 16 \in 0 .. 15 /\ b[k] % 16 \in 0 .. 15 /\ 16 * (b[k] \div 16) + (b[k] % 16) = b[k]
    BY <1>0, <1>1
  <2>8. Value(L[2 * k - 1]) = b[k] \div 16 /\ Value(L[2 * k]) = b[k] % 16
    BY <1>2, <2>5, <2>6, <2>7
  <2> QED
    BY <2>7, <2>8
<1>11. BytesOf(L) = b
  <2>1. Len(L) \div 2 = n
    BY <1>1, <1>9
  <2>2. BytesOf(L) = [k \in 1 .. n |-> 16 * Value(L[2 * k - 1]) + Value(L[2 * k])]
    BY <2>1 DEF BytesOf
  <2>3. b = [k \in 1 .. n |-> b[k]]
    OBVIOUS
  <2> HIDE DEF n
  <2> QED
    BY <1>10, <2>2, <2>3
<1>12. L # Complaint
  <2>1. Len(Complaint) = 1
    BY DEF Complaint
  <2>2. Len(L) # 1
    BY <1>1, <1>9
  <2> QED
    BY <2>1, <2>2
<1> QED
  BY <1>11, <1>12 DEF Heard, L

\* Status words.
Word == {w \in Nat : w < 65536}
AllWords == {SW_WRONG_LENGTH, SW_FUNC_NOT_SUPPORTED, SW_INS_NOT_SUPPORTED,
             SW_NO_PRECISE_DIAGNOSIS, SW_LOGICAL_CHANNEL_NOT_SUPPORTED,
             SW_SECURE_MESSAGING_NOT_SUPPORTED, SW_CHAINING_NOT_SUPPORTED, SW_CLA_NOT_SUPPORTED}

\* No status word of scos_process is SW_OK, and all are words.
LEMMA WordsDiffer == SW_OK \notin AllWords /\ AllWords \subseteq Word /\ SW_OK \in Word
BY SMT DEF AllWords, Word, SW_OK, SW_WRONG_LENGTH, SW_FUNC_NOT_SUPPORTED, SW_INS_NOT_SUPPORTED,
           SW_NO_PRECISE_DIAGNOSIS, SW_LOGICAL_CHANNEL_NOT_SUPPORTED,
           SW_SECURE_MESSAGING_NOT_SUPPORTED, SW_CHAINING_NOT_SUPPORTED, SW_CLA_NOT_SUPPORTED

\* What a word is.
LEMMA WordRange == \A w \in Word : w \in Int /\ w >= 0 /\ w < 65536
BY SMT DEF Word

\* The status word as two bytes.
Status(w) == <<w \div 256, w % 256>>

\* A status word is sent as two bytes.
LEMMA StatusBytes ==
  ASSUME NEW w \in Word
  PROVE  Status(w) \in Seq(Octet)
<1>1. w \div 256 \in Octet /\ w % 256 \in Octet
  <2>1. w \in Int /\ w >= 0 /\ w < 65536
    BY WordRange
  <2>2. w \div 256 >= 0 /\ w \div 256 <= 255 /\ w \div 256 \in Int
    BY <2>1, SMT
  <2>3. w % 256 >= 0 /\ w % 256 <= 255 /\ w % 256 \in Int
    BY <2>1, SMT
  <2> QED
    BY <2>2, <2>3, SMT DEF Octet
<1>2. \A x, y \in Octet : <<x, y>> \in Seq(Octet)
  OBVIOUS
<1> QED
  BY <1>1, <1>2 DEF Status

\* The response is the reply that the command is due.
LEMMA ReplyIs ==
  cmd \in Seq(Octet) /\ answer.puts \in Seq(Seq(Octet)) /\ answer.sw \in Word =>
    response = Reply(answer, cmd) /\ response \in Seq(Octet)
\* apdu_parse accepts what is well formed.
<1>ParseIs.
    ASSUME NEW b \in Seq(Octet)
    PROVE  LET sw == apdu_parse_status_sw(apdu_parse(b).st)
           IN /\ WellFormed(b) => sw = SW_OK
              /\ ~WellFormed(b) => sw = IF Len(b) > 5 /\ b[5] = 0 THEN SW_FUNC_NOT_SUPPORTED
                                       ELSE SW_WRONG_LENGTH
  <2> DEFINE n == Len(b)
             st == apdu_parse(b).st
             p3 == b[5]
  <2>1. n \in Nat
    OBVIOUS
  <2>2. n > 4 => p3 \in Nat
    <3>1. n > 4 => b[5] \in Octet
      BY <2>1
    <3>2. \A x \in Octet : x \in Nat
      BY SMT DEF Octet
    <3> QED
      BY <3>1, <3>2
  <2>3. /\ apdu_parse_status_sw("OK") = SW_OK
        /\ apdu_parse_status_sw("EXTENDED") = SW_FUNC_NOT_SUPPORTED
        /\ apdu_parse_status_sw("TOO_SHORT") = SW_WRONG_LENGTH
        /\ apdu_parse_status_sw("BAD_LENGTH") = SW_WRONG_LENGTH
    BY DEF apdu_parse_status_sw
  <2>4. st = IF n < 4 THEN "TOO_SHORT"
             ELSE IF n = 4 THEN "OK"
             ELSE IF n = 4 + 1 THEN "OK"
             ELSE IF p3 = 0 THEN "EXTENDED"
             ELSE IF n = 4 + 1 + p3 THEN "OK"
             ELSE IF n = 4 + 1 + p3 + 1 THEN "OK"
             ELSE "BAD_LENGTH"
    BY DEF apdu_parse, Refused, Parsed, APDU_HEADER_LEN
  <2>5. WellFormed(b) <=> n \in {4, 5} \/ (n > 5 /\ p3 > 0 /\ n - p3 \in {5, 6})
    BY DEF WellFormed
  <2> HIDE DEF st, n, p3
  <2>6. CASE n < 4
    <3>1. st = "TOO_SHORT" /\ ~WellFormed(b) /\ ~(n > 5)
      BY <2>1, <2>4, <2>5, <2>6
    <3> QED
      BY <2>3, <3>1 DEF st, n, p3
  <2>7. CASE n = 4 \/ n = 5
    <3>1. st = "OK" /\ WellFormed(b)
      BY <2>1, <2>4, <2>5, <2>7
    <3> QED
      BY <2>3, <3>1 DEF st, n, p3
  <2>8. CASE n > 5 /\ p3 = 0
    <3>1. st = "EXTENDED" /\ ~WellFormed(b)
      BY <2>1, <2>2, <2>4, <2>5, <2>8
    <3> QED
      BY <2>3, <2>8, <3>1 DEF st, n, p3
  <2>9. CASE n > 5 /\ p3 # 0 /\ (n = 5 + p3 \/ n = 6 + p3)
    <3>1. st = "OK" /\ WellFormed(b)
      BY <2>1, <2>2, <2>4, <2>5, <2>9
    <3> QED
      BY <2>3, <3>1 DEF st, n, p3
  <2>10. CASE n > 5 /\ p3 # 0 /\ ~(n = 5 + p3 \/ n = 6 + p3)
    <3>1. st = "BAD_LENGTH" /\ ~WellFormed(b)
      BY <2>1, <2>2, <2>4, <2>5, <2>10
    <3> QED
      BY <2>3, <2>10, <3>1 DEF st, n, p3
  <2> QED
    BY <2>1, <2>6, <2>7, <2>8, <2>9, <2>10
\* scos_process refuses what Reply refuses, with the same status word.
<1>ProcessIs.
    ASSUME NEW b \in Seq(Octet)
    PROVE  LET good == WellFormed(b) /\ b[1] = 0 /\ b[2] \in k_commands
           IN /\ good <=> process_sw(b) = SW_OK
              /\ process_sw(b) \in Word
              /\ ~good => process_sw(b) =
                   IF ~WellFormed(b)
                   THEN IF Len(b) > 5 /\ b[5] = 0 THEN SW_FUNC_NOT_SUPPORTED ELSE SW_WRONG_LENGTH
                   ELSE IF b[1] # 0 THEN apdu_check_cla(b[1])
                   ELSE SW_INS_NOT_SUPPORTED
  <2> DEFINE sw == apdu_parse_status_sw(apdu_parse(b).st)
             cla == apdu_check_cla(b[1])
  <2>1. process_sw(b) = IF sw # SW_OK THEN sw ELSE IF cla # SW_OK THEN cla
                        ELSE IF b[2] \notin k_commands THEN SW_INS_NOT_SUPPORTED ELSE SW_OK
    BY DEF process_sw
  <2>2. /\ WellFormed(b) => sw = SW_OK
        /\ ~WellFormed(b) => sw = IF Len(b) > 5 /\ b[5] = 0 THEN SW_FUNC_NOT_SUPPORTED
                                 ELSE SW_WRONG_LENGTH
    BY <1>ParseIs
  <2>3. ~WellFormed(b) => sw \in AllWords
    BY <2>2 DEF AllWords
  <2> HIDE DEF sw
  <2>4. WellFormed(b) => b[1] \in Octet
    <3>1. Len(b) \in Nat
      OBVIOUS
    <3>2. WellFormed(b) => 1 \in 1 .. Len(b)
      <4>1. WellFormed(b) => Len(b) = 4 \/ Len(b) = 5 \/ Len(b) > 5
        BY DEF WellFormed
      <4>2. \A n \in Nat : n = 4 \/ n = 5 \/ n > 5 => 1 \in 1 .. n
        OBVIOUS
      <4> QED
        BY <3>1, <4>1, <4>2, Zenon
    <3> QED
      BY <3>2
  <2>5. b[1] \in Octet => (cla = SW_OK <=> b[1] = 0) /\ (b[1] # 0 => cla \in AllWords)
    <3>1. \A x \in Octet : x \in Nat
      BY SMT DEF Octet
    <3>2. ASSUME b[1] \in Octet, b[1] = 0 PROVE cla = SW_OK
      BY <3>2 DEF apdu_check_cla
    <3>3. ASSUME b[1] \in Octet, b[1] # 0 PROVE cla \in AllWords
      BY <3>1, <3>3 DEF apdu_check_cla, AllWords
    <3> QED
      BY <3>2, <3>3, WordsDiffer
  <2> HIDE DEF cla
  <2>6. SW_INS_NOT_SUPPORTED \in AllWords
    BY DEF AllWords
  <2> QED
    BY <2>1, <2>2, <2>3, <2>4, <2>5, <2>6, WordsDiffer DEF cla
<1> SUFFICES ASSUME cmd \in Seq(Octet), answer.puts \in Seq(Seq(Octet)), answer.sw \in Word
             PROVE  response = Reply(answer, cmd) /\ response \in Seq(Octet)
  OBVIOUS
<1> DEFINE data == FlattenSeq(answer.puts)
           r == rsp_after(answer.puts)
           good == WellFormed(cmd) /\ cmd[1] = 0 /\ cmd[2] \in k_commands
           sw == process_sw(cmd)
<1>1. data \in Seq(Octet) /\ Holds(r, data, Octet)
  BY RspAfter
<1>2. /\ good <=> sw = SW_OK
      /\ sw \in Word
      /\ ~good => sw = IF ~WellFormed(cmd)
                       THEN IF Len(cmd) > 5 /\ cmd[5] = 0 THEN SW_FUNC_NOT_SUPPORTED
                            ELSE SW_WRONG_LENGTH
                       ELSE IF cmd[1] # 0 THEN apdu_check_cla(cmd[1])
                       ELSE SW_INS_NOT_SUPPORTED
  BY <1>ProcessIs
<1>3. response = IF sw = SW_OK THEN apdu_rsp_finish(r, answer.sw)
                 ELSE apdu_rsp_finish(apdu_rsp_init, sw)
  BY DEF response
<1>4. \A x : apdu_rsp_finish(apdu_rsp_init, x) = Cat(<<>>, Status(x))
  BY DEF apdu_rsp_finish, apdu_rsp_init, Cat, Status
<1>5. r.overflow = TRUE => apdu_rsp_finish(r, answer.sw) = Cat(<<>>, Status(SW_NO_PRECISE_DIAGNOSIS))
  BY DEF apdu_rsp_finish, Cat, Status
<1>6. r = [data |-> data, overflow |-> FALSE] =>
        apdu_rsp_finish(r, answer.sw) = Cat(data, Status(answer.sw))
  <2> HIDE DEF r, data
  <2> QED
    BY DEF apdu_rsp_finish, Cat, Status
<1>7. Reply(answer, cmd) =
        LET w == IF ~WellFormed(cmd)
                 THEN IF Len(cmd) > 5 /\ cmd[5] = 0 THEN SW_FUNC_NOT_SUPPORTED
                      ELSE SW_WRONG_LENGTH
                 ELSE IF cmd[1] # 0 THEN apdu_check_cla(cmd[1])
                 ELSE IF cmd[2] \notin k_commands THEN SW_INS_NOT_SUPPORTED
                 ELSE IF Len(data) + 2 > RSP_MAX THEN SW_NO_PRECISE_DIAGNOSIS
                 ELSE answer.sw
        IN Cat(IF good /\ Len(data) + 2 <= RSP_MAX THEN data ELSE <<>>, Status(w))
  BY DEF Reply, Cat, Status
<1>8. \A w \in Word : /\ Cat(<<>>, Status(w)) \in Seq(Octet)
                      /\ Cat(data, Status(w)) \in Seq(Octet)
  BY <1>1, StatusBytes DEF Cat
<1>9. /\ SW_NO_PRECISE_DIAGNOSIS \in Word
      /\ Len(data) \in Nat
      /\ Len(data) + 2 > RSP_MAX <=> Len(data) > Room
      /\ Len(data) + 2 <= RSP_MAX <=> Len(data) <= Room
  BY <1>1, WordsDiffer, RoomIs DEF AllWords
<1>10. Len(data) > Room \/ Len(data) <= Room
  BY <1>9, RoomIs
<1>11. ~(Len(data) > Room /\ Len(data) <= Room)
  BY <1>9, RoomIs
<1> HIDE DEF data, r, sw
<1>12. CASE ~good
  BY <1>2, <1>3, <1>4, <1>7, <1>8, <1>12
<1>13. CASE good /\ Len(data) > Room
  <2>1. r.overflow = TRUE
    BY <1>1, <1>13 DEF Holds
  <2> QED
    BY <1>2, <1>3, <1>5, <1>7, <1>8, <1>9, <1>11, <1>13, <2>1
<1>14. CASE good /\ Len(data) <= Room
  <2>1. r = [data |-> data, overflow |-> FALSE]
    BY <1>1, <1>14 DEF Holds
  <2> QED
    BY <1>2, <1>3, <1>6, <1>7, <1>8, <1>9, <1>11, <1>14, <2>1
<1> QED
  BY <1>10, <1>12, <1>13, <1>14

\* What trim leaves off is white space, and what it leaves ends in none.
Trims(s, t) ==
  /\ t \in Seq(Char) /\ Len(t) \in 0 .. Len(s) /\ t = SubSeq(s, 1, Len(t))
  /\ \A i \in 1 .. Len(t) : t[i] = s[i]
  /\ \A i \in Len(t) + 1 .. Len(s) : s[i] \in Space
  /\ t # <<>> => t[Len(t)] \notin Space

\* What trim returns: the line up to its last character that is no white space.
LEMMA TrimIs ==
  ASSUME NEW s \in Seq(Char)
  PROVE  Trims(s, trim(s))
<1> DEFINE kept == {i \in 1 .. Len(s) : s[i] \notin Space}
           m == IF kept = {} THEN 0 ELSE CHOOSE i \in kept : \A j \in kept : j <= i
<1>1. trim(s) = SubSeq(s, 1, m)
  BY DEF trim
<1>2. kept \in SUBSET (1 .. Len(s)) /\ Len(s) \in Nat
      /\ \A i \in 1 .. Len(s) : i \notin kept => s[i] \in Space
  OBVIOUS
<1>a. \A i \in kept : s[i] \notin Space
  OBVIOUS
<1> HIDE DEF kept
<1>3. kept # {} => \E i \in kept : \A j \in kept : j <= i
  BY <1>2, Greatest
<1>4. m \in 0 .. Len(s) /\ (m # 0 => m \in kept) /\ \A j \in kept : j <= m
  <2>1. CASE kept = {}
    BY <1>2, <2>1
  <2>2. CASE kept # {}
    <3>1. m \in kept /\ \A j \in kept : j <= m
      BY <1>3, <2>2
    <3>2. \A i \in 1 .. Len(s) : i \in 0 .. Len(s)
      OBVIOUS
    <3> HIDE DEF m
    <3> QED
      BY <1>2, <3>1, <3>2
  <2> QED
    BY <2>1, <2>2
<1> HIDE DEF m
<1>5. trim(s) \in Seq(Char) /\ Len(trim(s)) = m /\ \A i \in 1 .. m : trim(s)[i] = s[i]
  BY <1>1, <1>2, <1>4
<1>6. \A i \in m + 1 .. Len(s) : s[i] \in Space
  <2> SUFFICES ASSUME NEW i \in m + 1 .. Len(s) PROVE s[i] \in Space
    OBVIOUS
  <2>1. i \in 1 .. Len(s) /\ ~(i <= m)
    BY <1>2, <1>4
  <2> QED
    BY <1>2, <1>4, <2>1
<1>7. trim(s) # <<>> => m # 0 /\ m \in 1 .. m
  <2>1. trim(s) # <<>> => m # 0
    BY <1>5
  <2> QED
    BY <2>1, <1>2, <1>4
<1>8. trim(s) # <<>> => trim(s)[m] \notin Space
  BY <1>4, <1>5, <1>7, <1>a
<1> QED
  BY <1>1, <1>4, <1>5, <1>6, <1>8 DEF Trims

\* So there are no digits in what it leaves off.
LEMMA DigitsTrim ==
  ASSUME NEW s \in Seq(Char)
  PROVE  DigitsOf(trim(s)) = DigitsOf(s)
<1> DEFINE m == Len(trim(s))
           U == {n \in Nat : m + n <= Len(s) => DigitsOf(SubSeq(s, 1, m + n)) = DigitsOf(SubSeq(s, 1, m))}
<1>1. Len(s) \in Nat /\ m \in Nat /\ m <= Len(s) /\ trim(s) = SubSeq(s, 1, m)
      /\ \A i \in m + 1 .. Len(s) : s[i] \in Space
  BY TrimIs DEF Trims
<1> HIDE DEF m
<1>2. 0 \in U
  BY <1>1
<1>3. ASSUME NEW n \in Nat, n \in U PROVE n + 1 \in U
  <2> SUFFICES ASSUME m + (n + 1) <= Len(s)
               PROVE  DigitsOf(SubSeq(s, 1, m + (n + 1))) = DigitsOf(SubSeq(s, 1, m))
    OBVIOUS
  <2> DEFINE k == m + (n + 1)
  <2>1. k \in 1 .. Len(s) /\ k \in m + 1 .. Len(s) /\ k - 1 = m + n /\ m + n <= Len(s)
    BY <1>1
  <2> HIDE DEF k
  <2>2. s[k] \in Space \cup {":"}
    BY <1>1, <2>1
  <2>3. DigitsOf(SubSeq(s, 1, k)) = DigitsOf(SubSeq(s, 1, k - 1))
    BY <2>1, <2>2, DigitsNext
  <2> QED
    BY <1>3, <2>1, <2>3 DEF k
<1>4. Len(s) - m \in Nat /\ m + (Len(s) - m) = Len(s) /\ Len(s) <= Len(s)
  BY <1>1
<1>5. Len(s) - m \in U
  <2> HIDE DEF U
  <2> QED
    BY <1>2, <1>3, <1>4, Induction
<1>6. SubSeq(s, 1, Len(s)) = s
  OBVIOUS
<1> QED
  BY <1>1, <1>4, <1>5, <1>6

\* A frame that is a command.
GoodFrame(D) == AllHex(D) /\ Len(D) % 2 = 0 /\ Len(D) <= 2 * CMD_MAX

\* What the decoder holds when the line has ended tells what the frame is.
LEMMA DecodedMeans ==
  ASSUME NEW d \in Dec, NEW D \in Seq(Char), Decoded(d, D)
  PROVE  /\ d = NoDigits <=> D = <<>>
         /\ d.bad \/ d.hi >= 0 <=> ~GoodFrame(D)
         /\ GoodFrame(D) => d.buf = BytesOf(D)
<1> DEFINE n == Len(D)
           h == IF n % 2 = 1 THEN Value(D[n]) ELSE -1
<1>1. n \in Nat /\ (D = <<>> <=> n = 0)
  OBVIOUS
<1>2. d \in [buf : Seq(0 .. 255), hi : -1 .. 15, bad : BOOLEAN]
  BY Zenon DEF Dec
<1>3. CMD_MAX \in Nat /\ CMD_MAX > 0
  BY Sizes
<1>4. CASE ~(AllHex(D) /\ n <= 2 * CMD_MAX + 1)
  <2>1. d.bad = TRUE
    BY <1>2, <1>4 DEF Decoded
  <2>2. ~GoodFrame(D)
    BY <1>1, <1>3, <1>4 DEF GoodFrame
  <2>3. d # NoDigits
    BY <2>1 DEF NoDigits
  <2>4. D # <<>>
    <3>1. AllHex(<<>>) /\ Len(<<>>) = 0 /\ 0 <= 2 * CMD_MAX + 1
      BY <1>3 DEF AllHex
    <3> QED
      BY <1>4, <3>1
  <2> QED
    BY <2>1, <2>2, <2>3, <2>4
<1>5. CASE AllHex(D) /\ n <= 2 * CMD_MAX + 1
  <2>1. d = [buf |-> BytesOf(D), hi |-> h, bad |-> FALSE]
    BY <1>5 DEF Decoded
  <2>2. n % 2 = 1 => h \in 0 .. 15
    <3>1. n % 2 = 1 => n \in 1 .. n
      BY <1>1
    <3> QED
      BY <3>1, <1>5, NibbleIs DEF AllHex
  <2>3. n % 2 # 1 => h = -1
    OBVIOUS
  <2> HIDE DEF h
  <2>4. d.buf = BytesOf(D) /\ d.hi = h /\ d.bad = FALSE
    BY <2>1
  <2>5. h >= 0 <=> n % 2 = 1
    BY <2>2, <2>3
  <2>6. GoodFrame(D) <=> n % 2 # 1
    BY <1>1, <1>3, <1>5 DEF GoodFrame
  <2>7. D = <<>> => d = NoDigits
    <3>1. D = <<>> => n % 2 # 1
      BY <1>1
    <3>2. BytesOf(<<>>) = <<>>
      BY DEF BytesOf
    <3> QED
      BY <2>1, <2>3, <3>1, <3>2 DEF NoDigits
  <2>8. d = NoDigits => D = <<>>
    <3> SUFFICES ASSUME d = NoDigits PROVE n = 0
      BY <1>1
    <3>1. h = -1 /\ BytesOf(D) = <<>>
      BY <2>4 DEF NoDigits
    <3>2. n % 2 # 1
      BY <2>2, <3>1
    <3>3. Len(BytesOf(D)) = n \div 2
      BY <1>1 DEF BytesOf
    <3>4. n \div 2 = 0
      BY <3>1, <3>3
    <3> QED
      BY <1>1, <3>2, <3>4
  <2> QED
    BY <2>4, <2>5, <2>6, <2>7, <2>8
<1> QED
  BY <1>4, <1>5

\* What a line says to the reader at once.
Says(p, m) ==
  IF m.does \in {"atr", "reset"} THEN <<hex_line(Atr)>>
  ELSE IF m.does = "nonsense" /\ p = "arm" THEN <<Complaint>>
  ELSE <<>>

\* The driver does what a line taken for m asks for.
Performs(p, m) ==
  /\ IF m.does = "command" THEN cmd' = m.bytes /\ pc' = "process"
     ELSE cmd' = cmd /\ pc' = IF m.does = "quit" THEN "down" ELSE "receive"
  /\ os' = Cat(os, ToOs(m))
  /\ sent' = Cat(sent, Says(p, m))

\* Histories.
Event == {<<"reset">>} \cup {<<"command", b>> : b \in Seq(Octet)}
SentLine == {Complaint} \cup {hex_line(b) : b \in Seq(Octet)}

\* Each of the things that a line can mean, and what it makes a driver do.
LEMMA Performing ==
  ASSUME NEW p \in {"sim", "arm"}, os \in Seq(Event), sent \in Seq(SentLine)
  PROVE  /\ pc' = "receive" /\ UNCHANGED <<cmd, os, sent>> => Performs(p, Means("nothing"))
         /\ p = "sim" /\ pc' = "receive" /\ UNCHANGED <<cmd, os, sent>> =>
              Performs(p, Means("nonsense"))
         /\ p = "arm" /\ pc = "receive" /\ complain => Performs(p, Means("nonsense"))
         /\ pc = "receive" /\ print_atr => Performs(p, Means("atr"))
         /\ pc = "receive" /\ card_reset => Performs(p, Means("reset"))
         /\ link_is_down => Performs(p, Means("quit"))
         /\ \A b : received(b) => Performs(p, [does |-> "command", bytes |-> b])
<1>1. \A w : Means(w).does = w
  BY DEF Means
<1>2. /\ ToOs(Means("nothing")) = <<>> /\ ToOs(Means("nonsense")) = <<>>
      /\ ToOs(Means("atr")) = <<>> /\ ToOs(Means("quit")) = <<>>
      /\ ToOs(Means("reset")) = << <<"reset">> >>
  BY <1>1 DEF ToOs
<1>3. \A b : /\ [does |-> "command", bytes |-> b].does = "command"
             /\ [does |-> "command", bytes |-> b].bytes = b
  OBVIOUS
<1>4. \A b : /\ ToOs([does |-> "command", bytes |-> b]) = << <<"command", b>> >>
             /\ Says(p, [does |-> "command", bytes |-> b]) = <<>>
  BY <1>3 DEF ToOs, Says
<1>5. /\ Says(p, Means("nothing")) = <<>> /\ Says(p, Means("quit")) = <<>>
      /\ Says(p, Means("atr")) = <<hex_line(Atr)>> /\ Says(p, Means("reset")) = <<hex_line(Atr)>>
      /\ p = "sim" => Says(p, Means("nonsense")) = <<>>
      /\ p = "arm" => Says(p, Means("nonsense")) = <<Complaint>>
  BY <1>1 DEF Says
<1>6. Cat(os, <<>>) = os /\ Cat(sent, <<>>) = sent
  BY DEF Cat
<1>7. \A x : Cat(os, <<x>>) = Append(os, x) /\ Cat(sent, <<x>>) = Append(sent, x)
  BY DEF Cat
<1>8. pc' = "receive" /\ UNCHANGED <<cmd, os, sent>> => Performs(p, Means("nothing"))
  BY <1>1, <1>2, <1>5, <1>6 DEF Performs
<1>9. p = "sim" /\ pc' = "receive" /\ UNCHANGED <<cmd, os, sent>> => Performs(p, Means("nonsense"))
  BY <1>1, <1>2, <1>5, <1>6 DEF Performs
<1>10. p = "arm" /\ pc = "receive" /\ complain => Performs(p, Means("nonsense"))
  BY <1>1, <1>2, <1>5, <1>6, <1>7 DEF Performs, complain
<1>11. pc = "receive" /\ print_atr => Performs(p, Means("atr"))
  BY <1>1, <1>2, <1>5, <1>6, <1>7 DEF Performs, print_atr
<1>12. pc = "receive" /\ card_reset => Performs(p, Means("reset"))
  BY <1>1, <1>2, <1>5, <1>6, <1>7 DEF Performs, card_reset
<1>13. link_is_down => Performs(p, Means("quit"))
  BY <1>1, <1>2, <1>5, <1>6 DEF Performs, link_is_down
<1>14. ASSUME NEW b, received(b) PROVE Performs(p, [does |-> "command", bytes |-> b])
  BY <1>3, <1>4, <1>6, <1>7, <1>14 DEF Performs, received
<1> QED
  BY <1>8, <1>9, <1>10, <1>11, <1>12, <1>13, <1>14

\* A line of the simulator is performed, or is a frame that is decoded.
LEMMA SimPerforms ==
  \A l \in Seq(Char) :
    /\ pc = "receive" /\ os \in Seq(Event) /\ sent \in Seq(SentLine) /\ sim_line(trim(l))
    => \/ Performs("sim", TakesLine("sim", l)) /\ UNCHANGED line
       \/ /\ pc' = "decode" /\ line' = [NoLine EXCEPT !.text = trim(l)]
          /\ UNCHANGED <<cmd, os, sent>>
          /\ trim(l) # <<>> /\ TakesLine("sim", l) = TakesFrame("sim", DigitsOf(trim(l)))
\* The first character tells what the simulator does with a trimmed line.
<1>SimTakes.
    ASSUME NEW l \in Seq(Char)
    PROVE  TakesLine("sim", l) =
             LET t == trim(l)
             IN IF t = <<>> \/ t[1] = "#" THEN Means("nothing")
                ELSE IF t[1] = "." THEN TakesControl("sim", t)
                ELSE TakesFrame("sim", DigitsOf(t))
  <2> DEFINE t == trim(l)
  <2>1. t # <<>> => t[1] = l[1]
    <3>1. t \in Seq(Char) /\ \A i \in 1 .. Len(t) : t[i] = l[i]
      BY TrimIs DEF Trims
    <3>2. t # <<>> => 1 \in 1 .. Len(t)
      BY <3>1
    <3> QED
      BY <3>1, <3>2
  <2>2. DigitsOf(t) = DigitsOf(l)
    BY DigitsTrim
  <2> HIDE DEF t
  <2> QED
    BY <2>1, <2>2 DEF TakesLine, t
\* The words of the simulator.
<1>SimControl.
    ASSUME NEW t
    PROVE  /\ t \in {<<".", "q", "u", "i", "t">>, <<".", "e", "x", "i", "t">>} =>
                TakesControl("sim", t) = Means("quit")
           /\ t = <<".", "a", "t", "r">> => TakesControl("sim", t) = Means("atr")
           /\ t = <<".", "r", "e", "s", "e", "t">> => TakesControl("sim", t) = Means("reset")
           /\ t \notin {<<".", "q", "u", "i", "t">>, <<".", "e", "x", "i", "t">>,
                        <<".", "a", "t", "r">>, <<".", "r", "e", "s", "e", "t">>} =>
                TakesControl("sim", t) = Means("nonsense")
  <2> DEFINE atr == <<".", "a", "t", "r">>
             reset == <<".", "r", "e", "s", "e", "t">>
             quit == <<".", "q", "u", "i", "t">>
             exit == <<".", "e", "x", "i", "t">>
  <2>1. TakesControl("sim", t) = IF t = atr THEN Means("atr")
                                   ELSE IF t = reset THEN Means("reset")
                                   ELSE IF t = quit \/ t = exit THEN Means("quit")
                                   ELSE Means("nonsense")
    BY DEF TakesControl
  <2>2. atr[2] = "a" /\ reset[2] = "r" /\ quit[2] = "q" /\ exit[2] = "e"
    OBVIOUS
  <2> HIDE DEF atr, reset, quit, exit
  <2>3. atr # reset /\ atr # quit /\ atr # exit /\ reset # quit /\ reset # exit
    BY <2>2
  <2>4. /\ t \in {quit, exit} => TakesControl("sim", t) = Means("quit")
        /\ t = atr => TakesControl("sim", t) = Means("atr")
        /\ t = reset => TakesControl("sim", t) = Means("reset")
        /\ t \notin {quit, exit, atr, reset} => TakesControl("sim", t) = Means("nonsense")
    BY <2>1, <2>3
  <2> QED
    BY <2>4 DEF atr, reset, quit, exit
<1> SUFFICES ASSUME NEW l \in Seq(Char), pc = "receive", os \in Seq(Event),
                    sent \in Seq(SentLine), sim_line(trim(l))
             PROVE  \/ Performs("sim", TakesLine("sim", l)) /\ UNCHANGED line
                    \/ /\ pc' = "decode" /\ line' = [NoLine EXCEPT !.text = trim(l)]
                       /\ UNCHANGED <<cmd, os, sent>>
                       /\ trim(l) # <<>>
                       /\ TakesLine("sim", l) = TakesFrame("sim", DigitsOf(trim(l)))
  OBVIOUS
<1> DEFINE t == trim(l)
           M == TakesLine("sim", l)
<1>1. M = IF t = <<>> \/ t[1] = "#" THEN Means("nothing")
          ELSE IF t[1] = "." THEN TakesControl("sim", t)
          ELSE TakesFrame("sim", DigitsOf(t))
  BY <1>SimTakes
<1>2. sim_line(t)
  OBVIOUS
<1>3. "sim" \in {"sim", "arm"}
  OBVIOUS
<1> HIDE DEF t, M
<1>4. CASE t = <<>> \/ t[1] = "#"
  <2>1. pc' = "receive" /\ UNCHANGED <<cmd, os, sent>> /\ UNCHANGED line
    BY <1>2, <1>4 DEF sim_line, ignored
  <2>2. Performs("sim", Means("nothing"))
    BY <1>3, <2>1, Performing
  <2> QED
    BY <1>1, <1>4, <2>1, <2>2 DEF M
<1>5. CASE ~(t = <<>> \/ t[1] = "#") /\ t[1] # "."
  BY <1>1, <1>2, <1>5 DEF sim_line, t, M
<1>6. CASE ~(t = <<>> \/ t[1] = "#") /\ t[1] = "."
  <2>1. M = TakesControl("sim", t)
    BY <1>1, <1>6
  <2>2. /\ UNCHANGED line
        /\ CASE t \in {<<".", "q", "u", "i", "t">>, <<".", "e", "x", "i", "t">>} -> link_is_down
             [] t = <<".", "a", "t", "r">> -> print_atr
             [] t = <<".", "r", "e", "s", "e", "t">> -> card_reset
             [] OTHER -> ignored
    BY <1>2, <1>6 DEF sim_line
  <2>3. CASE t \in {<<".", "q", "u", "i", "t">>, <<".", "e", "x", "i", "t">>}
    <3>1. link_is_down
      <4>1. t[2] = "q" \/ t[2] = "e"
        BY <2>3
      <4>2. t # <<".", "a", "t", "r">> /\ t # <<".", "r", "e", "s", "e", "t">>
        BY <4>1
      <4> QED
        BY <2>2, <2>3, <4>2
    <3>2. Performs("sim", Means("quit"))
      BY <1>3, <3>1, Performing
    <3> QED
      BY <2>1, <2>2, <2>3, <3>2, <1>SimControl DEF M
  <2>4. CASE t = <<".", "a", "t", "r">>
    <3>1. print_atr
      <4>1. t[2] = "a"
        BY <2>4
      <4>2. t # <<".", "q", "u", "i", "t">> /\ t # <<".", "e", "x", "i", "t">>
            /\ t # <<".", "r", "e", "s", "e", "t">>
        BY <4>1
      <4> QED
        BY <2>2, <2>4, <4>2
    <3>2. Performs("sim", Means("atr"))
      BY <1>3, <3>1, Performing
    <3> QED
      BY <2>1, <2>2, <2>4, <3>2, <1>SimControl DEF M
  <2>5. CASE t = <<".", "r", "e", "s", "e", "t">>
    <3>1. card_reset
      <4>1. t[2] = "r"
        BY <2>5
      <4>2. t # <<".", "q", "u", "i", "t">> /\ t # <<".", "e", "x", "i", "t">>
            /\ t # <<".", "a", "t", "r">>
        BY <4>1
      <4> QED
        BY <2>2, <2>5, <4>2
    <3>2. Performs("sim", Means("reset"))
      BY <1>3, <3>1, Performing
    <3> QED
      BY <2>1, <2>2, <2>5, <3>2, <1>SimControl DEF M
  <2>6. CASE t \notin {<<".", "q", "u", "i", "t">>, <<".", "e", "x", "i", "t">>,
                       <<".", "a", "t", "r">>, <<".", "r", "e", "s", "e", "t">>}
    <3>1. ignored
      BY <2>2, <2>6
    <3>2. Performs("sim", Means("nonsense"))
      BY <1>3, <3>1, Performing DEF ignored
    <3> QED
      BY <2>1, <2>2, <2>6, <3>2, <1>SimControl DEF M
  <2> QED
    BY <2>3, <2>4, <2>5, <2>6
<1> QED
  BY <1>4, <1>5, <1>6

\* What the digits of a line are taken for, by the name GoodFrame.
LEMMA FrameIs ==
  ASSUME NEW p, NEW D
  PROVE  TakesFrame(p, D) = IF D = <<>> /\ p = "arm" THEN Means("nothing")
                              ELSE IF GoodFrame(D) THEN [does |-> "command", bytes |-> BytesOf(D)]
                              ELSE Means("nonsense")
BY DEF TakesFrame, GoodFrame, AllHex

\* What the UART driver holds at the end of a line makes it perform the line.
LEMMA ArmPerforms ==
  \A l \in Seq(Char), e \in Char :
    /\ e \in Space /\ ArmLine(line, l) /\ line.dec \in Dec /\ pc = "receive"
    /\ os \in Seq(Event) /\ sent \in Seq(SentLine) /\ arm_line(line)
    => Performs("arm", TakesLine("arm", Append(l, e)))
\* A line of the UART driver, with its line end, once trimmed.
<1>ArmTrim.
    ASSUME NEW l \in Seq(Char), NEW e \in Char, e \in Space
    PROVE  LET L == Append(l, e)
           IN /\ L \in Seq(Char) /\ (l # <<>> => L[1] = l[1])
              /\ l = <<>> => trim(L) = <<>>
              /\ DigitsOf(L) = DigitsOf(l)
              /\ trim(L) = <<>> => DigitsOf(l) = <<>>
              /\ l # <<>> /\ l[1] \notin Space => trim(L) # <<>>
              /\ \A c : c \notin Space =>
                   (Len(trim(L)) > 1 /\ trim(L)[2] = c <=> Len(l) > 1 /\ l[2] = c)
  <2> DEFINE L == Append(l, e)
             n == Len(l)
             t == trim(L)
             m == Len(t)
  <2>1. /\ L \in Seq(Char) /\ Len(L) = n + 1 /\ n \in Nat
        /\ \A i \in 1 .. n : L[i] = l[i]
        /\ L[n + 1] = e
    BY AppendFacts
  <2>2. /\ t \in Seq(Char) /\ m \in 0 .. n + 1
        /\ \A i \in 1 .. m : t[i] = L[i]
        /\ \A i \in m + 1 .. n + 1 : L[i] \in Space
        /\ t # <<>> => t[m] \notin Space
    BY <2>1, TrimIs DEF Trims
  <2>3. t = <<>> <=> m = 0
    BY <2>2
  <2>4. l = <<>> <=> n = 0
    OBVIOUS
  <2>5. DigitsOf(t) = DigitsOf(L)
    BY <2>1, DigitsTrim
  <2>6. SubSeq(L, 1, n + 1) = L /\ SubSeq(L, 1, (n + 1) - 1) = l /\ n + 1 \in 1 .. Len(L)
    <3>1. (n + 1) - 1 = n /\ n + 1 \in 1 .. n + 1
      BY <2>1
    <3>2. SubSeq(L, 1, n) = l
      OBVIOUS
    <3> HIDE DEF L
    <3>3. SubSeq(L, 1, Len(L)) = L
      BY <2>1
    <3> QED
      BY <2>1, <3>1, <3>2, <3>3
  <2> HIDE DEF L, t, n, m
  <2>7. DigitsOf(L) = DigitsOf(l)
    <3>1. L[n + 1] \in Space \cup {":"}
      BY <1>ArmTrim, <2>1
    <3>2. DigitsOf(SubSeq(L, 1, n + 1)) = DigitsOf(SubSeq(L, 1, (n + 1) - 1))
      BY <2>1, <2>6, <3>1, DigitsNext
    <3> QED
      BY <2>6, <3>2
  <2>8. l # <<>> => 1 \in 1 .. n /\ L[1] = l[1]
    BY <2>1, <2>4
  <2>9. l = <<>> => t = <<>>
    <3> SUFFICES ASSUME l = <<>>, t # <<>> PROVE FALSE
      OBVIOUS
    <3>1. n = 0 /\ m = 1
      BY <2>2, <2>3, <2>4
    <3>2. t[m] = e /\ t[m] \notin Space
      BY <2>1, <2>2, <3>1
    <3> QED
      BY <1>ArmTrim, <3>2
  <2>10. t = <<>> => DigitsOf(l) = <<>>
    <3>1. DigitsOf(<<>>) = <<>>
      <4> DEFINE q == [i \in 1 .. 0 |-> IF <<>>[i] \in Space \cup {":"} THEN <<>> ELSE <<(<<>>)[i]>>]
      <4>1. q = <<>> /\ <<>> \in Seq(Seq(Char)) /\ Len(<<>>) = 0
        OBVIOUS
      <4>2. DigitsOf(<<>>) = FlattenSeq(q)
        BY <4>1 DEF DigitsOf
      <4> HIDE DEF q
      <4>3. FlattenSeq(<<>>) = <<>>
        BY <4>1, UpToFacts
      <4> QED
        BY <4>1, <4>2, <4>3
    <3> QED
      BY <2>5, <2>7, <3>1
  <2>11. l # <<>> /\ l[1] \notin Space => t # <<>>
    <3> SUFFICES ASSUME l # <<>>, l[1] \notin Space, t = <<>> PROVE FALSE
      OBVIOUS
    <3>1. 1 \in m + 1 .. n + 1
      BY <2>1, <2>2, <2>3, <2>8
    <3> QED
      BY <2>2, <2>8, <3>1
  <2>12. ASSUME NEW c, c \notin Space
         PROVE  m > 1 /\ t[2] = c <=> n > 1 /\ l[2] = c
    <3>1. ASSUME m > 1, t[2] = c PROVE n > 1 /\ l[2] = c
      <4>1. 2 \in 1 .. m /\ 2 <= n + 1
        BY <2>1, <2>2, <3>1
      <4>2. L[2] = c
        BY <2>2, <3>1, <4>1
      <4>3. n + 1 # 2
        BY <1>ArmTrim, <2>1, <2>12, <4>2
      <4>4. 2 \in 1 .. n
        BY <2>1, <4>1, <4>3
      <4>5. n > 1
        BY <2>1, <4>4
      <4> QED
        BY <2>1, <4>2, <4>4, <4>5
    <3>2. ASSUME n > 1, l[2] = c PROVE m > 1 /\ t[2] = c
      <4>1. 2 \in 1 .. n /\ 2 \in 1 .. n + 1
        BY <2>1, <3>2
      <4>2. L[2] = c
        BY <2>1, <3>2, <4>1
      <4>3. 2 \notin m + 1 .. n + 1
        BY <2>2, <2>12, <4>2
      <4>4. 2 \in 1 .. m /\ m > 1
        BY <2>1, <2>2, <4>1, <4>3
      <4> QED
        BY <2>2, <4>2, <4>4
    <3> QED
      BY <3>1, <3>2
  <2> QED
    BY <2>1, <2>7, <2>8, <2>9, <2>10, <2>11, <2>12 DEF L, t, n, m
\* The initials of the UART driver.
<1>ArmControl.
    ASSUME NEW l \in Seq(Char), NEW e \in Char, e \in Space
    PROVE  LET w == TakesControl("arm", trim(Append(l, e)))
           IN /\ Len(l) > 1 /\ l[2] = "q" => w = Means("quit")
              /\ Len(l) > 1 /\ l[2] = "a" => w = Means("atr")
              /\ Len(l) > 1 /\ l[2] = "r" => w = Means("reset")
              /\ ~(Len(l) > 1 /\ l[2] \in {"q", "a", "r"}) => w = Means("nonsense")
  <2> DEFINE t == trim(Append(l, e))
             Is(c) == Len(t) > 1 /\ t[2] = c
  <2>1. \A c \in {"q", "a", "r"} : c \notin Space
    BY DEF Space
  <2>2. \A c \in {"q", "a", "r"} : Is(c) <=> Len(l) > 1 /\ l[2] = c
    BY <1>ArmControl, <2>1, <1>ArmTrim
  <2>3. TakesControl("arm", t) = IF Is("a") THEN Means("atr")
                                   ELSE IF Is("r") THEN Means("reset")
                                   ELSE IF Is("q") THEN Means("quit")
                                   ELSE Means("nonsense")
    <3>1. /\ <<".", "a", "t", "r">>[2] = "a" /\ <<".", "r", "e", "s", "e", "t">>[2] = "r"
          /\ <<".", "q", "u", "i", "t">>[2] = "q"
      OBVIOUS
    <3> HIDE DEF t
    <3> QED
      BY <3>1 DEF TakesControl
  <2> HIDE DEF Is
  <2> QED
    BY <2>2, <2>3 DEF t
<1> SUFFICES ASSUME NEW l \in Seq(Char), NEW e \in Char, e \in Space,
                    ArmLine(line, l), line.dec \in Dec, pc = "receive",
                    os \in Seq(Event), sent \in Seq(SentLine), arm_line(line)
             PROVE  Performs("arm", TakesLine("arm", Append(l, e)))
  OBVIOUS
<1> DEFINE L == Append(l, e)
           M == TakesLine("arm", L)
           D == DigitsOf(l)
<1>1. /\ l # <<>> => L[1] = l[1]
      /\ l = <<>> => trim(L) = <<>>
      /\ DigitsOf(L) = D
      /\ trim(L) = <<>> => D = <<>>
      /\ l # <<>> /\ l[1] \notin Space => trim(L) # <<>>
  BY <1>ArmTrim
<1>2. M = IF trim(L) = <<>> \/ L[1] = "#" THEN Means("nothing")
          ELSE IF L[1] = "." THEN TakesControl("arm", trim(L))
          ELSE TakesFrame("arm", DigitsOf(L))
  BY DEF TakesLine
<1>3. /\ Len(l) > 1 /\ l[2] = "q" => TakesControl("arm", trim(L)) = Means("quit")
      /\ Len(l) > 1 /\ l[2] = "a" => TakesControl("arm", trim(L)) = Means("atr")
      /\ Len(l) > 1 /\ l[2] = "r" => TakesControl("arm", trim(L)) = Means("reset")
      /\ ~(Len(l) > 1 /\ l[2] \in {"q", "a", "r"}) =>
           TakesControl("arm", trim(L)) = Means("nonsense")
  BY <1>ArmControl
<1>4. Len(l) \in Nat /\ (l = <<>> <=> Len(l) = 0)
  OBVIOUS
<1>5. "arm" \in {"sim", "arm"} /\ "." \notin Space /\ "#" \notin Space
  BY DEF Space
<1>6. D \in Seq(Char)
  <2>1. Len(l) \in 0 .. Len(l) /\ SubSeq(l, 1, Len(l)) = l
    OBVIOUS
  <2>2. DigitsOf(SubSeq(l, 1, Len(l))) \in Seq(Char)
    BY <2>1, DigitsGrow
  <2> QED
    BY <2>1, <2>2
<1> HIDE DEF L, M, D
<1>7. CASE line.seen = 0
  <2>1. l = <<>>
    BY <1>4, <1>7 DEF ArmLine
  <2>2. M = Means("nothing")
    BY <1>1, <1>2, <2>1
  <2>3. pc' = "receive" /\ UNCHANGED <<cmd, os, sent>>
    BY <1>7 DEF arm_line, ignored
  <2> QED
    BY <1>5, <2>2, <2>3, Performing DEF M, L
<1>8. CASE line.seen # 0 /\ line.is_control
  <2> DEFINE c == line.control
  <2>1. /\ l # <<>> /\ l[1] \in {".", "#"} /\ c[1] = l[1]
        /\ Len(c) > 1 <=> Len(l) > 1
        /\ Len(l) > 1 => c[2] = l[2]
    BY <1>8 DEF ArmLine
  <2>2. arm_control(c)
    BY <1>8 DEF arm_line
  <2>3. trim(L) # <<>> /\ L[1] = l[1]
    BY <1>1, <1>5, <2>1
  <2> HIDE DEF c
  <2>4. CASE l[1] = "#"
    <3>1. M = Means("nothing")
      BY <1>2, <2>3, <2>4
    <3>2. pc' = "receive" /\ UNCHANGED <<cmd, os, sent>>
      BY <2>1, <2>2, <2>4 DEF arm_control, ignored
    <3> QED
      BY <1>5, <3>1, <3>2, Performing DEF M, L
  <2>5. CASE l[1] = "."
    <3>1. M = TakesControl("arm", trim(L))
      BY <1>2, <2>3, <2>5
    <3>2. /\ CASE Len(c) > 1 /\ c[2] = "q" -> link_is_down
               [] Len(c) > 1 /\ c[2] = "a" -> print_atr
               [] Len(c) > 1 /\ c[2] = "r" -> card_reset
               [] OTHER -> complain
      BY <2>1, <2>2, <2>5 DEF arm_control
    <3>3. CASE Len(l) > 1 /\ l[2] = "q"
      BY <1>3, <1>5, <2>1, <3>1, <3>2, <3>3, Performing DEF M, L
    <3>4. CASE Len(l) > 1 /\ l[2] = "a"
      BY <1>3, <1>5, <2>1, <3>1, <3>2, <3>4, Performing DEF M, L
    <3>5. CASE Len(l) > 1 /\ l[2] = "r"
      BY <1>3, <1>5, <2>1, <3>1, <3>2, <3>5, Performing DEF M, L
    <3>6. CASE ~(Len(l) > 1 /\ l[2] \in {"q", "a", "r"})
      BY <1>3, <1>5, <2>1, <3>1, <3>2, <3>6, Performing DEF M, L
    <3> QED
      BY <3>3, <3>4, <3>5, <3>6
  <2> QED
    BY <2>1, <2>4, <2>5
<1>9. CASE line.seen # 0 /\ ~line.is_control
  <2>1. l # <<>> /\ l[1] \notin {".", "#"} /\ Decoded(line.dec, D)
    BY <1>4, <1>9 DEF ArmLine, D
  <2>2. /\ line.dec = NoDigits <=> D = <<>>
        /\ line.dec.bad \/ line.dec.hi >= 0 <=> ~GoodFrame(D)
        /\ GoodFrame(D) => line.dec.buf = BytesOf(D)
    BY <1>6, <2>1, DecodedMeans
  <2>3. M = IF D = <<>> THEN Means("nothing")
            ELSE IF GoodFrame(D) THEN [does |-> "command", bytes |-> BytesOf(D)]
            ELSE Means("nonsense")
    <3>1. TakesFrame("arm", D) = IF D = <<>> THEN Means("nothing")
            ELSE IF GoodFrame(D) THEN [does |-> "command", bytes |-> BytesOf(D)]
            ELSE Means("nonsense")
      BY FrameIs
    <3> QED
      BY <1>1, <1>2, <2>1, <3>1
  <2>4. IF line.dec = NoDigits THEN ignored
        ELSE IF line.dec.bad \/ line.dec.hi >= 0 THEN complain
        ELSE received(line.dec.buf)
    BY <1>9 DEF arm_line
  <2>5. CASE D = <<>>
    BY <1>5, <2>2, <2>3, <2>4, <2>5, Performing DEF ignored, M, L
  <2>6. CASE D # <<>> /\ ~GoodFrame(D)
    BY <1>5, <2>2, <2>3, <2>4, <2>6, Performing DEF M, L
  <2>7. CASE D # <<>> /\ GoodFrame(D)
    BY <1>5, <2>2, <2>3, <2>4, <2>7, Performing DEF M, L
  <2> QED
    BY <2>5, <2>6, <2>7
<1> QED
  BY <1>7, <1>8, <1>9

\* What a line can mean, and what a reader can hear.
TakenSet == {Means(w) : w \in {"nothing", "nonsense", "atr", "reset", "quit"}}
                \cup {[does |-> "command", bytes |-> b] : b \in Seq(Octet)}
Hearing == {Complains} \cup {Bytes(b) : b \in Seq(Octet)}

\* Pairs of digits are bytes.
LEMMA BytesOfType ==
  ASSUME NEW D \in Seq(Char), AllHex(D)
  PROVE  BytesOf(D) \in Seq(Octet)
<1> DEFINE n == Len(D)
<1>1. n \in Nat /\ n \div 2 \in Nat /\ \A i \in 1 .. n \div 2 : 2 * i - 1 \in 1 .. n /\ 2 * i \in 1 .. n
  OBVIOUS
<1>2. \A i \in 1 .. n : Value(D[i]) \in 0 .. 15
  BY NibbleIs DEF AllHex
<1>3. \A x, y \in 0 .. 15 : 16 * x + y \in Octet
  BY SMT DEF Octet
<1>4. \A i \in 1 .. n \div 2 : 16 * Value(D[2 * i - 1]) + Value(D[2 * i]) \in Octet
  BY <1>1, <1>2, <1>3
<1>5. BytesOf(D) = [i \in 1 .. n \div 2 |-> 16 * Value(D[2 * i - 1]) + Value(D[2 * i])]
  BY DEF BytesOf
<1> HIDE DEF n
<1> QED
  BY <1>1, <1>4, <1>5

\* A line is taken for one of six things.
LEMMA TakesLineType ==
  ASSUME NEW p, NEW l \in Seq(Char)
  PROVE  TakesLine(p, l) \in TakenSet
<1>1. \A w \in {"nothing", "nonsense", "atr", "reset", "quit"} : Means(w) \in TakenSet
  BY DEF TakenSet
<1>2. \A w : TakesControl(p, w) \in TakenSet
  BY <1>1 DEF TakesControl
<1>3. DigitsOf(l) \in Seq(Char)
  <2>1. Len(l) \in 0 .. Len(l) /\ SubSeq(l, 1, Len(l)) = l
    OBVIOUS
  <2>2. DigitsOf(SubSeq(l, 1, Len(l))) \in Seq(Char)
    BY <2>1, DigitsGrow
  <2> QED
    BY <2>1, <2>2
<1>4. GoodFrame(DigitsOf(l)) => [does |-> "command", bytes |-> BytesOf(DigitsOf(l))] \in TakenSet
  BY <1>3, BytesOfType DEF GoodFrame, TakenSet
<1>5. TakesFrame(p, DigitsOf(l)) \in TakenSet
  BY <1>1, <1>4, FrameIs
<1> QED
  BY <1>1, <1>2, <1>5 DEF TakesLine

\* The reply to a command is made of bytes.
LEMMA ReplyType ==
  ASSUME NEW a, a.puts \in Seq(Seq(Octet)), a.sw \in Word, NEW b \in Seq(Octet)
  PROVE  Reply(a, b) \in Seq(Octet)
<1> DEFINE data == FlattenSeq(a.puts)
           w == IF ~WellFormed(b)
                THEN IF Len(b) > 5 /\ b[5] = 0 THEN SW_FUNC_NOT_SUPPORTED
                     ELSE SW_WRONG_LENGTH
                ELSE IF b[1] # 0 THEN apdu_check_cla(b[1])
                ELSE IF b[2] \notin k_commands THEN SW_INS_NOT_SUPPORTED
                ELSE IF Len(data) + 2 > RSP_MAX THEN SW_NO_PRECISE_DIAGNOSIS
                ELSE a.sw
           good == WellFormed(b) /\ b[1] = 0 /\ b[2] \in k_commands /\ Len(data) + 2 <= RSP_MAX
<1>1. data \in Seq(Octet)
  BY RspAfter
<1>2. Reply(a, b) = Cat(IF good THEN data ELSE <<>>, Status(w))
  BY DEF Reply, Cat, Status
<1>3. apdu_check_cla(b[1]) \in Word
  BY WordsDiffer DEF apdu_check_cla, AllWords
<1>4. w \in Word
  <2> HIDE DEF data
  <2> QED
    BY <1>3, WordsDiffer DEF AllWords
<1> HIDE DEF w, data, good
<1>5. Status(w) \in Seq(Octet)
  BY <1>4, StatusBytes
<1>6. Cat(data, Status(w)) \in Seq(Octet) /\ Cat(<<>>, Status(w)) \in Seq(Octet)
  BY <1>1, <1>5 DEF Cat
<1> QED
  BY <1>2, <1>6

\* An answer that a handler may give.
GoodAnswer(a) == a.puts \in Seq(Seq(Octet)) /\ a.sw \in Word

\* What a handler answers: the named assumption, with its bounds hidden.
LEMMA AnswersAreGood == \A a \in Answers : GoodAnswer(a)
<1>1. \A a \in Answers : a.puts \in Seq(Seq(Octet))
  BY AnswersAssumption DEF Octet
<1>2. \A a \in Answers : a.sw \in Word
  <2>1. \A a \in Answers : a.sw \in Nat /\ a.sw < 65536
    BY AnswersAssumption
  <2> QED
    BY <2>1, SMT DEF Word
<1> QED
  BY <1>1, <1>2 DEF GoodAnswer

\* The ATR is made of bytes.
LEMMA AtrType == Atr \in Seq(Octet)
BY AnswersAssumption DEF Octet

\* What a line so taken gives.
LEMMA GivenType ==
  ASSUME NEW p, NEW a, GoodAnswer(a), NEW m \in TakenSet
  PROVE  ToOs(m) \in Seq(Event) /\ ToReader(p, a, m) \in Seq(Hearing)
<1>1. \A x \in Event : <<x>> \in Seq(Event)
  OBVIOUS
<1>2. \A x \in Hearing : <<x>> \in Seq(Hearing)
  OBVIOUS
<1>3. <<>> \in Seq(Event) /\ <<>> \in Seq(Hearing)
  OBVIOUS
<1>4. <<"reset">> \in Event /\ \A b \in Seq(Octet) : <<"command", b>> \in Event
  BY DEF Event
<1>5. Complains \in Hearing /\ \A b \in Seq(Octet) : Bytes(b) \in Hearing
  BY DEF Hearing
<1>6. CASE m \in {Means(w) : w \in {"nothing", "nonsense", "atr", "reset", "quit"}}
  <2>1. PICK w \in {"nothing", "nonsense", "atr", "reset", "quit"} : m = Means(w)
    BY <1>6
  <2>2. m.does = w
    BY <2>1 DEF Means
  <2>3. m.does # "command"
    BY <2>2
  <2>4. ToOs(m) \in {<<>>, << <<"reset">> >>}
    BY <2>3 DEF ToOs
  <2>5. ToReader(p, a, m) \in {<<>>, <<Bytes(Atr)>>, <<Complains>>}
    BY <2>3 DEF ToReader
  <2> QED
    BY <1>1, <1>2, <1>3, <1>4, <1>5, <2>4, <2>5, AtrType
<1>7. CASE m \in {[does |-> "command", bytes |-> b] : b \in Seq(Octet)}
  <2>1. PICK b \in Seq(Octet) : m = [does |-> "command", bytes |-> b]
    BY <1>7
  <2>2. m.does = "command" /\ m.bytes = b
    BY <2>1
  <2>3. ToOs(m) = << <<"command", b>> >> /\ ToReader(p, a, m) = <<Bytes(Reply(a, b))>>
    BY <2>2 DEF ToOs, ToReader
  <2>4. Reply(a, b) \in Seq(Octet)
    BY ReplyType DEF GoodAnswer
  <2> QED
    BY <1>1, <1>2, <1>4, <1>5, <2>3, <2>4
<1> QED
  BY <1>6, <1>7 DEF TakenSet

\* Parts that are empty add nothing.
LEMMA UpToEmpty ==
  ASSUME NEW X, NEW s \in Seq(Seq(X)), NEW j \in 0 .. Len(s), NEW k \in 0 .. Len(s), j <= k,
         \A i \in j + 1 .. k : s[i] = <<>>
  PROVE  UpTo(s, k) = UpTo(s, j)
<1> DEFINE U == {n \in Nat : j + n <= k => UpTo(s, j + n) = UpTo(s, j)}
<1>0. Len(s) \in Nat /\ j \in Nat /\ k \in Nat
  OBVIOUS
<1>1. 0 \in U
  BY <1>0
<1>2. ASSUME NEW n \in Nat, n \in U PROVE n + 1 \in U
  <2> SUFFICES ASSUME j + (n + 1) <= k PROVE UpTo(s, j + (n + 1)) = UpTo(s, j)
    OBVIOUS
  <2> DEFINE m == j + (n + 1)
  <2>1. m \in 1 .. Len(s) /\ m \in j + 1 .. k /\ m - 1 = j + n /\ j + n <= k /\ m - 1 \in 0 .. Len(s)
    BY <1>0
  <2> HIDE DEF m
  <2>2. UpTo(s, m) = Cat(UpTo(s, m - 1), s[m]) /\ UpTo(s, m - 1) \in Seq(X)
    BY <2>1, UpToFacts
  <2>3. Cat(UpTo(s, m - 1), <<>>) = UpTo(s, m - 1)
    BY <2>2 DEF Cat
  <2> QED
    BY <1>2, <2>1, <2>2, <2>3 DEF m
<1>3. k - j \in Nat /\ j + (k - j) = k /\ k <= k
  BY <1>0
<1>4. k - j \in U
  <2> HIDE DEF U
  <2> QED
    BY <1>1, <1>2, <1>3, Induction
<1> QED
  BY <1>3, <1>4

\* Every character is taken for something.
LEMMA TakesType ==
  ASSUME NEW p \in {"sim", "arm"}, NEW s \in Seq(Char), NEW i \in 1 .. Len(s)
  PROVE  /\ LineTo(p, s, i) \in Seq(Char)
         /\ Takes(p, s, i) \in TakenSet
<1> DEFINE k == Start(p, s, i)
           x == ((i - k) \div Most) * Most
<1>1. i \in 1 .. Len(s) + 1 /\ Len(s) \in Nat /\ i \in Nat
  OBVIOUS
<1>2. k \in 1 .. i
  BY <1>1, StartNext
<1> HIDE DEF k
<1>3. i - k \in Nat /\ Most \in Nat \ {0}
  BY <1>1, <1>2, Sizes DEF Most
<1>4. x \in Nat
  <2>1. (i - k) \div Most \in Nat
    BY <1>3, Remainder
  <2>2. \A u, v \in Nat : u * v \in Nat
    OBVIOUS
  <2> QED
    BY <1>3, <2>1, <2>2
<1> HIDE DEF x
<1>5. CutStart(p, s, i) \in {k, k + x}
  BY DEF CutStart, k, x
<1>6. CutStart(p, s, i) \in Nat /\ CutStart(p, s, i) >= 1
  BY <1>2, <1>4, <1>5
<1>7. \A u \in Nat : u >= 1 => SubSeq(s, u, i) \in Seq(Char)
  <2> SUFFICES ASSUME NEW u \in Nat, u >= 1 PROVE SubSeq(s, u, i) \in Seq(Char)
    OBVIOUS
  <2> QED
    BY <1>1
<1>8. LineTo(p, s, i) \in Seq(Char)
  BY <1>6, <1>7, CStringFits DEF LineTo
<1>9. Means("nothing") \in TakenSet
  BY DEF TakenSet
<1> QED
  BY <1>8, <1>9, TakesLineType DEF Takes

\* The parts of what a stream gives.
LEMMA PartsAre ==
  ASSUME NEW p \in {"sim", "arm"}, NEW s \in Seq(Char), NEW a, GoodAnswer(a)
  PROVE  /\ OsParts(p, s) \in Seq(Seq(Event)) /\ Len(OsParts(p, s)) = Len(s)
         /\ ReaderParts(p, s, a) \in Seq(Seq(Hearing)) /\ Len(ReaderParts(p, s, a)) = Len(s)
         /\ \A i \in 1 .. Len(s) : /\ OsParts(p, s)[i] = ToOs(Takes(p, s, i))
                                   /\ ReaderParts(p, s, a)[i] = ToReader(p, a, Takes(p, s, i))
<1> DEFINE f(i) == ToOs(Takes(p, s, i))
           g(i) == ToReader(p, a, Takes(p, s, i))
<1>1. \A i \in 1 .. Len(s) : f(i) \in Seq(Event) /\ g(i) \in Seq(Hearing)
  BY TakesType, GivenType
<1>2. OsParts(p, s) = [i \in 1 .. Len(s) |-> f(i)]
  BY DEF OsParts
<1>3. ReaderParts(p, s, a) = [i \in 1 .. Len(s) |-> g(i)]
  BY DEF ReaderParts
<1>4. Len(s) \in Nat
  OBVIOUS
<1> HIDE DEF f, g
<1>5. /\ OsParts(p, s) \in Seq(Seq(Event)) /\ Len(OsParts(p, s)) = Len(s)
      /\ \A i \in 1 .. Len(s) : OsParts(p, s)[i] = f(i)
  BY <1>1, <1>2, <1>4
<1>6. /\ ReaderParts(p, s, a) \in Seq(Seq(Hearing)) /\ Len(ReaderParts(p, s, a)) = Len(s)
      /\ \A i \in 1 .. Len(s) : ReaderParts(p, s, a)[i] = g(i)
  BY <1>1, <1>3, <1>4
<1> QED
  BY <1>5, <1>6 DEF f, g

\* What is given so far, as the concatenation that SeqLemmas is about.
LEMMA ForIs ==
  ASSUME NEW p, NEW s, NEW a, NEW k
  PROVE  ForOs(p, s, k) = UpTo(OsParts(p, s), k) /\ ForReader(p, s, a, k) = UpTo(ReaderParts(p, s, a), k)
BY DEF ForOs, ForReader, UpTo

\* What one more character adds to what is given so far.
LEMMA ForNext ==
  ASSUME NEW p \in {"sim", "arm"}, NEW s \in Seq(Char), NEW a, GoodAnswer(a), NEW k \in 1 .. Len(s)
  PROVE  /\ ForOs(p, s, k) = Cat(ForOs(p, s, k - 1), ToOs(Takes(p, s, k)))
         /\ ForReader(p, s, a, k) =
              Cat(ForReader(p, s, a, k - 1), ToReader(p, a, Takes(p, s, k)))
         /\ ForOs(p, s, k - 1) \in Seq(Event) /\ ForReader(p, s, a, k - 1) \in Seq(Hearing)
<1> DEFINE f == OsParts(p, s)
           g == ReaderParts(p, s, a)
<1>1. /\ f \in Seq(Seq(Event)) /\ Len(f) = Len(s) /\ g \in Seq(Seq(Hearing)) /\ Len(g) = Len(s)
      /\ f[k] = ToOs(Takes(p, s, k)) /\ g[k] = ToReader(p, a, Takes(p, s, k))
  BY PartsAre
<1>2. k - 1 \in 0 .. Len(s)
  OBVIOUS
<1> HIDE DEF f, g
<1>3. UpTo(f, k) = Cat(UpTo(f, k - 1), f[k]) /\ UpTo(f, k - 1) \in Seq(Event)
  BY <1>1, <1>2, UpToFacts
<1>4. UpTo(g, k) = Cat(UpTo(g, k - 1), g[k]) /\ UpTo(g, k - 1) \in Seq(Hearing)
  BY <1>1, <1>2, UpToFacts
<1> QED
  BY <1>1, <1>3, <1>4, ForIs DEF f, g

\* Nothing is given before the first character.
LEMMA ForNone ==
  ASSUME NEW p \in {"sim", "arm"}, NEW s \in Seq(Char), NEW a, GoodAnswer(a)
  PROVE  ForOs(p, s, 0) = <<>> /\ ForReader(p, s, a, 0) = <<>>
BY PartsAre, UpToFacts, ForIs

\* Characters taken for nothing add nothing.
LEMMA ForSkip ==
  ASSUME NEW p \in {"sim", "arm"}, NEW s \in Seq(Char), NEW a, GoodAnswer(a),
         NEW j \in 0 .. Len(s), NEW k \in 0 .. Len(s), j <= k,
         \A i \in j + 1 .. k : Takes(p, s, i) = Means("nothing")
  PROVE  ForOs(p, s, k) = ForOs(p, s, j) /\ ForReader(p, s, a, k) = ForReader(p, s, a, j)
<1> DEFINE f == OsParts(p, s)
           g == ReaderParts(p, s, a)
<1>1. /\ f \in Seq(Seq(Event)) /\ Len(f) = Len(s) /\ g \in Seq(Seq(Hearing)) /\ Len(g) = Len(s)
      /\ \A i \in 1 .. Len(s) : /\ f[i] = ToOs(Takes(p, s, i))
                                /\ g[i] = ToReader(p, a, Takes(p, s, i))
  BY PartsAre
<1>2. \A i \in j + 1 .. k : i \in 1 .. Len(s)
  OBVIOUS
<1>3. ToOs(Means("nothing")) = <<>> /\ ToReader(p, a, Means("nothing")) = <<>>
  BY DEF ToOs, ToReader, Means
<1> HIDE DEF f, g
<1>4. \A i \in j + 1 .. k : f[i] = <<>> /\ g[i] = <<>>
  BY <1>1, <1>2, <1>3
<1>5. UpTo(f, k) = UpTo(f, j)
  BY <1>1, <1>4, UpToEmpty
<1>6. UpTo(g, k) = UpTo(g, j)
  BY <1>1, <1>4, UpToEmpty
<1> QED
  BY <1>5, <1>6, ForIs DEF f, g

\* Where the session ends.
LEMMA LastIs ==
  ASSUME NEW p, NEW s \in Seq(Char), NEW k \in 0 .. Len(s),
         \A i \in 1 .. k - 1 : Takes(p, s, i).does # "quit",
         \/ k \in 1 .. Len(s) /\ Takes(p, s, k).does = "quit"
         \/ k = Len(s) /\ \A i \in 1 .. Len(s) : Takes(p, s, i).does # "quit"
  PROVE  LastOf(p, s) = k
<1> DEFINE quits == {i \in 1 .. Len(s) : Takes(p, s, i).does = "quit"}
<1>1. LastOf(p, s) = IF quits = {} THEN Len(s) ELSE CHOOSE i \in quits : \A j \in quits : i <= j
  BY DEF LastOf
<1>2. CASE k = Len(s) /\ \A i \in 1 .. Len(s) : Takes(p, s, i).does # "quit"
  <2>1. quits = {}
    BY <1>2
  <2> QED
    BY <1>1, <1>2, <2>1
<1>3. CASE k \in 1 .. Len(s) /\ Takes(p, s, k).does = "quit"
  <2>1. k \in quits /\ \A i \in quits : i \in 1 .. Len(s) /\ i \notin 1 .. k - 1
    BY <1>3
  <2> HIDE DEF quits
  <2>2. \A i \in quits : k <= i
    BY <1>3, <2>1
  <2>3. \A i \in quits : (\A j \in quits : i <= j) => i = k
    BY <1>3, <2>1, <2>2
  <2>4. k = CHOOSE i \in quits : \A j \in quits : i <= j
    BY <2>1, <2>2, <2>3
  <2> QED
    BY <1>1, <2>1, <2>4
<1> QED
  BY <1>2, <1>3

\* The histories, and what the handlers may answer.
HistInv ==
  /\ os \in Seq(Event) /\ sent \in Seq(SentLine)
  /\ cmd \in Seq(Octet) /\ answer \in Answers

\* What the reader hears when one more line is sent.
LEMMA HeardNext ==
  ASSUME NEW q \in Seq(SentLine)
  PROVE  /\ HeardOf(Cat(q, <<>>)) = Cat(HeardOf(q), <<>>) /\ Cat(q, <<>>) \in Seq(SentLine)
         /\ \A x \in SentLine : /\ HeardOf(Cat(q, <<x>>)) = Cat(HeardOf(q), <<Heard(x)>>)
                                /\ Cat(q, <<x>>) \in Seq(SentLine)
<1>1. Len(q) \in Nat /\ HeardOf(q) = [i \in 1 .. Len(q) |-> Heard(q[i])]
  BY DEF HeardOf
<1>2. Cat(q, <<>>) = q /\ Cat(HeardOf(q), <<>>) = HeardOf(q)
  <2>1. \A r : r \in Seq(Range(r)) => Cat(r, <<>>) = r
    BY DEF Cat
  <2>2. HeardOf(q) \in Seq({Heard(q[i]) : i \in 1 .. Len(q)})
    BY <1>1
  <2> QED
    BY <2>2 DEF Cat
<1>3. ASSUME NEW x \in SentLine
      PROVE  HeardOf(Cat(q, <<x>>)) = Cat(HeardOf(q), <<Heard(x)>>) /\ Cat(q, <<x>>) \in Seq(SentLine)
  <2> DEFINE r == Append(q, x)
             n == Len(q)
  <2>1. Cat(q, <<x>>) = r
    BY DEF Cat
  <2>2. /\ r \in Seq(SentLine) /\ Len(r) = n + 1 /\ n \in Nat
        /\ \A i \in 1 .. n : r[i] = q[i]
        /\ r[n + 1] = x
    BY AppendFacts
  <2> HIDE DEF r
  <2>3. HeardOf(r) = [i \in 1 .. n + 1 |-> Heard(r[i])]
    BY <2>2 DEF HeardOf
  <2> DEFINE h == [i \in 1 .. n |-> Heard(q[i])]
             y == Heard(x)
  <2>4. \A i \in 1 .. n : h[i] = Heard(r[i])
    BY <2>2
  <2>5. y = Heard(r[n + 1])
    BY <2>2
  <2>6. h \in Seq({Heard(q[i]) : i \in 1 .. n}) /\ Len(h) = n
    BY <2>2
  <2> HIDE DEF h, y
  <2>7. Cat(h, <<y>>) = [i \in 1 .. n + 1 |-> IF i <= n THEN h[i] ELSE y]
    BY <2>2, <2>6 DEF Cat
  <2>8. \A i \in 1 .. n + 1 : Heard(r[i]) = IF i <= n THEN h[i] ELSE y
    BY <2>2, <2>4, <2>5
  <2>9. HeardOf(r) = Cat(h, <<y>>)
    BY <2>3, <2>7, <2>8
  <2> QED
    BY <1>1, <2>1, <2>2, <2>9 DEF h, y
<1> QED
  BY <1>2, <1>3

\* What the driver says to a line other than a command is what the reader should hear.
LEMMA HeardSays ==
  ASSUME NEW p \in {"sim", "arm"}, NEW a, NEW m \in TakenSet, m.does # "command",
         sent \in Seq(SentLine)
  PROVE  /\ HeardOf(Cat(sent, Says(p, m))) = Cat(HeardOf(sent), ToReader(p, a, m))
         /\ Cat(sent, Says(p, m)) \in Seq(SentLine)
<1>1. hex_line(Atr) \in SentLine /\ Complaint \in SentLine
  BY AtrType DEF SentLine
<1>2. Heard(hex_line(Atr)) = Bytes(Atr) /\ Heard(Complaint) = Complains
  BY AtrType, HexLineDecodes DEF Heard
<1>3. CASE m.does \in {"atr", "reset"}
  <2>1. Says(p, m) = <<hex_line(Atr)>> /\ ToReader(p, a, m) = <<Bytes(Atr)>>
    BY <1>3 DEF Says, ToReader
  <2> QED
    BY <1>1, <1>2, <2>1, HeardNext
<1>4. CASE m.does = "nonsense" /\ p = "arm"
  <2>1. Says(p, m) = <<Complaint>> /\ ToReader(p, a, m) = <<Complains>>
    BY <1>4 DEF Says, ToReader
  <2> QED
    BY <1>1, <1>2, <2>1, HeardNext
<1>5. CASE m.does \notin {"atr", "reset"} /\ ~(m.does = "nonsense" /\ p = "arm")
  <2>1. Says(p, m) = <<>> /\ ToReader(p, a, m) = <<>>
    BY <1>5 DEF Says, ToReader
  <2> QED
    BY <2>1, HeardNext
<1> QED
  BY <1>3, <1>4, <1>5

\* When the driver has performed the line that ends at k.
Told(k) == Given(k) /\ Answered(k) /\ NoQuit(k)

\* A driver that performs what the line ending at k means has served the stream
\* up to k; for a command, all but the reply; at the end of the session, all.
LEMMA Performed ==
  ASSUME port \in {"sim", "arm"}, stream \in Seq(Char), HistInv, NEW k \in 1 .. Len(stream),
         Told(k - 1), Performs(port, Takes(port, stream, k)), UNCHANGED <<port, stream, answer>>
  PROVE  /\ HistInv' /\ pc' \in {"receive", "process", "down"}
         /\ pc' = "receive" => Told(k)'
         /\ pc' = "process" => /\ Given(k)' /\ Answered(k - 1)' /\ NoQuit(k)'
                               /\ Takes(port, stream, k) = [does |-> "command", bytes |-> cmd']
         /\ pc' = "down" => /\ os' = TakenForOs(port, stream)
                            /\ HeardOf(sent') = TakenForReader(port, stream, answer)
<1> DEFINE m == Takes(port, stream, k)
<1>1. m \in TakenSet
  BY TakesType
<1>2. GoodAnswer(answer)
  BY AnswersAreGood DEF HistInv
<1>3. /\ ForOs(port, stream, k) = Cat(ForOs(port, stream, k - 1), ToOs(m))
      /\ ForReader(port, stream, answer, k) =
           Cat(ForReader(port, stream, answer, k - 1), ToReader(port, answer, m))
  BY <1>2, ForNext
<1>4. os = ForOs(port, stream, k - 1) /\ HeardOf(sent) = ForReader(port, stream, answer, k - 1)
  BY DEF Told, Given, Answered
<1>5. \A i \in 1 .. k - 1 : Takes(port, stream, i).does # "quit"
  BY DEF Told, NoQuit
<1>6. k \in Nat /\ \A i \in 1 .. k : i = k \/ i \in 1 .. k - 1
  OBVIOUS
<1>7. ToOs(m) \in Seq(Event)
  BY <1>1, <1>2, GivenType
<1>8. Performs(port, m)
  OBVIOUS
<1> HIDE DEF m
<1>9. os' = ForOs(port, stream, k) /\ os' \in Seq(Event)
  <2>1. os' = Cat(os, ToOs(m))
    BY <1>8 DEF Performs
  <2>2. os \in Seq(Event)
    BY DEF HistInv
  <2>3. Cat(os, ToOs(m)) \in Seq(Event)
    BY <1>7, <2>2 DEF Cat
  <2> QED
    BY <1>3, <1>4, <2>1, <2>3
<1>10. m.does # "quit" => NoQuit(k)'
  <2>1. m.does # "quit" => \A i \in 1 .. k : Takes(port, stream, i).does # "quit"
    BY <1>5, <1>6 DEF m
  <2> QED
    BY <2>1 DEF NoQuit
<1>11. Given(k)'
  BY <1>9 DEF Given
<1>12. sent \in Seq(SentLine) /\ cmd \in Seq(Octet) /\ answer \in Answers
  BY DEF HistInv
<1>13. CASE m.does = "command"
  <2>1. PICK b \in Seq(Octet) : m = [does |-> "command", bytes |-> b]
    <3>1. \A w \in {"nothing", "nonsense", "atr", "reset", "quit"} :
            Means(w).does = w /\ w # "command"
      BY DEF Means
    <3> QED
      BY <1>1, <1>13, <3>1 DEF TakenSet
  <2>2. m.bytes = b
    BY <2>1
  <2>3. cmd' = b /\ pc' = "process" /\ sent' = Cat(sent, Says(port, m))
    BY <1>8, <1>13, <2>2 DEF Performs
  <2>4. Says(port, m) = <<>>
    BY <1>13 DEF Says
  <2>5. sent' = sent
    BY <1>12, <2>3, <2>4 DEF Cat
  <2>6. Answered(k - 1)'
    BY <1>4, <2>5 DEF Answered
  <2>7. HistInv'
    BY <1>9, <1>12, <2>3, <2>5 DEF HistInv
  <2>8. NoQuit(k)'
    BY <1>10, <1>13
  <2> QED
    BY <1>11, <2>1, <2>3, <2>6, <2>7, <2>8 DEF m
<1>14. CASE m.does # "command"
  <2>1. cmd' = cmd /\ pc' = (IF m.does = "quit" THEN "down" ELSE "receive")
        /\ sent' = Cat(sent, Says(port, m))
    BY <1>8, <1>14 DEF Performs
  <2>2. HeardOf(sent') = ForReader(port, stream, answer, k) /\ sent' \in Seq(SentLine)
    <3>1. /\ HeardOf(Cat(sent, Says(port, m))) = Cat(HeardOf(sent), ToReader(port, answer, m))
          /\ Cat(sent, Says(port, m)) \in Seq(SentLine)
      BY <1>1, <1>12, <1>14, HeardSays
    <3> QED
      BY <1>3, <1>4, <2>1, <3>1
  <2>3. HistInv'
    BY <1>9, <1>12, <2>1, <2>2 DEF HistInv
  <2>4. Answered(k)'
    BY <2>2 DEF Answered
  <2>5. CASE m.does # "quit"
    <3>1. pc' = "receive"
      BY <2>1, <2>5
    <3>2. Told(k)'
      BY <1>10, <1>11, <2>4, <2>5 DEF Told
    <3> QED
      BY <2>3, <3>1, <3>2
  <2>6. CASE m.does = "quit"
    <3>1. pc' = "down"
      BY <2>1, <2>6
    <3>2. LastOf(port, stream) = k
      <4>1. k \in 0 .. Len(stream) /\ Takes(port, stream, k).does = "quit"
        BY <2>6 DEF m
      <4> QED
        BY <1>5, <4>1, LastIs
    <3>3. /\ TakenForOs(port, stream) = ForOs(port, stream, k)
          /\ TakenForReader(port, stream, answer) = ForReader(port, stream, answer, k)
      BY <3>2 DEF TakenForOs, TakenForReader, ForOs, ForReader
    <3> QED
      BY <1>9, <2>2, <2>3, <3>1, <3>3
  <2> QED
    BY <2>5, <2>6
<1> QED
  BY <1>13, <1>14

\* A piece of a stream that grows by a character, and a sequence without its
\* last element.
LEMMA PieceGrows ==
  ASSUME NEW s \in Seq(Char), NEW k \in 1 .. Len(s), NEW a \in 1 .. k
  PROVE  /\ SubSeq(s, a, k - 1) \in Seq(Char) /\ Len(SubSeq(s, a, k - 1)) = k - a
         /\ SubSeq(s, a, k) = Append(SubSeq(s, a, k - 1), s[k])
         /\ s[k] \in Char
<1>1. /\ SubSeq(s, a, k - 1) \in Seq(Char) /\ Len(SubSeq(s, a, k - 1)) = k - a
      /\ SubSeq(s, a, k) \in Seq(Char) /\ Len(SubSeq(s, a, k)) = k - a + 1
      /\ s[k] \in Char
  OBVIOUS
<1> DEFINE u == SubSeq(s, a, k)
           v == Append(SubSeq(s, a, k - 1), s[k])
<1>2. /\ v \in Seq(Char) /\ Len(v) = k - a + 1
      /\ \A i \in 1 .. k - a : v[i] = SubSeq(s, a, k - 1)[i]
      /\ v[k - a + 1] = s[k]
  BY <1>1, AppendFacts
<1>3. \A i \in 1 .. k - a + 1 : u[i] = s[a + i - 1]
  OBVIOUS
<1>4. \A i \in 1 .. k - a : SubSeq(s, a, k - 1)[i] = s[a + i - 1]
  OBVIOUS
<1>5. u \in Seq(Char) /\ Len(u) = Len(v)
  BY <1>1, <1>2
<1> HIDE DEF u, v
<1>6. ASSUME NEW i \in 1 .. Len(u) PROVE u[i] = v[i]
  <2>1. i \in 1 .. k - a + 1 /\ (i \in 1 .. k - a \/ i = k - a + 1)
    BY <1>2, <1>5
  <2>2. CASE i \in 1 .. k - a
    BY <1>2, <1>3, <1>4, <2>1, <2>2
  <2>3. CASE i = k - a + 1
    <3>1. a + i - 1 = k
      BY <2>3
    <3> QED
      BY <1>2, <1>3, <2>1, <2>3, <3>1
  <2> QED
    BY <2>1, <2>2, <2>3
<1>7. u = v
  BY <1>2, <1>5, <1>6
<1> QED
  BY <1>1, <1>7 DEF u, v

\* The digits of a line that grows by a character.
LEMMA DigitsOfAppend ==
  ASSUME NEW l \in Seq(Char), NEW c \in Char
  PROVE  /\ DigitsOf(l) \in Seq(Char)
         /\ c \in Space \cup {":"} => DigitsOf(Append(l, c)) = DigitsOf(l)
         /\ c \notin Space \cup {":"} => DigitsOf(Append(l, c)) = Append(DigitsOf(l), c)
<1> DEFINE L == Append(l, c)
           n == Len(l) + 1
<1>1. L \in Seq(Char) /\ Len(L) = n /\ n \in Nat /\ n \in 1 .. Len(L) /\ L[n] = c
  BY AppendFacts
<1>2. SubSeq(L, 1, n) = L /\ SubSeq(L, 1, n - 1) = l
  OBVIOUS
<1> HIDE DEF L, n
<1> QED
  BY <1>1, <1>2, DigitsNext DEF L

\* The state of the UART driver within a line.
Driver == [dec : Dec, text : Seq(Char), seen : Nat, control : Seq(Char), is_control : BOOLEAN]

\* What arm_getc does with one more character of a line.
Getc(ln, c) ==
  LET control == IF ln.seen = 0 THEN c \in {".", "#"} ELSE ln.is_control
  IN [seen |-> ln.seen + 1, text |-> <<>>, is_control |-> control,
      control |-> IF control /\ Len(ln.control) < CONTROL_MAX
                  THEN Append(ln.control, c) ELSE ln.control,
      dec |-> IF control \/ c \in {" ", "\t", ":"} THEN ln.dec ELSE decode(ln.dec, c)]

\* arm_getc keeps its account of the line.
LEMMA GetcKeeps ==
  ASSUME NEW ln \in Driver, NEW l \in Seq(Char), NEW c \in Char, c \notin EndOfLine,
         ArmLine(ln, l), ln.is_control => ln.control # <<>>
  PROVE  ArmLine(Getc(ln, c), Append(l, c))
<1> DEFINE L == Append(l, c)
           g == Getc(ln, c)
           control == IF ln.seen = 0 THEN c \in {".", "#"} ELSE ln.is_control
<1>1. /\ L \in Seq(Char) /\ Len(L) = Len(l) + 1 /\ L # <<>>
      /\ \A i \in 1 .. Len(l) : L[i] = l[i]
      /\ L[Len(l) + 1] = c /\ Len(l) \in Nat
  BY AppendFacts
<1>2. /\ ln.seen = Len(l)
      /\ ln.is_control <=> l # <<>> /\ l[1] \in {".", "#"}
      /\ ln.is_control => /\ ln.control[1] = l[1]
                          /\ Len(ln.control) > 1 <=> Len(l) > 1
                          /\ Len(l) > 1 => ln.control[2] = l[2]
      /\ ~ln.is_control => ln.control = <<>> /\ Decoded(ln.dec, DigitsOf(l))
  BY DEF ArmLine
<1>3. /\ g.seen = ln.seen + 1 /\ g.is_control = control
      /\ g.control = IF control /\ Len(ln.control) < CONTROL_MAX
                     THEN Append(ln.control, c) ELSE ln.control
      /\ g.dec = IF control \/ c \in {" ", "\t", ":"} THEN ln.dec ELSE decode(ln.dec, c)
  BY DEF Getc
<1>4. l = <<>> <=> Len(l) = 0
  OBVIOUS
<1>5. L[1] = IF Len(l) = 0 THEN c ELSE l[1]
  BY <1>1
<1>6. ln.dec \in Dec /\ ln.control \in Seq(Char) /\ ln.is_control \in BOOLEAN
  BY DEF Driver
<1> HIDE DEF L, g
<1>7. control <=> L[1] \in {".", "#"}
  BY <1>2, <1>4, <1>5
<1>8. CASE ~control
  <2>1. ~ln.is_control
    BY <1>2, <1>4, <1>8
  <2>2. g.control = <<>>
    BY <1>2, <1>3, <1>8, <2>1
  <2>3. Decoded(g.dec, DigitsOf(L))
    <3>1. c \in Space \cup {":"} <=> c \in {" ", "\t", ":"}
      BY DEF Space, EndOfLine
    <3>2. DigitsOf(l) \in Seq(Char)
      BY DigitsOfAppend
    <3>3. CASE c \in {" ", "\t", ":"}
      <4>1. DigitsOf(L) = DigitsOf(l)
        BY <3>1, <3>3, DigitsOfAppend DEF L
      <4>2. g.dec = ln.dec
        BY <1>3, <3>3
      <4> QED
        BY <1>2, <2>1, <4>1, <4>2
    <3>4. CASE c \notin {" ", "\t", ":"}
      <4>1. DigitsOf(L) = Append(DigitsOf(l), c)
        BY <3>1, <3>4, DigitsOfAppend DEF L
      <4>2. g.dec = decode(ln.dec, c)
        BY <1>3, <1>8, <3>4
      <4>3. Decoded(decode(ln.dec, c), Append(DigitsOf(l), c))
        BY <1>2, <1>6, <2>1, <3>2, DecodeStep
      <4> QED
        BY <4>1, <4>2, <4>3
    <3> QED
      BY <3>3, <3>4
  <2> HIDE DEF control
  <2> QED
    BY <1>1, <1>2, <1>3, <1>7, <1>8, <2>2, <2>3 DEF ArmLine, L, g
<1>9. CASE control
  <2> DEFINE q == ln.control
             r == Append(ln.control, c)
  <2>1. /\ r \in Seq(Char) /\ Len(r) = Len(q) + 1 /\ Len(q) \in Nat
        /\ \A i \in 1 .. Len(q) : r[i] = q[i]
        /\ r[Len(q) + 1] = c
    BY <1>6, AppendFacts
  <2>2. /\ Len(l) = 0 => q = <<>> /\ Len(q) = 0
        /\ Len(l) > 0 => ln.is_control /\ Len(q) > 0
    <3>1. Len(l) = 0 => ~ln.is_control
      BY <1>2, <1>4
    <3>2. Len(l) > 0 => ln.is_control
      BY <1>2, <1>9
    <3>3. q # <<>> => Len(q) > 0
      BY <1>6
    <3> QED
      BY <1>2, <3>1, <3>2, <3>3
  <2>3. /\ Len(l) > 0 => q[1] = l[1] /\ (Len(q) > 1 <=> Len(l) > 1)
        /\ Len(l) > 1 => q[2] = l[2]
    BY <1>1, <1>2, <2>2
  <2>4. g.control = IF Len(q) < 15 THEN r ELSE q
    BY <1>3, <1>9 DEF CONTROL_MAX
  <2> HIDE DEF q, r, control
  <2>5. CASE Len(l) = 0
    <3>1. g.control = r /\ Len(r) = 1 /\ r[1] = c
      BY <2>1, <2>2, <2>4, <2>5
    <3>2. g.control[1] = L[1] /\ ~(Len(g.control) > 1) /\ ~(Len(L) > 1)
      BY <1>1, <1>5, <2>5, <3>1
    <3> QED
      BY <1>1, <1>2, <1>3, <1>7, <1>9, <3>2 DEF ArmLine, L, g
  <2>6. CASE Len(l) > 0
    <3>1. Len(L) > 1 /\ L[1] = l[1]
      BY <1>1, <1>5, <2>6
    <3>2. Len(g.control) > 1 /\ g.control[1] = l[1] /\ g.control[2] = L[2]
      <4>1. CASE Len(q) < 15
        <5>1. Len(r) > 1 /\ r[1] = q[1]
          BY <2>1, <2>2, <2>6
        <5>2. r[2] = L[2]
          <6>1. CASE Len(l) = 1
            BY <1>1, <2>1, <2>2, <2>3, <6>1
          <6>2. CASE Len(l) > 1
            BY <1>1, <2>1, <2>3, <6>2
          <6>3. Len(l) = 1 \/ Len(l) > 1
            <7>1. \A n \in Nat : n > 0 => n = 1 \/ n > 1
              OBVIOUS
            <7>2. Len(l) \in Nat
              BY <1>1
            <7> QED
              BY <2>6, <7>1, <7>2
          <6> QED
            BY <6>1, <6>2, <6>3
        <5> QED
          BY <2>3, <2>4, <2>6, <4>1, <5>1, <5>2
      <4>2. CASE ~(Len(q) < 15)
        <5>1. Len(q) > 1 /\ Len(l) > 1
          BY <2>1, <2>3, <2>6, <4>2
        <5>2. L[2] = l[2]
          BY <1>1, <5>1
        <5> QED
          BY <2>3, <2>4, <2>6, <4>2, <5>1, <5>2
      <4> QED
        BY <4>1, <4>2
    <3> QED
      BY <1>1, <1>2, <1>3, <1>7, <1>9, <3>1, <3>2 DEF ArmLine, L, g
  <2> QED
    BY <1>1, <2>5, <2>6
<1> QED
  BY <1>8, <1>9

\* Between two lines the UART driver holds nothing.
LEMMA ArmFresh == ArmLine(NoLine, <<>>) /\ NoLine \in Driver
<1>1. /\ NoLine.seen = 0 /\ NoLine.is_control = FALSE /\ NoLine.control = <<>>
      /\ NoLine.dec = NoDigits /\ Len(<<>>) = 0
  BY DEF NoLine
<1>2. DigitsOf(<<>>) = <<>>
  <2>1. <<>> \in Seq(Char) /\ SubSeq(<<>>, 1, 0) = <<>>
    OBVIOUS
  <2> QED
    BY <2>1, DigitsGrow
<1>3. Decoded(NoDigits, DigitsOf(<<>>))
  BY <1>2, DecodedNothing
<1>4. NoLine \in Driver
  <2>1. NoDigits \in Dec
    <3>1. <<>> \in Seq(0 .. 255) /\ Len(<<>>) = 0
      OBVIOUS
    <3> QED
      BY <3>1, Sizes DEF NoDigits, Dec
  <2> QED
    BY <2>1 DEF NoLine, Driver
<1> QED
  BY <1>1, <1>3, <1>4 DEF ArmLine

\* Everything the proof about the streams carries along.
FullInv == WireInv /\ HistInv /\ TakenInv

\* What a stream that has been served up to k keeps when the next characters
\* mean nothing.
LEMMA ToldSkips ==
  ASSUME port \in {"sim", "arm"}, stream \in Seq(Char), HistInv, NEW j \in 0 .. Len(stream),
         NEW k \in 0 .. Len(stream), j <= k, Told(j),
         \A i \in j + 1 .. k : Takes(port, stream, i) = Means("nothing")
  PROVE  Told(k)
<1>1. GoodAnswer(answer)
  BY AnswersAreGood DEF HistInv
<1>2. /\ ForOs(port, stream, k) = ForOs(port, stream, j)
      /\ ForReader(port, stream, answer, k) = ForReader(port, stream, answer, j)
  BY <1>1, ForSkip
<1>3. NoQuit(k)
  <2>1. \A i \in 1 .. j : Takes(port, stream, i).does # "quit"
    BY DEF Told, NoQuit
  <2>2. Means("nothing").does # "quit"
    BY DEF Means
  <2>3. \A i \in 1 .. k : i \in 1 .. j \/ i \in j + 1 .. k
    OBVIOUS
  <2>4. \A i \in 1 .. k : Takes(port, stream, i).does # "quit"
    BY <2>1, <2>2, <2>3
  <2> QED
    BY <2>4 DEF NoQuit
<1> QED
  BY <1>2, <1>3 DEF Told, Given, Answered

\* The stream stays served while the histories do not change.
LEMMA ToldStays ==
  ASSUME NEW k, Told(k), UNCHANGED <<port, stream, answer, os, sent>>
  PROVE  Told(k)'
BY DEF Told, Given, Answered, NoQuit, HeardOf

\* The types of the histories stay while they do not change.
LEMMA HistStays ==
  ASSUME HistInv, UNCHANGED <<cmd, answer, os, sent>>
  PROVE  HistInv'
BY DEF HistInv

\* arm_getc: a character within a line means nothing and is accounted for.
LEMMA ArmGetcTaken == FullInv /\ arm_getc => HistInv' /\ TakenInv'
<1> SUFFICES ASSUME FullInv, arm_getc PROVE HistInv' /\ TakenInv'
  OBVIOUS
<1>0. PICK k : k = pos + 1
  OBVIOUS
<1> DEFINE a == Start("arm", stream, k)
           l == SubSeq(stream, a, k - 1)
           c == stream[k]
<1>1. /\ port = "arm" /\ pc = "receive" /\ pos < Len(stream) /\ c \notin EndOfLine
      /\ pos' = k /\ UNCHANGED <<port, stream, cmd, pc, answer, os, sent>>
      /\ line' = Getc(line, c)
  BY <1>0 DEF arm_getc, Getc
<1>2. /\ stream \in Seq(Char) /\ pos \in 0 .. Len(stream) /\ line \in Driver
      /\ line.is_control => line.control # <<>>
  BY DEF FullInv, WireInv, Driver
<1>3. k \in 1 .. Len(stream) /\ k - 1 = pos /\ k \in 0 .. Len(stream) /\ pos <= k /\ k \in 1 .. Len(stream) + 1
  BY <1>0, <1>1, <1>2
<1>4. Told(pos) /\ ArmLine(line, l) /\ HistInv
  BY <1>0, <1>1, <1>3 DEF FullInv, TakenInv, Told, Between
<1>5. c \notin Ends("arm")
  BY <1>1 DEF Ends, EndOfLine
<1>6. a \in 1 .. k /\ Start("arm", stream, k + 1) = a
  BY <1>2, <1>3, <1>5, StartNext
<1>7. Takes(port, stream, k) = Means("nothing")
  BY <1>1, <1>5 DEF Takes, EndsLine
<1>8. l \in Seq(Char) /\ SubSeq(stream, a, k) = Append(l, c) /\ c \in Char
  BY <1>2, <1>3, <1>6, PieceGrows
<1> HIDE DEF l, c, a
<1>9. ArmLine(line', Append(l, c))
  BY <1>1, <1>2, <1>4, <1>8, GetcKeeps
<1>10. Told(k)
  <2>1. \A i \in pos + 1 .. k : i = k
    BY <1>0, <1>2
  <2> QED
    BY <1>1, <1>2, <1>3, <1>4, <1>7, <2>1, ToldSkips
<1>11. Told(k)'
  BY <1>1, <1>10, ToldStays
<1>12. Between'
  <2>1. SubSeq(stream', Start("arm", stream', pos' + 1), pos') = Append(l, c)
    BY <1>1, <1>6, <1>8
  <2> QED
    BY <1>1, <1>9, <2>1 DEF Between
<1>13. HistInv'
  BY <1>1, <1>4, HistStays
<1>14. Told(pos)'
  <2>1. pos' = k
    BY <1>1
  <2> QED
    BY <1>11, <2>1 DEF Told, Given, Answered, NoQuit
<1>15. pc' = "receive"
  BY <1>1
<1>16. TakenInv'
  BY <1>12, <1>14, <1>15 DEF TakenInv, Told
<1> QED
  BY <1>13, <1>16

\* TakenInv after a step that leaves the driver between two lines.
LEMMA TakenBetween ==
  ASSUME NEW k \in Nat, pos' = k, pc' \in {"receive", "process", "down"},
         pc' # "down" => Between',
         pc' = "receive" => Told(k)',
         pc' = "process" => /\ k > 0 /\ Given(k)' /\ Answered(k - 1)' /\ NoQuit(k)'
                            /\ Takes(port', stream', k) = [does |-> "command", bytes |-> cmd'],
         pc' = "down" => /\ os' = TakenForOs(port', stream')
                         /\ HeardOf(sent') = TakenForReader(port', stream', answer')
  PROVE  TakenInv'
<1>1. CASE pc' = "receive"
  <2>1. Told(pos)'
    BY <1>1 DEF Told, Given, Answered, NoQuit
  <2> QED
    BY <1>1, <2>1 DEF TakenInv, Told
<1>2. CASE pc' = "process"
  <2>1. Given(pos)' /\ Answered(pos - 1)' /\ NoQuit(pos)'
    BY <1>2 DEF Given, Answered, NoQuit
  <2> QED
    BY <1>2, <2>1 DEF TakenInv
<1>3. CASE pc' = "down"
  BY <1>3 DEF TakenInv
<1> QED
  BY <1>1, <1>2, <1>3

\* arm_end_of_line: the line is performed, and nothing of it is left.
LEMMA ArmEndTaken == FullInv /\ arm_end_of_line => HistInv' /\ TakenInv'
<1> SUFFICES ASSUME FullInv, arm_end_of_line PROVE HistInv' /\ TakenInv'
  OBVIOUS
<1>0. PICK k : k = pos + 1
  OBVIOUS
<1> DEFINE a == Start("arm", stream, k)
           l == SubSeq(stream, a, k - 1)
           c == stream[k]
<1>1. /\ port = "arm" /\ pc = "receive" /\ pos < Len(stream) /\ c \in EndOfLine
      /\ pos' = k /\ UNCHANGED <<port, stream, answer>>
      /\ arm_line(line) /\ line' = NoLine
  BY <1>0 DEF arm_end_of_line
<1>2. stream \in Seq(Char) /\ pos \in 0 .. Len(stream) /\ line \in Driver
  BY DEF FullInv, WireInv, Driver
<1>3. k \in 1 .. Len(stream) /\ k - 1 = pos /\ k \in 0 .. Len(stream) /\ k \in Nat /\ k > 0
      /\ k \in 1 .. Len(stream) + 1
  BY <1>0, <1>1, <1>2
<1>4. Told(k - 1) /\ ArmLine(line, l) /\ HistInv
  BY <1>0, <1>1, <1>3 DEF FullInv, TakenInv, Told, Between
<1>5. c \in Ends("arm") /\ c \in Space
  BY <1>1 DEF Ends, EndOfLine, Space
<1>6. a \in 1 .. k /\ Start("arm", stream, k + 1) = k + 1
  BY <1>2, <1>3, <1>5, StartNext
<1>7. l \in Seq(Char) /\ SubSeq(stream, a, k) = Append(l, c) /\ c \in Char
  BY <1>2, <1>3, <1>6, PieceGrows
<1>8. Takes(port, stream, k) = TakesLine("arm", Append(l, c))
  <2>1. LineTo("arm", stream, k) = Append(l, c)
    BY <1>7 DEF LineTo, CutStart
  <2>2. EndsLine("arm", stream, k)
    BY <1>5 DEF EndsLine
  <2> QED
    BY <1>1, <2>1, <2>2 DEF Takes
<1> HIDE DEF l, c, a
<1>9. line.dec \in Dec /\ os \in Seq(Event) /\ sent \in Seq(SentLine)
  BY <1>2, <1>4 DEF Driver, HistInv
<1>10. Performs(port, Takes(port, stream, k))
  BY <1>1, <1>4, <1>5, <1>7, <1>8, <1>9, ArmPerforms
<1>11. /\ HistInv' /\ pc' \in {"receive", "process", "down"}
       /\ pc' = "receive" => Told(k)'
       /\ pc' = "process" => /\ Given(k)' /\ Answered(k - 1)' /\ NoQuit(k)'
                             /\ Takes(port, stream, k) = [does |-> "command", bytes |-> cmd']
       /\ pc' = "down" => /\ os' = TakenForOs(port, stream)
                          /\ HeardOf(sent') = TakenForReader(port, stream, answer)
  <2>1. port \in {"sim", "arm"}
    BY <1>1
  <2> QED
    BY <1>1, <1>2, <1>3, <1>4, <1>10, <2>1, Performed
<1>12. Between'
  <2>1. SubSeq(stream', Start("arm", stream', pos' + 1), pos') = <<>>
    <3>1. SubSeq(stream, k + 1, k) = <<>>
      BY <1>2, <1>3
    <3> QED
      BY <1>1, <1>6, <3>1
  <2> QED
    BY <1>1, <2>1, ArmFresh DEF Between
<1>13. TakenInv'
  <2>1. pos' = k
    BY <1>1
  <2> QED
    BY <1>1, <1>3, <1>11, <1>12, <2>1, TakenBetween
<1> QED
  BY <1>11, <1>13

\* A frame is never the end of the session.
LEMMA FrameGoesOn ==
  ASSUME NEW p, NEW D
  PROVE  TakesFrame(p, D).does # "quit"
<1>1. \A w \in {"nothing", "nonsense"} : Means(w).does # "quit"
  BY DEF Means
<1>2. \A b : [does |-> "command", bytes |-> b].does # "quit"
  OBVIOUS
<1> QED
  BY <1>1, <1>2, FrameIs

\* The turn of the loop in which the simulator starts to decode a line.
LEMMA StartsDecoding ==
  ASSUME NEW t \in Seq(Char), NEW ln, ln = [NoLine EXCEPT !.text = t]
  PROVE  \E n \in 0 .. Len(t) : /\ ln.text = SubSeq(t, n + 1, Len(t))
                                /\ Decoded(ln.dec, DigitsOf(SubSeq(t, 1, n)))
<1>1. ln.text = t /\ ln.dec = NoDigits
  BY DEF NoLine
<1>2. SubSeq(t, 0 + 1, Len(t)) = t /\ 0 \in 0 .. Len(t)
  OBVIOUS
<1>3. Decoded(ln.dec, DigitsOf(SubSeq(t, 1, 0)))
  BY <1>1, DigitsGrow, DecodedNothing
<1> QED
  BY <1>1, <1>2, <1>3

\* sim_receive: fgets stops where a line ends; a control line is performed, and
\* a frame is about to be decoded.
LEMMA SimReceiveTaken == FullInv /\ sim_receive => HistInv' /\ TakenInv'
<1> SUFFICES ASSUME FullInv, sim_receive PROVE HistInv' /\ TakenInv'
  OBVIOUS
<1>0. PICK k : k = pos + fgets_len
  OBVIOUS
<1> DEFINE l == c_string(SubSeq(stream, pos + 1, k))
           m == Takes(port, stream, k)
<1>1. /\ port = "sim" /\ pc = "receive" /\ pos < Len(stream) /\ pos' = k
      /\ sim_line(trim(l)) /\ UNCHANGED <<port, stream, answer>>
  BY <1>0 DEF sim_receive
<1>2. stream \in Seq(Char) /\ pos \in 0 .. Len(stream) /\ Len(stream) \in Nat
  BY DEF FullInv, WireInv
<1>3. Told(pos) /\ line = NoLine /\ Cut(stream, pos) /\ HistInv
  BY <1>1 DEF FullInv, TakenInv, Told, Between
<1>4. /\ k \in 1 .. Len(stream) /\ k \in 0 .. Len(stream) /\ k \in Nat /\ k > 0
      /\ k - 1 \in 0 .. Len(stream) /\ pos <= k - 1
  <2>1. fgets_len \in 1 .. Len(stream) - pos
    BY <1>1, <1>2, FgetsFits
  <2> QED
    BY <1>0, <1>2, <2>1
<1>5. /\ InReach(stream, pos, k) /\ Stops(stream, pos, k)
      /\ \A j \in pos + 1 .. k - 1 : InReach(stream, pos, j) /\ ~Stops(stream, pos, j)
  <2>1. /\ InReach(stream, pos, pos + fgets_len) /\ Stops(stream, pos, pos + fgets_len)
        /\ \A j \in pos + 1 .. pos + fgets_len - 1 :
             InReach(stream, pos, j) /\ ~Stops(stream, pos, j)
    BY <1>1, <1>2, FgetsStops
  <2>2. pos + fgets_len - 1 = k - 1
    <3>1. fgets_len \in 1 .. Len(stream) - pos
      BY <1>1, <1>2, FgetsFits
    <3> QED
      BY <1>0, <1>2, <3>1
  <2> QED
    BY <1>0, <2>1, <2>2, Zenon
<1>6. CutStart("sim", stream, k) = pos + 1 /\ EndsLine("sim", stream, k) /\ Cut(stream, k)
  BY <1>2, <1>3, <1>5, CutFacts
<1>7. \A j \in pos + 1 .. k - 1 : Takes(port, stream, j) = Means("nothing")
  <2> SUFFICES ASSUME NEW j \in pos + 1 .. k - 1 PROVE Takes(port, stream, j) = Means("nothing")
    OBVIOUS
  <2>1. ~EndsLine("sim", stream, j)
    BY <1>2, <1>3, <1>5, CutFacts
  <2> QED
    BY <1>1, <2>1 DEF Takes
<1>8. Told(k - 1)
  BY <1>1, <1>2, <1>3, <1>4, <1>7, ToldSkips
<1>9. l = LineTo("sim", stream, k) /\ l \in Seq(Char) /\ m = TakesLine("sim", l)
  <2>1. l = LineTo("sim", stream, k)
    BY <1>6 DEF LineTo
  <2>2. l \in Seq(Char)
    BY <1>2, <1>4, <2>1, TakesType
  <2> QED
    BY <1>1, <1>6, <2>1, <2>2 DEF Takes
<1> HIDE DEF l, m
<1>10. os \in Seq(Event) /\ sent \in Seq(SentLine)
  BY <1>3 DEF HistInv
<1>11. \/ Performs("sim", m) /\ UNCHANGED line
       \/ /\ pc' = "decode" /\ line' = [NoLine EXCEPT !.text = trim(l)]
          /\ UNCHANGED <<cmd, os, sent>>
          /\ m = TakesFrame("sim", DigitsOf(trim(l)))
  BY <1>1, <1>9, <1>10, SimPerforms
<1>12. CASE Performs("sim", m) /\ UNCHANGED line
  <2>1. Performs(port, Takes(port, stream, k)) /\ port \in {"sim", "arm"}
    BY <1>1, <1>12 DEF m
  <2>2. /\ HistInv' /\ pc' \in {"receive", "process", "down"}
        /\ pc' = "receive" => Told(k)'
        /\ pc' = "process" => /\ Given(k)' /\ Answered(k - 1)' /\ NoQuit(k)'
                              /\ Takes(port, stream, k) = [does |-> "command", bytes |-> cmd']
        /\ pc' = "down" => /\ os' = TakenForOs(port, stream)
                           /\ HeardOf(sent') = TakenForReader(port, stream, answer)
    BY <1>1, <1>2, <1>3, <1>4, <1>8, <2>1, Performed
  <2>3. Between'
    BY <1>1, <1>3, <1>6, <1>12 DEF Between
  <2>4. TakenInv'
    BY <1>1, <1>4, <2>2, <2>3, TakenBetween
  <2> QED
    BY <2>2, <2>4
<1>13. CASE /\ pc' = "decode" /\ line' = [NoLine EXCEPT !.text = trim(l)]
            /\ UNCHANGED <<cmd, os, sent>>
            /\ m = TakesFrame("sim", DigitsOf(trim(l)))
  <2>1. HistInv'
    BY <1>1, <1>3, <1>13, HistStays
  <2>2. Told(k - 1)'
    BY <1>1, <1>8, <1>13, ToldStays
  <2>3. NoQuit(k)'
    <3>1. m.does # "quit"
      BY <1>13, FrameGoesOn
    <3>2. \A i \in 1 .. k - 1 : Takes(port, stream, i).does # "quit"
      BY <1>8 DEF Told, NoQuit
    <3>3. \A i \in 1 .. k : i = k \/ i \in 1 .. k - 1
      BY <1>4
    <3>4. \A i \in 1 .. k : Takes(port, stream, i).does # "quit"
      BY <3>1, <3>2, <3>3 DEF m
    <3> QED
      BY <1>1, <3>4 DEF NoQuit
  <2>4. Given(pos - 1)' /\ Answered(pos - 1)' /\ NoQuit(pos)'
    BY <1>1, <2>2, <2>3 DEF Told, Given, Answered, NoQuit
  <2>5. Decoding'
    <3>1. trim(l) \in Seq(Char)
      BY <1>9, TrimFits
    <3>2. \E n \in 0 .. Len(trim(l)) : /\ line'.text = SubSeq(trim(l), n + 1, Len(trim(l)))
                                       /\ Decoded(line'.dec, DigitsOf(SubSeq(trim(l), 1, n)))
      BY <1>13, <3>1, StartsDecoding
    <3>3. LineTo("sim", stream', pos') = l
      BY <1>1, <1>9
    <3>4. TakesLine("sim", l) = TakesFrame("sim", DigitsOf(trim(l)))
      BY <1>9, <1>13
    <3>5. port' = "sim" /\ pos' > 0 /\ Cut(stream', pos') /\ EndsLine("sim", stream', pos')
      BY <1>1, <1>4, <1>6
    <3> QED
      BY <3>2, <3>3, <3>4, <3>5 DEF Decoding
  <2>6. TakenInv'
    BY <1>13, <2>4, <2>5 DEF TakenInv
  <2> QED
    BY <2>1, <2>6
<1> QED
  BY <1>11, <1>12, <1>13

\* What is left of a text when the decoder takes its next character.
LEMMA TextShrinks ==
  ASSUME NEW t \in Seq(Char), NEW n \in 0 .. Len(t)
  PROVE  LET u == SubSeq(t, n + 1, Len(t))
         IN /\ u = <<>> <=> n = Len(t)
            /\ u # <<>> => /\ n + 1 \in 1 .. Len(t) /\ Head(u) = t[n + 1]
                           /\ Tail(u) = SubSeq(t, n + 2, Len(t))
<1> DEFINE u == SubSeq(t, n + 1, Len(t))
<1>1. u \in Seq(Char) /\ Len(u) = Len(t) - n /\ \A i \in 1 .. Len(t) - n : u[i] = t[n + i]
  OBVIOUS
<1>2. u = <<>> <=> Len(u) = 0
  BY <1>1
<1>3. ASSUME u # <<>>
      PROVE  /\ n + 1 \in 1 .. Len(t) /\ Head(u) = t[n + 1]
             /\ Tail(u) = SubSeq(t, n + 2, Len(t))
  <2>1. n + 1 \in 1 .. Len(t) /\ 1 \in 1 .. Len(t) - n
    BY <1>1, <1>2, <1>3
  <2>2. Head(u) = u[1]
    BY <1>1, <1>3
  <2> DEFINE v == Tail(u)
             w == SubSeq(t, n + 2, Len(t))
  <2>3. v \in Seq(Char) /\ Len(v) = Len(u) - 1 /\ \A i \in 1 .. Len(u) - 1 : v[i] = u[i + 1]
    BY <1>1, <1>3
  <2>4. w \in Seq(Char) /\ Len(w) = Len(t) - n - 1
        /\ \A i \in 1 .. Len(t) - n - 1 : w[i] = t[n + 1 + i]
    BY <2>1
  <2> HIDE DEF u, v, w
  <2>5. Len(v) = Len(w) /\ \A i \in 1 .. Len(v) : v[i] = w[i]
    <3>1. Len(v) = Len(w) /\ Len(v) = Len(t) - n - 1
      BY <1>1, <2>3, <2>4
    <3> SUFFICES ASSUME NEW i \in 1 .. Len(t) - n - 1 PROVE v[i] = w[i]
      BY <3>1
    <3>2. i + 1 \in 1 .. Len(t) - n /\ i \in 1 .. Len(u) - 1 /\ n + (i + 1) = n + 1 + i
      BY <1>1
    <3>3. v[i] = u[i + 1] /\ u[i + 1] = t[n + (i + 1)]
      BY <1>1, <2>3, <3>2
    <3> QED
      BY <2>4, <3>2, <3>3
  <2>6. v = w
    <3>1. v \in Seq(Char) /\ w \in Seq(Char)
      BY <2>3, <2>4, Zenon
    <3> QED
      BY <2>5, <3>1
  <2> QED
    BY <1>1, <2>1, <2>2, <2>6 DEF v, w
<1> HIDE DEF u
<1>4. u = <<>> <=> n = Len(t)
  BY <1>1, <1>2
<1> QED
  BY <1>3, <1>4 DEF u

\* A character that the decoder is given.
Taken(d, c) == IF c \in Space \cup {":"} THEN d ELSE decode(d, c)

\* A turn of the loop in hex_decode accounts for one character.
LEMMA TakenDecodes ==
  ASSUME NEW t \in Seq(Char), NEW n \in 1 .. Len(t), NEW d \in Dec,
         Decoded(d, DigitsOf(SubSeq(t, 1, n - 1)))
  PROVE  Decoded(Taken(d, t[n]), DigitsOf(SubSeq(t, 1, n)))
<1>1. t[n] \in Char
  OBVIOUS
<1>2. CASE t[n] \in Space \cup {":"}
  BY <1>2, DigitsNext DEF Taken
<1>3. CASE t[n] \notin Space \cup {":"}
  <2>1. /\ DigitsOf(SubSeq(t, 1, n - 1)) \in Seq(Char)
        /\ DigitsOf(SubSeq(t, 1, n)) = Append(DigitsOf(SubSeq(t, 1, n - 1)), t[n])
    BY <1>3, DigitsNext
  <2>2. Taken(d, t[n]) = decode(d, t[n])
    BY <1>3 DEF Taken
  <2> QED
    BY <1>1, <2>1, <2>2, DecodeStep
<1> QED
  BY <1>2, <1>3

\* hex_decode: a turn of the loop gives nothing to anyone.
LEMMA HexDecodeTaken == FullInv /\ hex_decode => HistInv' /\ TakenInv'
<1> SUFFICES ASSUME FullInv, hex_decode PROVE HistInv' /\ TakenInv'
  OBVIOUS
<1> DEFINE l == LineTo("sim", stream, pos)
           t == trim(l)
<1>1. /\ pc = "decode" /\ line.text # <<>>
      /\ UNCHANGED <<port, stream, pos, cmd, pc, answer, os, sent>>
      /\ line' = [line EXCEPT !.text = Tail(line.text), !.dec = Taken(line.dec, Head(line.text))]
  BY DEF hex_decode, Taken
<1>2. stream \in Seq(Char) /\ pos \in 0 .. Len(stream) /\ line \in Driver
  BY DEF FullInv, WireInv, Driver
<1>3. HistInv /\ NoQuit(pos) /\ Given(pos - 1) /\ Answered(pos - 1) /\ Decoding
  BY <1>1 DEF FullInv, TakenInv
<1>4. /\ port = "sim" /\ pos > 0 /\ Cut(stream, pos) /\ EndsLine("sim", stream, pos)
      /\ TakesLine("sim", l) = TakesFrame("sim", DigitsOf(t))
  BY <1>3 DEF Decoding
<1>5. PICK n \in 0 .. Len(t) : /\ line.text = SubSeq(t, n + 1, Len(t))
                               /\ Decoded(line.dec, DigitsOf(SubSeq(t, 1, n)))
  BY <1>3 DEF Decoding
<1>6. l \in Seq(Char) /\ t \in Seq(Char)
  <2>1. pos \in 1 .. Len(stream)
    BY <1>2, <1>4
  <2>2. l \in Seq(Char)
    BY <1>2, <2>1, TakesType
  <2> QED
    BY <2>2, TrimFits
<1>7. line'.text = Tail(line.text) /\ line'.dec = Taken(line.dec, Head(line.text))
  BY <1>1, <1>2 DEF Driver
<1>8. line.dec \in Dec
  BY <1>2 DEF Driver
<1> HIDE DEF l, t
<1>9. /\ n + 1 \in 1 .. Len(t) /\ Head(line.text) = t[n + 1]
      /\ Tail(line.text) = SubSeq(t, n + 2, Len(t))
  BY <1>1, <1>5, <1>6, TextShrinks
<1>10. PICK j : j = n + 1
  OBVIOUS
<1>11. j \in 1 .. Len(t) /\ j \in 0 .. Len(t) /\ n = j - 1 /\ n + 2 = j + 1
  BY <1>9, <1>10
<1>12. /\ line'.text = SubSeq(t, j + 1, Len(t))
       /\ Decoded(line'.dec, DigitsOf(SubSeq(t, 1, j)))
  <2>1. line'.dec = Taken(line.dec, t[j])
    BY <1>7, <1>9, <1>10
  <2>2. Decoded(line.dec, DigitsOf(SubSeq(t, 1, j - 1)))
    BY <1>5, <1>11
  <2>3. Decoded(line'.dec, DigitsOf(SubSeq(t, 1, j)))
    BY <1>6, <1>8, <1>11, <2>1, <2>2, TakenDecodes
  <2> QED
    BY <1>7, <1>9, <1>11, <2>3
<1>13. Decoding'
  <2>1. /\ LineTo("sim", stream', pos') = l
        /\ port' = "sim" /\ pos' > 0 /\ Cut(stream', pos') /\ EndsLine("sim", stream', pos')
    BY <1>1, <1>4 DEF l
  <2>2. trim(l) = t
    BY DEF t
  <2> QED
    BY <1>4, <1>11, <1>12, <2>1, <2>2 DEF Decoding
<1>14. NoQuit(pos)' /\ Given(pos - 1)' /\ Answered(pos - 1)'
  BY <1>1, <1>3 DEF NoQuit, Given, Answered, HeardOf
<1>15. HistInv'
  BY <1>1, <1>3, HistStays
<1>16. TakenInv'
  BY <1>1, <1>13, <1>14 DEF TakenInv
<1> QED
  BY <1>15, <1>16

\* What the decoder has when it stops, at the end of the text or at the first bad
\* character: the frame, or the certainty that the line is none.
LEMMA StoppedMeans ==
  ASSUME NEW t \in Seq(Char), NEW n \in 0 .. Len(t), NEW d \in Dec,
         Decoded(d, DigitsOf(SubSeq(t, 1, n))), n = Len(t) \/ d.bad
  PROVE  /\ d.bad \/ d.hi >= 0 <=> ~GoodFrame(DigitsOf(t))
         /\ GoodFrame(DigitsOf(t)) => d.buf = BytesOf(DigitsOf(t))
<1> DEFINE D == DigitsOf(SubSeq(t, 1, n))
           E == DigitsOf(t)
<1>1. /\ D \in Seq(Char) /\ E \in Seq(Char) /\ Len(D) <= Len(E)
      /\ \A i \in 1 .. Len(D) : E[i] = D[i]
  BY DigitsPrefix
<1>2. CASE n = Len(t)
  <2>1. SubSeq(t, 1, n) = t
    BY <1>2
  <2> QED
    BY <1>1, <2>1, DecodedMeans
<1>3. CASE d.bad
  <2>1. Decoded(d, D)
    OBVIOUS
  <2> HIDE DEF D, E
  <2>2. ~(AllHex(D) /\ Len(D) <= 2 * CMD_MAX + 1)
    BY <1>3, <2>1 DEF Decoded
  <2>3. AllHex(E) => AllHex(D)
    BY <1>1 DEF AllHex
  <2>4. Len(E) <= 2 * CMD_MAX => Len(D) <= 2 * CMD_MAX + 1
    BY <1>1, Sizes
  <2>5. ~GoodFrame(E)
    BY <2>2, <2>3, <2>4 DEF GoodFrame
  <2> QED
    BY <1>3, <2>5 DEF E
<1> QED
  BY <1>2, <1>3

\* hex_decoded: the frame is performed, and nothing of it is left.
LEMMA HexDecodedTaken == FullInv /\ hex_decoded => HistInv' /\ TakenInv'
<1> SUFFICES ASSUME FullInv, hex_decoded PROVE HistInv' /\ TakenInv'
  OBVIOUS
<1>0. PICK k : k = pos
  OBVIOUS
<1> DEFINE l == LineTo("sim", stream, k)
           t == trim(l)
           D == DigitsOf(t)
<1>1. /\ pc = "decode" /\ (line.text = <<>> \/ line.dec.bad)
      /\ IF line.dec.bad \/ line.dec.hi >= 0 THEN pc' = "receive" /\ UNCHANGED <<cmd, os, sent>>
         ELSE received(line.dec.buf)
      /\ line' = NoLine /\ pos' = k /\ UNCHANGED <<port, stream, answer>>
  BY <1>0 DEF hex_decoded
<1>2. stream \in Seq(Char) /\ pos \in 0 .. Len(stream) /\ line \in Driver
  BY DEF FullInv, WireInv, Driver
<1>3. HistInv /\ NoQuit(k) /\ Given(k - 1) /\ Answered(k - 1) /\ Decoding
  <2>1. HistInv /\ NoQuit(pos) /\ Given(pos - 1) /\ Answered(pos - 1) /\ Decoding
    BY <1>1 DEF FullInv, TakenInv
  <2> QED
    BY <1>0, <2>1, Zenon
<1>4. /\ port = "sim" /\ k > 0 /\ Cut(stream, k) /\ EndsLine("sim", stream, k)
      /\ TakesLine("sim", l) = TakesFrame("sim", D)
  BY <1>0, <1>3 DEF Decoding
<1>5. PICK n \in 0 .. Len(t) : /\ line.text = SubSeq(t, n + 1, Len(t))
                               /\ Decoded(line.dec, DigitsOf(SubSeq(t, 1, n)))
  BY <1>0, <1>3 DEF Decoding
<1>6. k \in 1 .. Len(stream) /\ k \in Nat /\ l \in Seq(Char) /\ t \in Seq(Char)
  <2>1. k \in 1 .. Len(stream)
    BY <1>0, <1>2, <1>4
  <2>2. l \in Seq(Char)
    BY <1>2, <2>1, TakesType
  <2> QED
    BY <2>1, <2>2, TrimFits
<1>7. Told(k - 1)
  <2>1. \A i \in 1 .. k - 1 : i \in 1 .. k
    BY <1>6
  <2>2. NoQuit(k - 1)
    BY <1>3, <2>1 DEF NoQuit
  <2> QED
    BY <1>3, <2>2 DEF Told
<1>8. line.dec \in Dec
  BY <1>2 DEF Driver
<1>9. Takes(port, stream, k) = TakesFrame("sim", D)
  BY <1>4 DEF Takes
<1> HIDE DEF l, t
<1>10. n = Len(t) \/ line.dec.bad
  BY <1>1, <1>5, <1>6, TextShrinks
<1>11. /\ line.dec.bad \/ line.dec.hi >= 0 <=> ~GoodFrame(D)
       /\ GoodFrame(D) => line.dec.buf = BytesOf(D)
  BY <1>5, <1>6, <1>8, <1>10, StoppedMeans
<1> HIDE DEF D
<1>12. TakesFrame("sim", D) = IF GoodFrame(D) THEN [does |-> "command", bytes |-> BytesOf(D)]
                                ELSE Means("nonsense")
  BY FrameIs
<1>13. os \in Seq(Event) /\ sent \in Seq(SentLine)
  BY <1>3 DEF HistInv
<1>14. Performs(port, Takes(port, stream, k))
  <2>1. CASE GoodFrame(D)
    <3>1. received(BytesOf(D))
      BY <1>1, <1>11, <2>1
    <3>2. Performs("sim", [does |-> "command", bytes |-> BytesOf(D)])
      BY <1>13, <3>1, Performing
    <3> QED
      BY <1>4, <1>9, <1>12, <2>1, <3>2
  <2>2. CASE ~GoodFrame(D)
    <3>1. pc' = "receive" /\ UNCHANGED <<cmd, os, sent>>
      BY <1>1, <1>11, <2>2
    <3>2. Performs("sim", Means("nonsense"))
      BY <1>13, <3>1, Performing
    <3> QED
      BY <1>4, <1>9, <1>12, <2>2, <3>2
  <2> QED
    BY <2>1, <2>2
<1>15. /\ HistInv' /\ pc' \in {"receive", "process", "down"}
       /\ pc' = "receive" => Told(k)'
       /\ pc' = "process" => /\ Given(k)' /\ Answered(k - 1)' /\ NoQuit(k)'
                             /\ Takes(port, stream, k) = [does |-> "command", bytes |-> cmd']
       /\ pc' = "down" => /\ os' = TakenForOs(port, stream)
                          /\ HeardOf(sent') = TakenForReader(port, stream, answer)
  <2>1. port \in {"sim", "arm"}
    BY <1>4
  <2> QED
    BY <1>1, <1>2, <1>3, <1>6, <1>7, <1>14, <2>1, Performed
<1>16. Between'
  BY <1>1, <1>4 DEF Between
<1>17. TakenInv'
  BY <1>1, <1>4, <1>6, <1>15, <1>16, TakenBetween
<1> QED
  BY <1>15, <1>17

\* The session ends with the stream when no line has ended it.
LEMMA EndOfStream ==
  ASSUME port \in {"sim", "arm"}, stream \in Seq(Char), Told(Len(stream))
  PROVE  /\ os = TakenForOs(port, stream)
         /\ HeardOf(sent) = TakenForReader(port, stream, answer)
<1>1. PICK k : k = Len(stream)
  OBVIOUS
<1>2. k \in 0 .. Len(stream) /\ k \in Nat /\ \A i \in 1 .. k - 1 : i \in 1 .. k
  BY <1>1
<1>3. \A i \in 1 .. k : Takes(port, stream, i).does # "quit"
  BY <1>1 DEF Told, NoQuit
<1>4. LastOf(port, stream) = k
  BY <1>1, <1>2, <1>3, LastIs
<1>5. /\ TakenForOs(port, stream) = ForOs(port, stream, k)
      /\ TakenForReader(port, stream, answer) = ForReader(port, stream, answer, k)
  BY <1>4 DEF TakenForOs, TakenForReader, ForOs, ForReader
<1> QED
  BY <1>1, <1>5 DEF Told, Given, Answered

\* sim_eof: all of the stream has been served.
LEMMA SimEofTaken == FullInv /\ sim_eof => HistInv' /\ TakenInv'
<1> SUFFICES ASSUME FullInv, sim_eof PROVE HistInv' /\ TakenInv'
  OBVIOUS
<1>1. /\ port = "sim" /\ pc = "receive" /\ pos = Len(stream) /\ pc' = "down"
      /\ UNCHANGED <<cmd, os, sent, port, stream, answer>>
  BY DEF sim_eof, link_is_down
<1>2. stream \in Seq(Char) /\ Told(Len(stream)) /\ HistInv
  BY <1>1 DEF FullInv, WireInv, TakenInv, Told
<1>3. /\ os = TakenForOs(port, stream)
      /\ HeardOf(sent) = TakenForReader(port, stream, answer)
  BY <1>1, <1>2, EndOfStream
<1>4. TakenInv'
  BY <1>1, <1>3 DEF TakenInv
<1> QED
  BY <1>1, <1>2, <1>4, HistStays

\* process: the reply to the command is sent, and the stream is served up to pos.
LEMMA ProcessTaken == FullInv /\ process => HistInv' /\ TakenInv'
<1> SUFFICES ASSUME FullInv, process PROVE HistInv' /\ TakenInv'
  OBVIOUS
<1>1. /\ pc = "process" /\ pc' = "receive" /\ sent' = Append(sent, hex_line(response))
      /\ UNCHANGED <<port, stream, pos, line, cmd, answer, os>>
  BY DEF process
<1>2. stream \in Seq(Char) /\ pos \in 0 .. Len(stream) /\ port \in {"sim", "arm"}
  BY DEF FullInv, WireInv
<1>3. /\ HistInv /\ NoQuit(pos) /\ Given(pos) /\ Answered(pos - 1) /\ Between
      /\ pos > 0 /\ Takes(port, stream, pos) = [does |-> "command", bytes |-> cmd]
  BY <1>1 DEF FullInv, TakenInv
<1>4. /\ os \in Seq(Event) /\ sent \in Seq(SentLine) /\ cmd \in Seq(Octet) /\ answer \in Answers
      /\ GoodAnswer(answer)
  BY <1>3, AnswersAreGood DEF HistInv
<1>5. response = Reply(answer, cmd) /\ response \in Seq(Octet)
  BY <1>4, ReplyIs DEF GoodAnswer
<1>6. hex_line(response) \in SentLine /\ Heard(hex_line(response)) = Bytes(Reply(answer, cmd))
  BY <1>5, HexLineDecodes DEF SentLine
<1>7. sent' = Cat(sent, <<hex_line(response)>>)
  BY <1>1, <1>4, <1>6 DEF Cat
<1>8. HeardOf(sent') = Cat(HeardOf(sent), <<Bytes(Reply(answer, cmd))>>) /\ sent' \in Seq(SentLine)
  BY <1>4, <1>6, <1>7, HeardNext
<1>9. ToReader(port, answer, Takes(port, stream, pos)) = <<Bytes(Reply(answer, cmd))>>
  <2>1. Takes(port, stream, pos).does = "command" /\ Takes(port, stream, pos).bytes = cmd
    BY <1>3
  <2> QED
    BY <2>1 DEF ToReader
<1>10. pos \in 1 .. Len(stream)
  BY <1>2, <1>3
<1>11. HeardOf(sent') = ForReader(port, stream, answer, pos)
  <2>1. ForReader(port, stream, answer, pos) =
          Cat(ForReader(port, stream, answer, pos - 1),
              ToReader(port, answer, Takes(port, stream, pos)))
    BY <1>2, <1>4, <1>10, ForNext
  <2>2. HeardOf(sent) = ForReader(port, stream, answer, pos - 1)
    BY <1>3 DEF Answered
  <2> QED
    BY <1>8, <1>9, <2>1, <2>2
<1>12. Given(pos)' /\ Answered(pos)' /\ NoQuit(pos)' /\ Between'
  BY <1>1, <1>3, <1>11 DEF Given, Answered, NoQuit, Between
<1>13. HistInv'
  BY <1>1, <1>4, <1>8 DEF HistInv
<1>14. TakenInv'
  BY <1>1, <1>12 DEF TakenInv
<1> QED
  BY <1>13, <1>14

\* Nothing is given or sent at the start.
LEMMA TakenInit == Init => HistInv /\ TakenInv
<1> SUFFICES ASSUME Init PROVE HistInv /\ TakenInv
  OBVIOUS
<1>1. /\ port \in {"sim", "arm"} /\ answer \in Answers /\ pos = 0 /\ line = NoLine
      /\ cmd = <<>> /\ pc = "receive" /\ os = <<>> /\ sent = <<>>
  BY DEF Init
<1>2. stream \in Seq(Char)
  BY InvInit DEF WireInv
<1>3. GoodAnswer(answer)
  BY <1>1, AnswersAreGood
<1>4. ForOs(port, stream, 0) = <<>> /\ ForReader(port, stream, answer, 0) = <<>>
  BY <1>1, <1>2, <1>3, ForNone
<1>5. HistInv
  BY <1>1 DEF HistInv
<1>6. HeardOf(<<>>) = <<>>
  BY DEF HeardOf
<1>7. Given(0) /\ Answered(0) /\ NoQuit(0)
  BY <1>1, <1>4, <1>6 DEF Given, Answered, NoQuit
<1>8. Between
  <2>1. CASE port = "sim"
    BY <1>1, <1>2, <2>1, CutFirst DEF Between
  <2>2. CASE port = "arm"
    <3>1. Start("arm", stream, 0 + 1) = 1
      BY <1>2, StartNext
    <3>2. SubSeq(stream, 1, 0) = <<>>
      BY <1>2
    <3> QED
      BY <1>1, <2>2, <3>1, <3>2, ArmFresh DEF Between
  <2> QED
    BY <1>1, <2>1, <2>2
<1>9. TakenInv
  BY <1>1, <1>7, <1>8 DEF TakenInv
<1> QED
  BY <1>5, <1>9

\* The strengthened invariant holds in every behaviour of both ports: TakenInv with
\* the types of the histories and of the driver (hal_card_receive on both ports,
\* scos_card_loop, scos_process, hal_card_send).
THEOREM TakenInvariance == Spec => []FullInv
<1>1. Init => FullInv
  BY InvInit, TakenInit DEF FullInv
<1>2. FullInv /\ WireInv' /\ [Next]_vars => FullInv'
  <2> SUFFICES ASSUME FullInv, WireInv', [Next]_vars PROVE HistInv' /\ TakenInv'
    BY DEF FullInv
  <2>1. CASE sim_receive BY <2>1, SimReceiveTaken
  <2>2. CASE hex_decode BY <2>2, HexDecodeTaken
  <2>3. CASE hex_decoded BY <2>3, HexDecodedTaken
  <2>4. CASE sim_eof BY <2>4, SimEofTaken
  <2>5. CASE arm_getc BY <2>5, ArmGetcTaken
  <2>6. CASE arm_end_of_line BY <2>6, ArmEndTaken
  <2>7. CASE process BY <2>7, ProcessTaken
  <2>8. CASE UNCHANGED vars
    <3>1. HistInv /\ TakenInv
      BY DEF FullInv
    <3>2. /\ port' = port /\ stream' = stream /\ pos' = pos /\ line' = line /\ cmd' = cmd
          /\ pc' = pc /\ answer' = answer /\ os' = os /\ sent' = sent
      BY <2>8 DEF vars
    <3> QED
      BY <3>1, <3>2 DEF HistInv, TakenInv, NoQuit, Given, Answered, HeardOf, Between, Decoding
  <2> QED
    BY <2>1, <2>2, <2>3, <2>4, <2>5, <2>6, <2>7, <2>8 DEF Next
<1>3. Spec => []WireInv
  BY WireInvariance
<1> QED
  BY <1>1, <1>2, <1>3, PTL DEF Spec

\* After every line what was handed up and sent is what the driver takes the lines so
\* far for, and within a line the driver holds what it has read of it and nothing of
\* the line before (hal_card_receive on both ports).
THEOREM LinesHeldAsTaken == Spec => []TakenInv
BY TakenInvariance, PTL DEF FullInv

-----------------------------------------------------------------------------
\* Both drivers take the words of the protocol for what they mean, and no word that
\* neither takes for one: the simulator has .exit besides, and the UART driver goes
\* by the initials.
LEMMA PlainControl ==
  ASSUME NEW p \in {"sim", "arm"}, NEW w \in Seq(Char), w # <<>>,
         \/ ControlMeaning(w).does # "nonsense"
         \/ Len(w) = 1
         \/ w[2] \notin {"a", "r", "q"} /\ w # <<".", "e", "x", "i", "t">>
  PROVE  TakesControl(p, w) = ControlMeaning(w)
<1> DEFINE atr == <<".", "a", "t", "r">>
           reset == <<".", "r", "e", "s", "e", "t">>
           quit == <<".", "q", "u", "i", "t">>
           exit == <<".", "e", "x", "i", "t">>
           is(word) == IF p = "sim" THEN w = word ELSE Len(w) > 1 /\ w[2] = word[2]
<1>1. TakesControl(p, w) = IF is(atr) THEN Means("atr")
                           ELSE IF is(reset) THEN Means("reset")
                           ELSE IF is(quit) \/ (p = "sim" /\ w = exit) THEN Means("quit")
                           ELSE Means("nonsense")
  BY DEF TakesControl
<1>2. ControlMeaning(w) = IF w = atr THEN Means("atr")
                          ELSE IF w = reset THEN Means("reset")
                          ELSE IF w = quit THEN Means("quit")
                          ELSE Means("nonsense")
  BY DEF ControlMeaning
<1>3. /\ atr[2] = "a" /\ reset[2] = "r" /\ quit[2] = "q" /\ exit[2] = "e"
      /\ Len(atr) = 4 /\ Len(reset) = 6 /\ Len(quit) = 5 /\ Len(exit) = 5
  OBVIOUS
<1>4. Means("nonsense").does = "nonsense"
  BY DEF Means
<1> HIDE DEF atr, reset, quit, exit
<1>5. CASE w \in {atr, reset, quit}
  <2>1. is(atr) <=> w = atr
    BY <1>3, <1>5
  <2>2. is(reset) <=> w = reset
    BY <1>3, <1>5
  <2>3. is(quit) <=> w = quit
    BY <1>3, <1>5
  <2>4. w # exit
    BY <1>3, <1>5
  <2> HIDE DEF is
  <2> QED
    BY <1>1, <1>2, <2>1, <2>2, <2>3, <2>4
<1>6. CASE w \notin {atr, reset, quit}
  <2>1. ControlMeaning(w) = Means("nonsense")
    BY <1>2, <1>6
  <2>2. Len(w) = 1 \/ (w[2] \notin {"a", "r", "q"} /\ w # exit)
    BY <1>4, <2>1 DEF exit
  <2>3. w # exit
    BY <1>3, <2>2
  <2>4. CASE p = "sim"
    BY <1>1, <1>6, <2>1, <2>3, <2>4
  <2>5. CASE p = "arm"
    <3>1. ~(Len(w) > 1) \/ w[2] \notin {"a", "r", "q"}
      BY <2>2
    <3>2. ~is(atr) /\ ~is(reset) /\ ~is(quit)
      BY <1>3, <2>5, <3>1
    <3> HIDE DEF is
    <3> QED
      BY <1>1, <2>1, <2>3, <3>2
  <2> QED
    BY <2>4, <2>5
<1> QED
  BY <1>5, <1>6

\* A number below the divisor.
LEMMA SmallRemainder ==
  ASSUME NEW m \in Nat \ {0}, NEW a \in 0 .. m - 1
  PROVE  a % m = a /\ a \div m = 0
OBVIOUS

\* Both drivers take a plain line for what it means.
LEMMA PlainLineAsMeant ==
  ASSUME NEW p \in {"sim", "arm"}, NEW l \in Seq(Char), l # <<>>, PlainLine(l)
  PROVE  TakesLine(p, l) = LineMeaning(l)
<1> DEFINE w == trim(l)
<1>1. /\ w \in Seq(Char) /\ Len(w) <= Len(l) /\ \A i \in 1 .. Len(w) : w[i] = l[i]
      /\ \A i \in Len(w) + 1 .. Len(l) : l[i] \in Space
  BY TrimIs DEF Trims
<1>2. 1 \in 1 .. Len(l) /\ Len(l) \in Nat
  OBVIOUS
<1>3. w = <<>> => l[1] \in Space
  <2>1. w = <<>> => 1 \in Len(w) + 1 .. Len(l)
    BY <1>1, <1>2
  <2> QED
    BY <1>1, <2>1
<1>4. w # <<>> => w[1] = l[1] /\ Len(w) >= 1
  BY <1>1
<1>5. w = <<>> => DigitsOf(l) = <<>>
  <2>1. DigitsOf(w) = DigitsOf(l)
    BY DigitsTrim
  <2>2. DigitsOf(<<>>) = <<>>
    <3>1. SubSeq(l, 1, 0) = <<>>
      OBVIOUS
    <3> QED
      BY <3>1, DigitsGrow
  <2> QED
    BY <2>1, <2>2
<1>6. DigitsOf(l) = <<>> => w = <<>>
  BY DEF PlainLine
<1>7. l[1] = "." => \/ ControlMeaning(w).does # "nonsense"
                    \/ Len(w) = 1
                    \/ w[2] \notin {"a", "r", "q"} /\ w # <<".", "e", "x", "i", "t">>
  BY DEF PlainLine
<1> HIDE DEF w
<1>8. CASE l[1] = "#"
  BY <1>8 DEF TakesLine, LineMeaning
<1>9. CASE l[1] = "."
  <2>1. w # <<>>
    BY <1>3, <1>9 DEF Space
  <2>2. TakesControl(p, w) = ControlMeaning(w)
    BY <1>1, <1>4, <1>7, <1>9, <2>1, PlainControl
  <2> QED
    BY <1>9, <2>1, <2>2 DEF TakesLine, LineMeaning, w
<1>10. CASE l[1] \notin {"#", "."} /\ w = <<>>
  BY <1>5, <1>10 DEF TakesLine, LineMeaning, FrameMeaning, w
<1>11. CASE l[1] \notin {"#", "."} /\ w # <<>>
  <2>1. TakesFrame(p, DigitsOf(l)) = FrameMeaning(DigitsOf(l))
    <3>1. DigitsOf(l) # <<>>
      BY <1>6, <1>11
    <3> HIDE DEF DigitsOf
    <3> QED
      BY <3>1 DEF TakesFrame, FrameMeaning
  <2> QED
    BY <1>11, <2>1 DEF TakesLine, LineMeaning, w
<1> QED
  BY <1>8, <1>9, <1>10, <1>11

\* Without carriage returns the ports agree on where a line starts.
LEMMA PlainStart ==
  ASSUME NEW p \in {"sim", "arm"}, NEW s \in Seq(Char), NEW i \in 1 .. Len(s),
         \A j \in 1 .. Len(s) : s[j] # "\r"
  PROVE  LineStart(s, i) = Start(p, s, i)
<1>1. \A j \in 1 .. Len(s) : s[j] \in Ends(p) <=> s[j] = "\n"
  BY DEF Ends
<1>2. ASSUME NEW k \in 1 .. i PROVE IsLineStart(s, i, k) <=> IsStart(p, s, i, k)
  <2>1. /\ k # 1 => k - 1 \in 1 .. Len(s)
        /\ \A j \in k .. i - 1 : j \in 1 .. Len(s)
    BY <1>2
  <2> HIDE DEF Ends
  <2> QED
    BY <1>1, <2>1 DEF IsLineStart, IsStart
<1>3. \A k \in 1 .. i : IsLineStart(s, i, k) <=> IsStart(p, s, i, k)
  BY <1>2
<1> QED
  BY <1>3, Zenon DEF LineStart, Start

\* Both drivers take every character of a plain stream for what it means.
LEMMA PlainAsMeant ==
  ASSUME NEW p \in {"sim", "arm"}, NEW s \in Seq(Char), Plain(s), NEW i \in 1 .. Len(s)
  PROVE  Takes(p, s, i) = Meaning(s, i)
<1> DEFINE k == LineStart(s, i)
           l == SubSeq(s, k, i)
<1>1. \A j \in 1 .. Len(s) : s[j] # "\r" /\ s[j] # Nul
  BY DEF Plain
<1>2. /\ i = Len(s) => s[i] = "\n"
      /\ i + 1 - k <= IF s[i] = "\n" THEN Most ELSE Most - 1
      /\ s[i] = "\n" => PlainLine(l)
  BY DEF Plain
<1>3. Start(p, s, i) = k
  BY <1>1, PlainStart
<1> HIDE DEF k
<1>4. k \in 1 .. i
  <2>1. i \in 1 .. Len(s) + 1
    OBVIOUS
  <2>2. Start(p, s, i) \in 1 .. i
    BY <2>1, StartNext
  <2> QED
    BY <1>3, <2>2
<1>5. Most \in Nat \ {0} /\ i \in Nat /\ k \in Nat /\ Len(s) \in Nat
  BY <1>4, Sizes DEF Most
<1>6. EndsLine(p, s, i) <=> s[i] = "\n"
  <2>1. s[i] \in Ends(p) <=> s[i] = "\n"
    BY <1>1 DEF Ends
  <2>2. s[i] # "\n" => (i + 1 - k) % Most # 0
    <3> SUFFICES ASSUME s[i] # "\n" PROVE (i + 1 - k) % Most # 0
      OBVIOUS
    <3>1. i + 1 - k \in 1 .. Most - 1
      BY <1>2, <1>4, <1>5
    <3> QED
      BY <1>5, <3>1, SmallRemainder
  <2> QED
    BY <1>2, <1>3, <2>1, <2>2 DEF EndsLine
<1>7. CASE s[i] # "\n"
  BY <1>6, <1>7 DEF Takes, Meaning
<1>8. CASE s[i] = "\n"
  <2>1. CutStart(p, s, i) = k
    <3>1. i - k \in 0 .. Most - 1
      BY <1>2, <1>4, <1>5, <1>8
    <3>2. (i - k) \div Most = 0
      BY <1>5, <3>1, SmallRemainder
    <3>3. k + 0 * Most = k
      BY <1>5
    <3> QED
      BY <1>3, <3>2, <3>3 DEF CutStart
  <2>2. l \in Seq(Char) /\ l # <<>> /\ \A j \in 1 .. Len(l) : l[j] # Nul
    <3>1. /\ l \in Seq(Char) /\ Len(l) = i + 1 - k
          /\ \A j \in 1 .. Len(l) : l[j] = s[k + j - 1]
      BY <1>4, <1>5
    <3>2. Len(l) # 0
      BY <1>4, <1>5, <3>1
    <3>3. \A j \in 1 .. i + 1 - k : k + j - 1 \in 1 .. Len(s)
      BY <1>4, <1>5
    <3> HIDE DEF l
    <3>4. l # <<>>
      BY <3>1, <3>2
    <3>5. ASSUME NEW j \in 1 .. Len(l) PROVE l[j] # Nul
      <4>1. k + j - 1 \in 1 .. Len(s) /\ l[j] = s[k + j - 1]
        BY <3>1, <3>3
      <4> QED
        BY <1>1, <4>1
    <3> QED
      BY <3>1, <3>4, <3>5
  <2> HIDE DEF l
  <2>3. LineTo(p, s, i) = l
    <3>1. c_string(l) = l
      BY <2>2, CStringFits
    <3> QED
      BY <2>1, <3>1 DEF LineTo, l
  <2>4. TakesLine(p, l) = LineMeaning(l)
    BY <1>2, <1>8, <2>2, PlainLineAsMeant
  <2> QED
    BY <1>6, <1>8, <2>3, <2>4 DEF Takes, Meaning, l, k
<1> QED
  BY <1>7, <1>8

\* So a plain stream gives to the OS and to the reader what it means.
LEMMA PlainGiven ==
  ASSUME NEW p \in {"sim", "arm"}, NEW s \in Seq(Char), NEW a, Plain(s)
  PROVE  /\ TakenForOs(p, s) = MeantForOs(s)
         /\ TakenForReader(p, s, a) = MeantForReader(p, s, a)
<1>1. \A i \in 1 .. Len(s) : Takes(p, s, i) = Meaning(s, i)
  BY PlainAsMeant
<1>2. LastOf(p, s) = LastMeant(s)
  <2> DEFINE Q == {i \in 1 .. Len(s) : Takes(p, s, i).does = "quit"}
             R == {i \in 1 .. Len(s) : Meaning(s, i).does = "quit"}
  <2>1. Q = R
    BY <1>1, Zenon
  <2>2. LastOf(p, s) = IF Q = {} THEN Len(s) ELSE CHOOSE i \in Q : \A j \in Q : i <= j
    BY DEF LastOf
  <2>3. LastMeant(s) = IF R = {} THEN Len(s) ELSE CHOOSE i \in R : \A j \in R : i <= j
    BY DEF LastMeant
  <2> HIDE DEF Q, R
  <2> QED
    BY <2>1, <2>2, <2>3
<1>3. OsParts(p, s) = [i \in 1 .. Len(s) |-> ToOs(Meaning(s, i))]
  BY <1>1, Zenon DEF OsParts
<1>4. ReaderParts(p, s, a) = [i \in 1 .. Len(s) |-> ToReader(p, a, Meaning(s, i))]
  BY <1>1, Zenon DEF ReaderParts
<1> QED
  BY <1>2, <1>3, <1>4, Zenon DEF TakenForOs, TakenForReader, MeantForOs, MeantForReader

\* For every stream that a reader can send, all sizes of the buffers and whatever
\* the handlers answer: once a stream of plain lines is used up, the OS has been
\* given, and the reader has been sent, exactly what its lines mean by the protocol,
\* in their order, the same on both ports (hal_card_receive on both ports, hex_decode,
\* scos_card_loop, scos_process, hal_card_send).
THEOREM LinesServedAsMeant == Spec => []OutputAsMeant
<1>1. FullInv => OutputAsMeant
  <2> SUFFICES ASSUME FullInv, Done, Plain(stream)
               PROVE  /\ os = MeantForOs(stream)
                      /\ HeardOf(sent) = MeantForReader(port, stream, answer)
    BY DEF OutputAsMeant, AsMeant, HeardOf
  <2>1. os = TakenForOs(port, stream) /\ HeardOf(sent) = TakenForReader(port, stream, answer)
    <3>1. CASE pc = "down"
      BY <3>1 DEF FullInv, TakenInv
    <3>2. CASE port = "arm" /\ pc = "receive" /\ pos = Len(stream)
      <4>1. stream \in Seq(Char) /\ Told(Len(stream))
        BY <3>2 DEF FullInv, WireInv, TakenInv, Told
      <4> QED
        BY <3>2, <4>1, EndOfStream
    <3> QED
      BY <3>1, <3>2 DEF Done
  <2>2. stream \in Seq(Char) /\ port \in {"sim", "arm"}
    BY DEF FullInv, WireInv
  <2> QED
    BY <2>1, <2>2, PlainGiven
<1>2. Spec => []FullInv
  BY TakenInvariance
<1> QED
  BY <1>1, <1>2, PTL
=============================================================================
