------------------------------- MODULE MCWire ------------------------------
(***************************************************************************)
(* The link with buffers scaled down: a line buffer of 19 characters and   *)
(* a terminator, a command buffer of 7 bytes, a response buffer of 6.      *)
(***************************************************************************)
EXTENDS LinkInv

\* "00 A4 00 00" and what can follow or go wrong.
Header == <<"0", "0", "A", "4", "0", "0", "0", "0">>
Z == <<"0", "0">>

\* A comment as long as the simulator's buffer.
Comment == <<"#">> \o [i \in 1 .. 18 |-> " "]

SomeLines ==
  { <<>>, <<" ">>, <<":", " ">>,                          \* nothing, separators only
    Header,                                               \* case 1
    <<"0", "0", " ", "b", "0", ":">> \o Z \o <<"\t">> \o Z \o <<"0", "2">>,   \* case 2
    Header \o <<"0", "2", "3", "F", "0", "0">>,           \* case 3, the buffer full
    Header \o <<"0", "1", "3", "F", "0", "0">>,           \* case 4
    Header \o <<"0", "3", "3", "F", "0", "0">>,           \* Lc too large
    Header \o Z \o Z,                                     \* extended length
    <<"0", "0", "A", "4", "0", "0">>,                     \* no header
    Header \o <<"0", "2", "3", "F", "0", "0", "0", "0">>, \* too long by one byte
    Header \o <<"0">>,                                    \* an odd digit
    <<"0", "g">> \o Header,                               \* not a digit
    <<"8", "4">> \o Z \o Z \o Z, <<"1", "0">> \o Z \o Z \o Z,      \* classes
    <<"0", "8">> \o Z \o Z \o Z, <<"0", "1">> \o Z \o Z \o Z,
    <<"0", "0", "C", "0">> \o Z \o Z,                     \* no such instruction
    <<"#">> \o Header,                                    \* a comment
    Comment \o Header,                                    \* one that is cut
    Header \o <<Nul, "0">>, <<Nul>> \o Header,            \* a NUL in a line
    <<".", "a", "t", "r">>, <<".", "r", "e", "s", "e", "t", " ">>, <<".", "q", "u", "i", "t">>,
    <<".", "e", "x", "i", "t">>, <<".", "h", "e", "l", "p">>, <<".", "r">>, <<".">>,
    <<" ", ".", "a", "t", "r">> }

TwoLines ==
  LET ends == {<<"\n">>, <<"\r", "\n">>}
  IN {a \o e \o b \o e : a \in SomeLines, b \in SomeLines, e \in ends}
     \cup {a \o <<"\r">> \o b \o <<"\n">> : a \in {Header, <<".", "r">>}, b \in SomeLines}
     \cup {a \o <<"\n">> \o b : a \in {Header, <<"0">>}, b \in SomeLines}

\* Separators alone, and then a comment that the simulator's buffer cannot hold.
OddLines == {<<":", " ", "\n">> \o Comment \o Header \o <<"\n">>}

SomeAtr == <<59, 148>>
SomeAnswers ==
  { [puts |-> <<>>, sw |-> \h6A82],
    [puts |-> <<<<98>>, <<2>>, <<131, 10>>>>, sw |-> SW_OK],        \* fits exactly
    [puts |-> <<<<98>>, <<4>>, <<1, 2, 3>>, <<5>>>>, sw |-> SW_OK] }  \* one does not
=============================================================================
