------------------------------- MODULE MCFcp -------------------------------
(***************************************************************************)
(* Texts for TLC: every list of up to two fields, faulty ones included,    *)
(* triples that start well, longer lists of good fields, lists that end in *)
(* bytes nothing can be made of, and the descriptions of files.            *)
(***************************************************************************)
EXTENDS FcpMeaning

Obj(tag, value) == Object(<<tag>>, 0, value)

Df == Obj(130, <<56>>)
Ef == Obj(130, <<1>>)
Fid1 == Obj(131, <<111, 1>>)
Size2 == Obj(128, <<0, 2>>)
Blocked == Obj(138, <<4>>)
Sfi1 == Obj(136, <<8>>)
Sfi30 == Obj(136, <<240>>)

Fields ==
  {Df, Ef, Fid1, Size2, Blocked, Sfi30, Padding(0), Padding(255),
   Object(<<130>>, 1, <<65>>), Object(<<131>>, 2, <<111, 2>>),
   Obj(128, <<127, 255>>), Obj(128, <<0, 0, 0, 1>>),
   Obj(130, <<184>>), Obj(130, <<57>>), Obj(130, <<2>>), Obj(130, <<8>>), Obj(130, <<>>),
   Obj(131, <<111>>), Obj(131, <<>>),
   Obj(128, <<128, 0>>), Obj(128, <<0>>), Obj(128, <<>>), Obj(128, <<0, 0, 0, 0, 1>>),
   Obj(138, <<12>>), Obj(138, <<0>>), Obj(136, <<248>>), Obj(136, <<9>>),
   Obj(134, <<0>>), Obj(98, <<130, 1, 1>>), Object(<<159, 112>>, 0, <<>>)}

\* What cannot be read: a tag of three bytes, an indefinite, reserved or too
\* long length, and objects that the end of the text cuts short.
Tails == {<<159, 129, 0>>, <<130, 128>>, <<130, 255, 131, 2, 111, 1>>, <<130, 131, 0, 0, 1>>,
          <<130>>, <<131, 2, 111>>, <<131, 129>>, <<131, 130, 0>>, <<159>>, <<159, 112>>}

Bare(fs, tail) ==
  [fields |-> fs, tail |-> tail, wrapped |-> FALSE, before |-> <<>>, form |-> 0,
   after |-> <<>>, file |-> {}]
Wrapped(before, form, fs, tail, after) ==
  [Bare(fs, tail) EXCEPT !.wrapped = TRUE, !.before = before, !.form = form, !.after = after]

Short == UNION {[1 .. n -> Fields] : n \in 1 .. 2}
Triples == {<<a, b, c>> : a \in {Df, Ef, Fid1, Sfi30, Padding(0)}, b \in Fields, c \in Fields}
Long == {<<a, b>> \o s : a \in {Df, Ef}, b \in {Fid1, Padding(255)},
                         s \in UNION {[1 .. n -> {Fid1, Size2, Sfi1, Sfi30, Blocked, Padding(0)}] :
                                        n \in 2 .. 3}}
Enough == {<<>>, <<Ef, Fid1, Size2>>, <<Df, Fid1>>}

File(type, size, lc, sfi) ==
  [file_id |-> 28417, type |-> type, lifecycle |-> lc, parent |-> 0, size |-> size,
   data_offset |-> 0, sfi |-> sfi]

SomeTexts ==
  {t \in {Bare(fs, <<>>) : fs \in Short \cup Triples \cup Long}
         \cup {Bare(fs, tail) : fs \in Enough \cup {<<f>> : f \in Fields}, tail \in Tails} :
     BareStart(t)}
  \cup {Wrapped(<<>>, 0, fs, <<>>, after) : fs \in Short \cup Enough,
                                            after \in {<<>>, <<0, 255>>, <<0, 130, 1, 1>>}}
  \cup {Wrapped(before, form, fs, tail, <<>>) :
          before \in {<<>>, <<255, 0>>}, form \in 0 .. 2, fs \in Enough,
          tail \in Tails \cup {<<>>}}
  \cup {Wrapped(<<>>, 0, fs, <<>>, <<>>) : fs \in Long}
  \cup {[Bare(<<>>, <<>>) EXCEPT !.file = {d}] :
          d \in {File("EF", n, l, s) : n \in {1, 256, 32767}, s \in {0, 1, 30},
                                       l \in fs_lifecycle \ {"TERMINATED"}}
                \cup {File("DF", 0, l, 0) : l \in fs_lifecycle \ {"TERMINATED"}}}

TextBodies == {Body(t) : t \in SomeTexts}
NoLayout == <<>>
TwoByteFids == 0 .. 65535
=============================================================================
