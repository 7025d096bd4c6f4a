------------------------------ MODULE MCCardOS -----------------------------
(***************************************************************************)
(* Instances of CardOS for TLC: factory tables and the commands a reader   *)
(* sends.  File identifiers and bytes are strings.                         *)
(***************************************************************************)
EXTENDS CardFiles, CardClaims, CardInv

Row(i, fid, type, parent, size, sfi) ==
  [index |-> i, file_id |-> fid, type |-> type, parent |-> parent,
   size |-> size, sfi |-> sfi]

\* A DF with one EF: deletions and creations at two levels of the tree.
SmallLayout == << Row(1, "7F10", "DF", 0, 0, 0), Row(2, "6F01", "EF", 1, 1, 1) >>

\* The table of fs_personalise, with its sizes 32, 64 and 16 scaled down.
FactoryLayout == << Row(1, "2F00", "EF", 0, 2, 1), Row(2, "7F10", "DF", 0, 0, 0),
                    Row(3, "6F01", "EF", 2, 3, 1), Row(4, "6F02", "EF", 2, 1, 2) >>

-----------------------------------------------------------------------------
Sel(p1, path, ret, le) ==
  [p1 |-> p1, rfu |-> FALSE, first |-> TRUE, ret |-> ret, lc |-> 2 * Len(path),
   path |-> path, le |-> le]

\* Enough to reach every selection: by identifier, and back to the MF.
MoveAround == {Sel(0, <<f>>, "NONE", NoLe) : f \in {"3F00", "7F10", "6F01"}}

\* All forms of P1, with paths of one, two and three components, answers with
\* and without control information, an Le that is enough for a DF but not for
\* an EF, and one command for every refusal of P1, P2 and Lc.
AllSelects ==
  {Sel(p, <<f>>, "NONE", NoLe) : p \in {0, 1, 2, 8, 9}, f \in {"7F10", "6F01"}}
  \cup {Sel(p, <<>>, "NONE", NoLe) : p \in {0, 1, 3, 4, 8}}
  \cup {Sel(p, <<"7F10", "6F01">>, "FCP", 12) : p \in {8, 9}}
  \cup {Sel(8, <<"3F00", "7F10">>, "FCI", 12), Sel(9, <<"6F01", "7F10">>, "NONE", NoLe),
        Sel(8, <<"3F00", "7F10", "6F01">>, "NONE", NoLe), Sel(0, <<"6F01">>, "FCI", 19),
        Sel(0, <<"7F10">>, "FMD", NoLe), Sel(0, <<"6F01">>, "FCP", NoLe),
        Sel(3, <<"7F10">>, "NONE", NoLe), Sel(0, <<"7F10", "6F01">>, "NONE", NoLe),
        Sel(77, <<>>, "NONE", NoLe),
        [Sel(0, <<"7F10">>, "NONE", NoLe) EXCEPT !.rfu = TRUE],
        [Sel(0, <<"7F10">>, "NONE", NoLe) EXCEPT !.first = FALSE],
        [Sel(8, <<"7F10">>, "NONE", NoLe) EXCEPT !.lc = 3]}

-----------------------------------------------------------------------------
New(fid, type, lc, size, sfi) ==
  [file_id |-> fid, type |-> type, lifecycle |-> lc, size |-> size, sfi |-> sfi]

\* EFs of two sizes with and without a short identifier, DFs under the same
\* name, usable or not, and requests that have to be refused.
SomeCreates ==
  {New(f, "EF", "ACTIVATED", n, s) : f \in {"6F01", "7F10"}, n \in {1, 2}, s \in {0, 1}}
  \cup {New("7F10", "DF", lc, 0, 0) : lc \in {"ACTIVATED", "DEACTIVATED"}}
  \cup {New("3F00", "DF", "ACTIVATED", 0, 0), New("6F01", "EF", "TERMINATED", 1, 0)}

FewCreates == {New("6F01", "EF", "ACTIVATED", 1, 1), New("7F10", "DF", "DEACTIVATED", 0, 0),
               New("6F01", "EF", "DEACTIVATED", 1, 0), New("7F10", "DF", "ACTIVATED", 0, 0)}

OneCreate == {New("6F01", "EF", "ACTIVATED", 1, 1)}

-----------------------------------------------------------------------------
To(sfi, offset) ==
  [by_sfi |-> sfi > 0, rfu |-> FALSE, sfi |-> sfi, offset |-> offset]

\* Reads at the start, the end and beyond the end of a file, in both forms, and
\* every refusal of the command's form.
AllReads ==
  {[to |-> To(s, o), lc |-> 0, le |-> 2] : s \in {0, 1}, o \in {0, 1, 2}}
  \cup {[to |-> To(0, 0), lc |-> 0, le |-> 1], [to |-> To(31, 0), lc |-> 0, le |-> 1],
        [to |-> [To(1, 0) EXCEPT !.rfu = TRUE], lc |-> 0, le |-> 1],
        [to |-> To(0, 0), lc |-> 0, le |-> NoLe], [to |-> To(0, 0), lc |-> 1, le |-> 1]}

SomeUpdates ==
  {[to |-> To(s, 0), data |-> d, le |-> NoLe] : s \in {0, 1}, d \in {<<"v">>, <<"v", "v">>}}

AllUpdates ==
  SomeUpdates \cup {[to |-> To(0, 1), data |-> <<"v">>, le |-> NoLe],
                    [to |-> To(0, 0), data |-> <<>>, le |-> NoLe],
                    [to |-> To(0, 0), data |-> <<"v">>, le |-> 1]}
=============================================================================
