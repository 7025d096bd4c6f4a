----------------------------- MODULE CardFiles -----------------------------
(***************************************************************************)
(* The card implements the abstract file tree: the files of the tree are   *)
(* the descriptors that are neither free nor damaged, their data the cells *)
(* of FLASH they point at.                                                 *)
(***************************************************************************)
EXTENDS CardOS

\* The file in slot i as a reader of the card sees it.
FileOf(i) ==
  [file_id |-> desc[i].file_id, type |-> desc[i].type, parent |-> desc[i].parent,
   lifecycle |-> desc[i].lifecycle, sfi |-> desc[i].sfi,
   data |-> IF fs_is_ef(desc[i])
            THEN fs_store_read_data(desc[i].data_offset, desc[i].size)
            ELSE <<>>]

Tree == INSTANCE FileTree WITH tree <- [i \in Files |-> FileOf(i)], up <- pc # "off"

\* Every step of the card, power cuts and failing writes included, is one step
\* of the file tree or leaves the tree alone.
ImplementsFileTree == Tree!TreeSpec
=============================================================================
