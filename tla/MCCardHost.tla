----------------------------- MODULE MCCardHost ----------------------------
(***************************************************************************)
(* The card on its host for TLC: the commands of MCCardOS, and memory that *)
(* comes up erased or, as SRAM does, with anything in it.                  *)
(***************************************************************************)
EXTENDS MCCardOS, CardHost

AnySram ==
  {[sb |-> BlankSb, desc |-> NoFiles, flash |-> ErasedFlash],
   [sb |-> BlankSb, desc |-> [i \in Slot |-> BadDesc],
    flash |-> [c \in 0 .. FLASH_SIZE - 1 |-> "v"]]}

OneUpdate == {[to |-> To(1, 0), data |-> <<"v">>, le |-> NoLe]}
=============================================================================
