------------------------------ MODULE CardInv ------------------------------
(***************************************************************************)
(* The inductive invariant behind the theorems of CardProofs.  The first   *)
(* half is about the store alone and says what makes the safety properties *)
(* of CardOS hold; the second says, for every value of pc, what the steps  *)
(* before it have achieved, which is what the next step relies on.         *)
(***************************************************************************)
EXTENDS CardOS

\* Two elementary files whose data does not overlap, by their bounds.
Apart(d, e) == \/ d.data_offset + d.size <= e.data_offset
               \/ e.data_offset + e.size <= d.data_offset

DataApart == \A i, j \in EFs : i # j => Apart(desc[i], desc[j])

DataBelow(top) == \A i \in EFs : desc[i].data_offset + desc[i].size <= top

\* Two files that may be children of the same DF.
Distinguishable(d, e) ==
  d.parent = e.parent =>
    /\ d.file_id # e.file_id
    /\ fs_is_ef(d) /\ fs_is_ef(e) /\ d.sfi = e.sfi => d.sfi = FS_NO_SFI

SuperblockInv ==
  /\ Formatted => sb.max_files = FS_MAX_FILES /\ DataBelow(sb.data_top)
  /\ ram.mounted => /\ Formatted
                    /\ ram.max_files = FS_MAX_FILES
                    /\ sb.data_top <= ram.data_top
                    /\ ram.data_top <= FLASH_SIZE

StoreInv == SuperblockInv /\ DataApart /\ TreeWellFormed /\ SiblingsUnique

AllFree == \A i \in Slot : desc[i].type = "FREE"

\* Descriptor d is that of row r of the factory table.
IsRow(d, r) == /\ d.type = Layout[r].type
               /\ d.file_id = Layout[r].file_id
               /\ d.parent = Layout[r].parent
               /\ d.sfi = Layout[r].sfi

\* Rows before r of the factory table are stored, and nothing else.
FactoryInv(r) ==
  /\ desc[FS_ROOT_INDEX] = MfDesc
  /\ \A i \in 1 .. r - 1 : IsRow(desc[i], i)
  /\ \A i \in Slot : i >= r => desc[i].type = "FREE"

\* The descriptor about to be stored will be a good file in a free slot.
JobInv ==
  /\ job.slot \in Slot \ {FS_ROOT_INDEX}
  /\ desc[job.slot].type = "FREE"
  /\ job.d.type \in {"DF", "EF"}
  /\ job.d.parent \in Files
  /\ fs_is_df(desc[job.d.parent])
  /\ \A i \in Files : Distinguishable(job.d, desc[i])
  /\ fs_is_ef(job.d) => /\ DataBelow(job.d.data_offset)
                        /\ job.d.data_offset + job.d.size <= sb.data_top

\* The request req may become the file in `slot` under `parent`: what CREATE
\* FILE checks, and what the factory table guarantees.
Acceptable(req, slot, parent) ==
  /\ slot \in Slot \ {FS_ROOT_INDEX}
  /\ desc[slot].type = "FREE"
  /\ parent \in Files /\ fs_is_df(desc[parent])
  /\ \A i \in Files : Distinguishable(NewDesc(req, parent), desc[i])
  /\ req.type = "EF" => ~NoRoom(req.size)

StageInv ==
  /\ pc \in {"off", "format", "super", "mf", "row"} => life = "INITIALISING"
  /\ pc = "off" => ram = RamAtPowerOn /\ row = 0
  /\ pc \in {"ready", "walk"} => life # "INITIALISING"
  /\ pc = "walk" => walk.cmd \in SelectCmds /\ walk.s \in 1 .. Len(walk.cmd.path)
  /\ pc = "format" => row \in Slot /\ \A i \in 0 .. row - 1 : desc[i].type = "FREE"
  /\ pc \in {"format", "super"} => ~Formatted
  /\ pc \in {"super", "mf"} => AllFree
  /\ pc \in {"mf", "row", "place"} => ram.mounted
  /\ pc = "row" => row \in 1 .. Len(Layout) + 1 /\ FactoryInv(row)
  /\ pc = "place" /\ life = "INITIALISING" =>
       row \in 1 .. Len(Layout) /\ FactoryInv(row) /\ job.slot = row /\ IsRow(job.d, row)
  /\ pc = "place" => life \in {"INITIALISING", "OPERATIONAL"} /\ JobInv

\* The inductive invariant: it holds initially and every step of the card,
\* power cuts and failed or torn writes included, preserves it.
CardInvariant == TypeOK /\ StoreInv /\ StageInv
=============================================================================
