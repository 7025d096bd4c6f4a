----------------------------- MODULE HostProofs -----------------------------
(***************************************************************************)
(* Proofs about the card on a development host.  What a session relies on  *)
(* is that the table it loads is one a card was once powered off with: so  *)
(* the invariant of CardInv has to hold of the files as well as of the     *)
(* memory, through sessions that are killed and stores that fail, and so   *)
(* does what FilesProofs says of FLASH.  The types come first: they need   *)
(* no invariant of the files.                                              *)
(***************************************************************************)
EXTENDS CardHost, FilesProofs

-----------------------------------------------------------------------------
(***************************************************************************)
(* The types, on whatever a card loads.  A truncated card_eeprom.bin voids *)
(* CardInvariant, and a session still runs on it: so types need an         *)
(* invariant of their own, which only the type checks of the code keep.    *)
(***************************************************************************)
\* An erased region has the types of the store.
LEMMA ErasedType ==
  /\ BlankSb \in superblock
  /\ NoFiles \in [Slot -> fs_descriptor]
  /\ ErasedFlash \in [0 .. FLASH_SIZE - 1 -> Byte]
  /\ ~BlankSb.magic
  /\ \A i \in Slot : NoFiles[i].type \notin FileType
<1>1. BlankSb \in superblock /\ ~BlankSb.magic
  BY DEF BlankSb, superblock
<1>2. NoFiles \in [Slot -> fs_descriptor] /\ \A i \in Slot : NoFiles[i].type \notin FileType
  BY NoDescType DEF NoFiles, FreeDesc, NoDesc, FileType
<1>3. ErasedFlash \in [0 .. FLASH_SIZE - 1 -> Byte]
  BY NamesAssumption DEF ErasedFlash
<1> QED
  BY <1>1, <1>2, <1>3

\* A descriptor of an EF names a slot as its parent, so that selecting the file
\* makes a slot the current DF.
HasParent(d) == fs_is_ef(d) => d.parent \in Slot

\* The same of the table.
ParentsAreSlots == \A i \in Slot : HasParent(desc[i])

\* The card keeps its types; the loop index is where the loops need it.
CardTypes ==
  /\ TypeOK
  /\ ParentsAreSlots
  /\ HasParent(job.d)
  /\ pc = "off" => row = 0
  /\ pc = "format" => row \in Slot
  /\ pc = "row" => row \in 1 .. Len(Layout) + 1
  /\ pc = "place" /\ life = "INITIALISING" => row \in 1 .. Len(Layout)

\* The inductive invariant behind HostTypeOK.
HostTypes == CardTypes /\ HostTypeOK /\ \A i \in Slot : HasParent(eeprom.desc[i])

\* The descriptors that are not of an EF.
LEMMA NoDescParent ==
  HasParent(FreeDesc) /\ HasParent(BadDesc) /\ HasParent(MfDesc) /\ HasParent(NoJob.d)
BY DEF HasParent, FreeDesc, BadDesc, MfDesc, NoDesc, NoJob, fs_is_ef

\* A write of such a descriptor.
LEMMA DescWriteParents ==
  ASSUME StoreTypeOK, ParentsAreSlots, NEW o, NEW i \in Slot, NEW d, HasParent(d),
         desc_write(o, i, d)
  PROVE  ParentsAreSlots'
<1>1. desc \in [Slot -> fs_descriptor]
  BY DEF StoreTypeOK
<1>2. desc' \in {[desc EXCEPT ![i] = d], desc, [desc EXCEPT ![i] = BadDesc]}
  BY DEF desc_write
<1>3. \A j \in Slot : desc'[j] \in {desc[j], d, BadDesc}
  BY <1>1, <1>2
<1> QED
  BY <1>3, NoDescParent DEF ParentsAreSlots, HasParent, fs_is_ef

\* The end of a command,
LEMMA AnswerTypes ==
  ASSUME CardTypes, StoreTypeOK', ParentsAreSlots', NEW r, Answer(r), sel' \in fs_selection
  PROVE  CardTypes'
<1>1. pc' = "ready" /\ job' = NoJob /\ walk' = NoWalk /\ life' = life /\ row' = row
  BY DEF Answer
<1>2. TypeOK'
  BY <1>1, NoJobType, NoWalkType DEF CardTypes, TypeOK, Pc
<1> QED
  BY <1>1, <1>2, NoDescParent DEF CardTypes

\* a loss of power,
LEMMA LostTypes ==
  ASSUME StoreTypeOK', ParentsAreSlots', ram' = RamAtPowerOn, RamLost
  PROVE  CardTypes'
<1>1. pc' = "off" /\ job' = NoJob /\ row' = 0
  BY DEF RamLost
<1> QED
  BY <1>1, PowerLost, NoDescParent DEF CardTypes

\* and an initialisation that failed keep the types.
LEMMA FailedTypes ==
  ASSUME CardTypes, StoreTypeOK', ParentsAreSlots', InitFailed
  PROVE  CardTypes'
<1>1. pc' = "ready" /\ job' = NoJob
  BY DEF InitFailed
<1> QED
  BY <1>1, InitFailedStep, NoDescParent DEF CardTypes

\* A command that changes nothing in the store.
LEMMA QuietTypes ==
  ASSUME CardTypes, UNCHANGED storeVars, NEW r, Answer(r), sel' \in fs_selection
  PROVE  CardTypes'
<1>1. StoreTypeOK' /\ ParentsAreSlots'
  BY QuietType DEF CardTypes, TypeOK, ParentsAreSlots, storeVars
<1> QED
  BY <1>1, AnswerTypes

\* The outcomes of a write, and how the kernel goes on.
LEMMA Outcomes ==
  ASSUME NEW o \in Outcome
  PROVE  o \in {"done", "failed", "unsynced", "torn"}
BY FaultsAssumption DEF Outcome

\* A descriptor write, and the mirror after it.
LEMMA DescWriteTypes ==
  ASSUME CardTypes, NEW o, NEW i \in Slot, NEW d \in fs_descriptor, HasParent(d),
         desc_write(o, i, d)
  PROVE  StoreTypeOK' /\ ParentsAreSlots' /\ (o = "torn" => ram' = RamAtPowerOn)
BY DescWriteType, DescWriteParents DEF CardTypes, TypeOK, desc_write, RamAfter

\* The allocation of data, and the last write of fs_store_format.
LEMMA SbWriteTypes ==
  ASSUME CardTypes, NEW o \in Outcome, NEW top \in Nat, sb_write(o, top),
         NEW m \in s_sb, ram' = RamAfter(o, m), UNCHANGED <<desc, flash>>
  PROVE  StoreTypeOK' /\ ParentsAreSlots' /\ (o = "torn" => ram' = RamAtPowerOn)
<1>1. sb' \in superblock
  BY SbWriteType DEF CardTypes, TypeOK
<1>2. ram' \in s_sb
  BY RamTypes
<1> QED
  BY <1>1, <1>2 DEF CardTypes, TypeOK, StoreTypeOK, ParentsAreSlots, RamAfter

-----------------------------------------------------------------------------
\* Power-on, and the steps of fs_personalise.
LEMMA ScosInitTypes ==
  ASSUME CardTypes, scos_init PROVE CardTypes'
<1>1. /\ UNCHANGED <<nvmVars, row, job, walk, rsp>> /\ row = 0
      /\ pc' \in {"format", "ready"} /\ life' \in scos_lifecycle
      /\ sel' \in {fs_selection_reset, sel}
  BY DEF scos_init, CardTypes, scos_lifecycle
<1>2. ram' \in s_sb
  <2>1. sb \in superblock
    BY DEF CardTypes, TypeOK, StoreTypeOK
  <2>2. mount_status = "OK" => sb.max_files \in 0 .. FS_MAX_FILES /\ sb.data_top \in Nat
    BY <2>1, SizesAssumption DEF mount_status, superblock
  <2> QED
    BY <2>2, SizesAssumption DEF scos_init, fs_store_mount, s_sb, RamAtPowerOn
<1>3. StoreTypeOK' /\ ParentsAreSlots'
  BY <1>1, <1>2 DEF CardTypes, TypeOK, StoreTypeOK, ParentsAreSlots, nvmVars
<1>4. TypeOK'
  BY <1>1, <1>3, ResetType DEF CardTypes, TypeOK, Pc
<1>5. 0 \in Slot
  BY SlotFacts DEF FS_ROOT_INDEX
<1> QED
  BY <1>1, <1>3, <1>4, <1>5 DEF CardTypes

\* fs_store_format frees a slot,
LEMMA FormatSlotTypes ==
  ASSUME CardTypes, format_slot PROVE CardTypes'
<1>1. PICK o \in Outcome \ {"unsynced"} :
        /\ desc_write(o, row, FreeDesc)
        /\ After(o, /\ row' = IF row + 1 < FS_MAX_FILES THEN row + 1 ELSE 0
                    /\ pc' = IF row + 1 < FS_MAX_FILES THEN "format" ELSE "super"
                    /\ UNCHANGED <<life, sel, job, walk, rsp>>,
                 InitFailed)
  BY DEF format_slot
<1>2. row \in Slot
  BY DEF format_slot, CardTypes
<1>3. StoreTypeOK' /\ ParentsAreSlots' /\ (o = "torn" => ram' = RamAtPowerOn)
  BY <1>1, <1>2, DescWriteTypes, NoDescType, NoDescParent
<1>4. CASE o = "torn"
  BY <1>1, <1>3, <1>4, LostTypes DEF After
<1>5. CASE o = "failed"
  BY <1>1, <1>3, <1>5, FailedTypes DEF After
<1>6. CASE o = "done"
  <2>1. /\ row' = IF row + 1 < FS_MAX_FILES THEN row + 1 ELSE 0
        /\ pc' = IF row + 1 < FS_MAX_FILES THEN "format" ELSE "super"
        /\ UNCHANGED <<life, sel, job, walk, rsp>>
    BY <1>1, <1>6 DEF After
  <2>2. row' \in Slot /\ row' \in 0 .. FS_MAX_FILES + Len(Layout)
    BY <1>2, <2>1, LayoutLen, SizesAssumption DEF Slot
  <2>3. pc' \in {"format", "super"}
    BY <2>1
  <2>4. TypeOK'
    BY <1>3, <2>1, <2>2, <2>3 DEF CardTypes, TypeOK, Pc
  <2> QED
    BY <1>3, <2>1, <2>2, <2>3, <2>4 DEF CardTypes
<1> QED
  BY <1>4, <1>5, <1>6, Outcomes

\* and writes the superblock.
LEMMA FormatDoneTypes ==
  ASSUME CardTypes, format_done PROVE CardTypes'
<1>1. PICK o \in Outcome :
        /\ format_superblock(o)
        /\ After(o, pc' = "mf" /\ UNCHANGED <<life, sel, row, job, walk, rsp>>, InitFailed)
  BY DEF format_done
<1>2. StoreTypeOK' /\ ParentsAreSlots' /\ (o = "torn" => ram' = RamAtPowerOn)
  <2>1. [mounted |-> o = "done", max_files |-> FS_MAX_FILES, data_top |-> 0] \in s_sb
    BY SizesAssumption DEF s_sb
  <2> QED
    BY <1>1, <2>1, SbWriteTypes DEF format_superblock
<1>3. CASE o = "torn"
  BY <1>1, <1>2, <1>3, LostTypes DEF After
<1>4. CASE o \in {"failed", "unsynced"}
  BY <1>1, <1>2, <1>4, FailedTypes DEF After
<1>5. CASE o = "done"
  <2>1. pc' = "mf" /\ UNCHANGED <<life, sel, row, job, walk, rsp>>
    BY <1>1, <1>5 DEF After
  <2>2. TypeOK'
    BY <1>2, <2>1 DEF CardTypes, TypeOK, Pc
  <2> QED
    BY <1>2, <2>1, <2>2 DEF CardTypes
<1> QED
  BY <1>3, <1>4, <1>5, Outcomes

\* fs_personalise stores the MF,
LEMMA PersonaliseMfTypes ==
  ASSUME CardTypes, personalise_mf PROVE CardTypes'
<1>1. PICK o \in Outcome :
        /\ desc_write(o, FS_ROOT_INDEX, MfDesc)
        /\ After(o, pc' = "row" /\ row' = 1 /\ UNCHANGED <<life, sel, job, walk, rsp>>, InitFailed)
  BY DEF personalise_mf, fs_store_write_desc
<1>2. StoreTypeOK' /\ ParentsAreSlots' /\ (o = "torn" => ram' = RamAtPowerOn)
  BY <1>1, DescWriteTypes, NoDescType, NoDescParent, SlotFacts
<1>3. CASE o = "torn"
  BY <1>1, <1>2, <1>3, LostTypes DEF After
<1>4. CASE o \in {"failed", "unsynced"}
  BY <1>1, <1>2, <1>4, FailedTypes DEF After
<1>5. CASE o = "done"
  <2>1. pc' = "row" /\ row' = 1 /\ UNCHANGED <<life, sel, job, walk, rsp>>
    BY <1>1, <1>5 DEF After
  <2>2. row' \in 1 .. Len(Layout) + 1 /\ row' \in 0 .. FS_MAX_FILES + Len(Layout)
    BY <2>1, LayoutLen, SizesAssumption
  <2>3. TypeOK'
    BY <1>2, <2>1, <2>2 DEF CardTypes, TypeOK, Pc
  <2> QED
    BY <1>2, <2>1, <2>2, <2>3 DEF CardTypes
<1> QED
  BY <1>3, <1>4, <1>5, Outcomes

\* A descriptor made from a request, in a slot and under a DF, is ready to be
\* stored.
LEMMA PlaceTypes ==
  ASSUME CardTypes, StoreTypeOK', ParentsAreSlots',
         NEW req \in CreateReq, NEW slot \in Slot, NEW parent \in Slot,
         req.type = "EF" => ~NoRoom(req.size),
         life = "INITIALISING" => row \in 1 .. Len(Layout),
         pc' = "place", job' = [slot |-> slot, d |-> NewDesc(req, parent)],
         UNCHANGED <<life, sel, row, walk>>
  PROVE  CardTypes'
<1>1. req.size \in 0 .. FS_MAX_EF_SIZE /\ ram.data_top \in Nat
  BY DEF CreateReq, CardTypes, TypeOK, StoreTypeOK, s_sb
<1>2. req.type = "EF" => ram.data_top \in 0 .. FLASH_SIZE
  BY <1>1, SizesAssumption DEF NoRoom
<1>3. 0 \in 0 .. FLASH_SIZE
  BY SizesAssumption
<1>4. NewDesc(req, parent) \in fs_descriptor
  BY <1>1, <1>2, <1>3 DEF NewDesc, fs_descriptor, CreateReq, FileType
<1>5. HasParent(NewDesc(req, parent))
  BY DEF HasParent, NewDesc
<1>6. TypeOK'
  BY <1>4 DEF CardTypes, TypeOK, Pc
<1> QED
  BY <1>5, <1>6 DEF CardTypes

\* The store after an allocation.
LEMMA AllocTypes ==
  ASSUME CardTypes, NEW o \in Outcome, NEW n \in Nat, fs_store_alloc_data(o, n)
  PROVE  StoreTypeOK' /\ ParentsAreSlots' /\ (o = "torn" => ram' = RamAtPowerOn)
<1>1. ram \in s_sb /\ ram.data_top \in Nat
  BY DEF CardTypes, TypeOK, StoreTypeOK, s_sb
<1>2. ram.data_top + n \in Nat
  BY <1>1
<1>3. [ram EXCEPT !.data_top = @ + n] \in s_sb
  BY <1>1, <1>2 DEF s_sb
<1> QED
  BY <1>2, <1>3, SbWriteTypes DEF fs_store_alloc_data

\* allocates the data of a row,
LEMMA PersonaliseRowTypes ==
  ASSUME CardTypes, personalise_row PROVE CardTypes'
<1> DEFINE req == RowReq(row)
           p == Layout[row].parent
           Place == /\ pc' = "place"
                    /\ job' = [slot |-> row, d |-> NewDesc(req, p)]
                    /\ rsp' = NoRsp
                    /\ UNCHANGED <<life, sel, row, walk>>
<1>1. row \in 1 .. Len(Layout)
  <2>1. row \in 1 .. Len(Layout) + 1 /\ row <= Len(Layout)
    BY DEF personalise_row, CardTypes
  <2> QED
    BY <2>1, LayoutLen
<1>2. /\ row \in Slot /\ req \in CreateReq /\ p \in Slot /\ Layout[row].index = row
      /\ req.type = Layout[row].type /\ req.size = Layout[row].size
  BY <1>1, RowFacts, LayoutAssumption DEF LayoutRow, RowReq
<1>3. CASE Layout[row].type = "EF" /\ NoRoom(Layout[row].size)
  <2>1. InitFailed /\ UNCHANGED storeVars
    BY <1>3 DEF personalise_row
  <2> QED
    BY <2>1, QuietType, FailedTypes DEF CardTypes, TypeOK, ParentsAreSlots, storeVars
<1>4. CASE ~(Layout[row].type = "EF" /\ NoRoom(Layout[row].size))
  <2>1. AllocThenPlace(req, row, p, InitFailed)
    BY <1>2, <1>4 DEF personalise_row
  <2>2. ASSUME Place, StoreTypeOK', ParentsAreSlots' PROVE CardTypes'
    BY <1>1, <1>2, <1>4, <2>2, PlaceTypes
  <2>3. CASE req.type = "EF"
    <3>1. PICK o \in Outcome : fs_store_alloc_data(o, req.size) /\ After(o, Place, InitFailed)
      BY <2>1, <2>3 DEF AllocThenPlace
    <3>2. req.size \in Nat
      BY <1>2 DEF CreateReq
    <3>3. StoreTypeOK' /\ ParentsAreSlots' /\ (o = "torn" => ram' = RamAtPowerOn)
      BY <3>1, <3>2, AllocTypes
    <3>4. CASE o = "done"
      BY <2>2, <3>1, <3>3, <3>4 DEF After
    <3>5. CASE o = "torn"
      BY <3>1, <3>3, <3>5, LostTypes DEF After
    <3>6. CASE o \in {"failed", "unsynced"}
      BY <3>1, <3>3, <3>6, FailedTypes DEF After
    <3> QED
      BY <3>4, <3>5, <3>6, Outcomes
  <2>4. CASE req.type # "EF"
    <3>1. Place /\ UNCHANGED storeVars
      BY <2>1, <2>4 DEF AllocThenPlace
    <3>2. StoreTypeOK' /\ ParentsAreSlots'
      BY <3>1, QuietType DEF CardTypes, TypeOK, ParentsAreSlots, storeVars
    <3> QED
      BY <2>2, <3>1, <3>2
  <2> QED
    BY <2>3, <2>4
<1> QED
  BY <1>3, <1>4

\* and ends.
LEMMA PersonaliseDoneTypes ==
  ASSUME CardTypes, personalise_done PROVE CardTypes'
<1>1. /\ pc' = "ready" /\ life' = "OPERATIONAL" /\ sel' = fs_selection_reset /\ row' = 0
      /\ UNCHANGED <<storeVars, job, walk, rsp>>
  BY DEF personalise_done
<1>2. StoreTypeOK' /\ ParentsAreSlots'
  BY <1>1, QuietType DEF CardTypes, TypeOK, ParentsAreSlots, storeVars
<1>3. row' \in 0 .. FS_MAX_FILES + Len(Layout)
  BY <1>1, LayoutLen, SizesAssumption
<1>4. TypeOK'
  BY <1>1, <1>2, <1>3, ResetType DEF CardTypes, TypeOK, Pc, scos_lifecycle
<1> QED
  BY <1>1, <1>2, <1>4 DEF CardTypes

\* A descriptor is stored.
LEMMA PlaceDescTypes ==
  ASSUME CardTypes, place_desc PROVE CardTypes'
<1>1. PICK o \in Outcome :
        /\ desc_write(o, job.slot, job.d)
        /\ IF life = "INITIALISING"
           THEN After(o, /\ pc' = "row"
                         /\ row' = row + 1
                         /\ job' = NoJob
                         /\ UNCHANGED <<life, sel, walk, rsp>>,
                      InitFailed)
           ELSE After(o, Answer(SW("9000")) /\ UNCHANGED sel, MemoryFailure)
  BY DEF place_desc, fs_store_write_desc
<1>2. job.slot \in Slot /\ job.d \in fs_descriptor /\ HasParent(job.d)
  BY DEF CardTypes, TypeOK
<1>3. StoreTypeOK' /\ ParentsAreSlots' /\ (o = "torn" => ram' = RamAtPowerOn)
  BY <1>1, <1>2, DescWriteTypes
<1>4. CASE o = "torn"
  BY <1>1, <1>3, <1>4, LostTypes DEF After
<1>5. CASE o # "torn" /\ life # "INITIALISING"
  <2>1. sel' = sel /\ \E r : Answer(r)
    BY <1>1, <1>5, Outcomes DEF After, MemoryFailure
  <2> QED
    BY <1>3, <2>1, AnswerTypes DEF CardTypes, TypeOK
<1>6. CASE o \in {"failed", "unsynced"} /\ life = "INITIALISING"
  BY <1>1, <1>3, <1>6, FailedTypes DEF After
<1>7. CASE o = "done" /\ life = "INITIALISING"
  <2>1. pc' = "row" /\ row' = row + 1 /\ job' = NoJob /\ UNCHANGED <<life, sel, walk, rsp>>
    BY <1>1, <1>7 DEF After
  <2>2. row \in 1 .. Len(Layout)
    BY <1>7 DEF place_desc, CardTypes
  <2>3. row' \in 1 .. Len(Layout) + 1 /\ row' \in 0 .. FS_MAX_FILES + Len(Layout)
    BY <2>1, <2>2, LayoutLen, SizesAssumption
  <2>4. TypeOK'
    BY <1>3, <2>1, <2>3, NoJobType DEF CardTypes, TypeOK, Pc
  <2> QED
    BY <1>3, <2>1, <2>3, <2>4, NoDescParent DEF CardTypes
<1> QED
  BY <1>4, <1>5, <1>6, <1>7, Outcomes

-----------------------------------------------------------------------------
\* What resolves is a slot.
LEMMA ReadIsSlot ==
  ASSUME CardTypes, NEW i \in Index, fs_store_read_desc(i) = "OK"
  PROVE  i \in Slot
<1>1. ram.max_files \in 0 .. FS_MAX_FILES
  BY DEF CardTypes, TypeOK, StoreTypeOK, s_sb
<1>2. ~(i >= ram.max_files)
  BY DEF fs_store_read_desc
<1> QED
  BY <1>1, <1>2, SizesAssumption DEF Index, Slot

\* The selection of a slot is a DF and an EF that are slots.
LEMMA CommitTypes ==
  ASSUME CardTypes, NEW s, NEW i \in Slot, resolve(i) = "OK"
  PROVE  commit(s, i) \in fs_selection
<1>1. fs_store_read_desc(i) = "OK" /\ desc[i] \in fs_descriptor /\ HasParent(desc[i])
  BY DEF resolve, CardTypes, TypeOK, StoreTypeOK, ParentsAreSlots
<1>2. desc[i].type \in FileType
  BY <1>1 DEF fs_store_read_desc, fs_descriptor
<1>3. ~fs_is_df(desc[i]) => desc[i].parent \in Slot
  BY <1>1, <1>2 DEF fs_is_df, FileType, HasParent, fs_is_ef
<1> QED
  BY <1>3, SlotFacts DEF commit, fs_selection, Index

\* The target of a one-step SELECT is a slot.
LEMMA TargetTypes ==
  ASSUME CardTypes, NEW c, c.p1 \in 0 .. 3
  PROVE  select_target(c) \subseteq Slot
<1>1. /\ Readable \subseteq Slot
      /\ sel.cur_df \in Slot
      /\ desc[sel.cur_df].parent \in Slot \cup {FS_NO_PARENT}
  BY DEF CardTypes, TypeOK, StoreTypeOK, fs_selection, fs_descriptor, Readable
<1>2. \A fid : select_by_fid_target(sel, fid) \subseteq Slot
  BY <1>1, SearchSlots, SlotFacts DEF select_by_fid_target
<1>3. select_parent_target(sel) \subseteq Slot
  BY <1>1 DEF select_parent_target
<1> QED
  BY <1>1, <1>2, <1>3, SearchSlots DEF select_target

\* SELECT by identifier, child or parent.
LEMMA SelectTypes ==
  ASSUME CardTypes, scos_cmd_select PROVE CardTypes'
<1>1. UNCHANGED storeVars /\ sel \in fs_selection
  BY DEF scos_cmd_select, CardTypes, TypeOK
<1>2. PICK c \in SelectCmds :
        \/ \E sw : RefuseSelect(sw)
        \/ c.p1 \in 0 .. 3 /\ \E i \in select_target(c) : SelectSlot(c, i)
  BY DEF scos_cmd_select
<1>3. CASE \E sw : RefuseSelect(sw)
  BY <1>1, <1>3, QuietTypes DEF RefuseSelect
<1>4. ASSUME c.p1 \in 0 .. 3, NEW i \in select_target(c), SelectSlot(c, i)
      PROVE  CardTypes'
  <2>1. CASE \E sw : RefuseSelect(sw)
    BY <1>3, <2>1
  <2>2. CASE resolve(i) = "OK" /\ FinishSelect(c, commit(sel, i))
    <3>1. commit(sel, i) \in fs_selection
      BY <1>4, <2>2, TargetTypes, CommitTypes
    <3>2. sel' \in fs_selection /\ \E r : Answer(r)
      BY <1>1, <2>2, <3>1 DEF FinishSelect
    <3> QED
      BY <1>1, <3>2, QuietTypes
  <2> QED
    BY <1>4, <2>1, <2>2 DEF SelectSlot
<1> QED
  BY <1>2, <1>3, <1>4

\* SELECT by path begins.
LEMMA SelectByPathTypes ==
  ASSUME CardTypes, select_by_path PROVE CardTypes'
<1>1. PICK c \in SelectCmds :
        walk' = [cmd |-> c, s |-> 1,
                 scratch |-> IF c.p1 = 8 THEN fs_selection_reset ELSE sel]
  BY DEF select_by_path
<1>2. UNCHANGED <<storeVars, life, sel, row, job>> /\ pc' = "walk"
  BY DEF select_by_path
<1>3. c \in SelectCmd
  BY CommandsAssumption
<1>4. StoreTypeOK' /\ ParentsAreSlots'
  BY <1>2, QuietType DEF CardTypes, TypeOK, ParentsAreSlots, storeVars
<1>5. walk' \in [cmd : SelectCmd, s : Nat, scratch : fs_selection]
  BY <1>1, <1>3, ResetType DEF CardTypes, TypeOK
<1>6. TypeOK'
  BY <1>2, <1>4, <1>5 DEF CardTypes, TypeOK, Pc
<1> QED
  BY <1>2, <1>4, <1>6 DEF CardTypes

\* A path walk goes on or ends.
LEMMA WalkOnTypes ==
  ASSUME CardTypes, UNCHANGED storeVars, pc = "walk", NEW s \in fs_selection, WalkOn(s)
  PROVE  CardTypes'
<1>1. CASE walk.s = Len(walk.cmd.path)
  <2>1. sel' \in fs_selection /\ \E r : Answer(r)
    BY <1>1 DEF WalkOn, FinishSelect, CardTypes, TypeOK
  <2> QED
    BY <2>1, QuietTypes
<1>2. CASE walk.s # Len(walk.cmd.path)
  <2>1. /\ walk' = [walk EXCEPT !.s = @ + 1, !.scratch = s]
        /\ UNCHANGED <<pc, life, sel, row, job, rsp>>
    BY <1>2 DEF WalkOn
  <2>2. walk' \in [cmd : SelectCmd, s : Nat, scratch : fs_selection]
    <3>1. walk \in [cmd : SelectCmd, s : Nat, scratch : fs_selection]
      BY DEF CardTypes, TypeOK
    <3>2. walk.s + 1 \in Nat
      BY <3>1
    <3> QED
      BY <2>1, <3>1, <3>2, Zenon
  <2>3. StoreTypeOK' /\ ParentsAreSlots'
    BY QuietType DEF CardTypes, TypeOK, ParentsAreSlots, storeVars
  <2>4. TypeOK'
    BY <2>1, <2>2, <2>3 DEF CardTypes, TypeOK
  <2> QED
    BY <2>1, <2>3, <2>4 DEF CardTypes
<1> QED
  BY <1>1, <1>2

\* One component of a path.
LEMMA WalkStepTypes ==
  ASSUME CardTypes, walk_step PROVE CardTypes'
<1> DEFINE fid == walk.cmd.path[walk.s]
           hits == fs_find_child(walk.scratch.cur_df, fid)
<1>1. pc = "walk" /\ UNCHANGED storeVars
  BY DEF walk_step
<1>2. walk.scratch \in fs_selection /\ sel \in fs_selection
  BY DEF CardTypes, TypeOK
<1>3. \/ WalkOn(walk.scratch)
      \/ \E sw : RefuseSelect(sw)
      \/ \E i \in hits : resolve(i) = "OK" /\ WalkOn(commit(walk.scratch, i))
  BY DEF walk_step
<1>4. ASSUME NEW i \in hits, resolve(i) = "OK", WalkOn(commit(walk.scratch, i))
      PROVE  CardTypes'
  <2>1. i \in Slot
    BY SearchSlots DEF Readable
  <2>2. commit(walk.scratch, i) \in fs_selection
    BY <1>4, <2>1, CommitTypes
  <2> QED
    BY <1>1, <1>4, <2>2, WalkOnTypes
<1>5. ASSUME WalkOn(walk.scratch) PROVE CardTypes'
  BY <1>1, <1>2, <1>5, WalkOnTypes
<1>6. ASSUME NEW sw, RefuseSelect(sw) PROVE CardTypes'
  BY <1>1, <1>2, <1>6, QuietTypes DEF RefuseSelect
<1> QED
  BY <1>3, <1>4, <1>5, <1>6

\* The refusals of scos_process, READ BINARY, and a reset.
LEMMA KernelTypes ==
  ASSUME CardTypes, process_fs_error \/ process_refused \/ scos_cmd_read_binary \/ scos_reset
  PROVE  CardTypes'
<1>1. sel \in fs_selection
  BY DEF CardTypes, TypeOK
<1>2. CASE process_fs_error \/ process_refused \/ scos_cmd_read_binary
  <2>1. UNCHANGED storeVars /\ sel' = sel /\ \E r : Answer(r)
    BY <1>2 DEF process_fs_error, process_refused, scos_cmd_read_binary
  <2> QED
    BY <1>1, <2>1, QuietTypes
<1>3. CASE scos_reset
  <2>1. /\ UNCHANGED <<storeVars, pc, row, job, walk>> /\ pc = "ready"
        /\ sel' = fs_selection_reset /\ life' = "OPERATIONAL"
    BY <1>3 DEF scos_reset
  <2>2. StoreTypeOK' /\ ParentsAreSlots'
    BY <2>1, QuietType DEF CardTypes, TypeOK, ParentsAreSlots, storeVars
  <2>3. TypeOK'
    BY <2>1, <2>2, ResetType DEF CardTypes, TypeOK, scos_lifecycle
  <2> QED
    BY <2>1, <2>2, <2>3 DEF CardTypes
<1> QED
  BY <1>2, <1>3

\* UPDATE BINARY writes bytes.
LEMMA UpdateBinaryTypes ==
  ASSUME CardTypes, scos_cmd_update_binary PROVE CardTypes'
<1>1. sel \in fs_selection
  BY DEF CardTypes, TypeOK
<1>2. CASE \E r : Answer(r) /\ UNCHANGED <<storeVars, sel>>
  BY <1>1, <1>2, QuietTypes
<1>3. PICK c \in UpdateCmds :
        \/ \E r : Answer(r) /\ UNCHANGED <<storeVars, sel>>
        \/ \E i \in target(c.to) :
             /\ ef_write_status(i, c.to.offset, Len(c.data)) = "OK"
             /\ \E o \in Outcome :
                  /\ fs_store_write_data(o, desc[i].data_offset + c.to.offset, c.data)
                  /\ LET done == /\ Answer(SW(fs_error_to_sw(write_data_status(o))))
                                 /\ UNCHANGED sel
                     IN After(o, done, done)
  BY DEF scos_cmd_update_binary
<1>4. ASSUME NEW i \in target(c.to), NEW o \in Outcome,
             ef_write_status(i, c.to.offset, Len(c.data)) = "OK",
             fs_store_write_data(o, desc[i].data_offset + c.to.offset, c.data),
             LET done == /\ Answer(SW(fs_error_to_sw(write_data_status(o))))
                         /\ UNCHANGED sel
             IN After(o, done, done)
      PROVE  CardTypes'
  <2>1. i \in Slot
    <3>1. i \in Index
      BY <1>1, SearchSlots DEF target, Readable, fs_selection, Index
    <3>2. fs_store_read_desc(i) = "OK"
      BY <1>4 DEF ef_write_status, resolve
    <3> QED
      BY <3>1, <3>2, ReadIsSlot
  <2>2. c.data \in Seq(Byte) /\ c.to.offset \in Nat
    <3>1. c \in UpdateCmd
      BY CommandsAssumption
    <3> QED
      BY <3>1 DEF UpdateCmd, BinaryTarget
  <2>3. desc[i].data_offset + c.to.offset \in Int
    <3>1. desc[i].data_offset \in Nat
      BY <2>1 DEF CardTypes, TypeOK, StoreTypeOK, fs_descriptor
    <3> QED
      BY <2>2, <3>1
  <2>4. StoreTypeOK'
    BY <1>4, <2>2, <2>3, WriteDataType DEF CardTypes, TypeOK
  <2>5. ParentsAreSlots' /\ (o = "torn" => ram' = RamAtPowerOn)
    BY <1>4 DEF fs_store_write_data, RamAfter, CardTypes, ParentsAreSlots
  <2>6. CASE o = "torn"
    BY <1>4, <2>4, <2>5, <2>6, LostTypes DEF After
  <2>7. CASE o # "torn"
    <3>1. sel' = sel /\ \E r : Answer(r)
      BY <1>4, <2>7, Outcomes DEF After
    <3> QED
      BY <1>1, <2>4, <2>5, <3>1, AnswerTypes
  <2> QED
    BY <2>6, <2>7
<1> QED
  BY <1>2, <1>3, <1>4

\* CREATE FILE checks the space that a descriptor says it has.
LEMMA CreateFileTypes ==
  ASSUME CardTypes, scos_cmd_create_file PROVE CardTypes'
<1>1. life = "OPERATIONAL" /\ sel \in fs_selection /\ sel.cur_df \in Slot
  BY DEF scos_cmd_create_file, Serving, CardTypes, TypeOK, fs_selection
<1>2. PICK req \in CreateReqs :
        \/ /\ create_status(sel, req) # "OK"
           /\ Answer(SW(fs_error_to_sw(create_status(sel, req))))
           /\ UNCHANGED <<storeVars, sel>>
        \/ /\ create_status(sel, req) = "OK"
           /\ \E slot \in fs_store_find_free_slot :
                AllocThenPlace(req, slot, sel.cur_df, MemoryFailure)
  BY DEF scos_cmd_create_file
<1>3. CASE create_status(sel, req) # "OK"
  BY <1>1, <1>2, <1>3, QuietTypes
<1>4. CASE create_status(sel, req) = "OK"
  <2> DEFINE p == sel.cur_df
  <2>1. PICK slot \in fs_store_find_free_slot : AllocThenPlace(req, slot, p, MemoryFailure)
    BY <1>2, <1>4
  <2> DEFINE Place == /\ pc' = "place"
                      /\ job' = [slot |-> slot, d |-> NewDesc(req, p)]
                      /\ rsp' = NoRsp
                      /\ UNCHANGED <<life, sel, row, walk>>
  <2>2. req \in CreateReq /\ slot \in Slot /\ (req.type = "EF" => ~NoRoom(req.size))
    BY <1>4, CommandsAssumption DEF fs_store_find_free_slot, First, FreeSlots, create_status
  <2>3. ASSUME Place, StoreTypeOK', ParentsAreSlots' PROVE CardTypes'
    BY <1>1, <2>2, <2>3, PlaceTypes
  <2>4. CASE req.type = "EF"
    <3>1. PICK o \in Outcome :
            fs_store_alloc_data(o, req.size) /\ After(o, Place, MemoryFailure)
      BY <2>1, <2>4 DEF AllocThenPlace
    <3>2. req.size \in Nat
      BY <2>2 DEF CreateReq
    <3>3. StoreTypeOK' /\ ParentsAreSlots' /\ (o = "torn" => ram' = RamAtPowerOn)
      BY <3>1, <3>2, AllocTypes
    <3>4. CASE o = "done"
      BY <2>3, <3>1, <3>3, <3>4 DEF After
    <3>5. CASE o = "torn"
      BY <3>1, <3>3, <3>5, LostTypes DEF After
    <3>6. CASE o \in {"failed", "unsynced"}
      <4>1. Answer(SW(fs_error_to_sw("NVM"))) /\ sel' = sel
        BY <3>1, <3>6 DEF After, MemoryFailure
      <4> QED
        BY <1>1, <3>3, <4>1, AnswerTypes
    <3> QED
      BY <3>4, <3>5, <3>6, Outcomes
  <2>5. CASE req.type # "EF"
    <3>1. Place /\ UNCHANGED storeVars
      BY <2>1, <2>5 DEF AllocThenPlace
    <3>2. StoreTypeOK' /\ ParentsAreSlots'
      BY <3>1, QuietType DEF CardTypes, TypeOK, ParentsAreSlots, storeVars
    <3> QED
      BY <2>3, <3>1, <3>2
  <2> QED
    BY <2>4, <2>5
<1> QED
  BY <1>3, <1>4

\* DELETE FILE frees a slot.
LEMMA DeleteFileTypes ==
  ASSUME CardTypes, scos_cmd_delete_file PROVE CardTypes'
<1>1. sel \in fs_selection
  BY DEF CardTypes, TypeOK
<1>2. CASE \E r : Answer(r) /\ UNCHANGED <<storeVars, sel>>
  BY <1>1, <1>2, QuietTypes
<1>3. ASSUME NEW fid \in DeleteFids, NEW i \in fs_find_child(sel.cur_df, fid),
             NEW o \in Outcome, fs_store_free_desc(o, i),
             After(o, Answer(SW("9000")) /\ sel' = deselect(sel, i), MemoryFailure)
      PROVE  CardTypes'
  <2>1. desc_write(o, i, FreeDesc) /\ i \in Slot
    BY <1>3, SearchSlots DEF fs_store_free_desc, Readable
  <2>2. StoreTypeOK' /\ ParentsAreSlots' /\ (o = "torn" => ram' = RamAtPowerOn)
    BY <2>1, DescWriteTypes, NoDescType, NoDescParent
  <2>3. CASE o = "torn"
    BY <1>3, <2>2, <2>3, LostTypes DEF After
  <2>4. CASE o # "torn"
    <3>1. deselect(sel, i) \in fs_selection
      BY <1>1, ResetType DEF deselect, fs_selection, Index
    <3>2. sel' \in fs_selection /\ \E r : Answer(r)
      BY <1>1, <1>3, <2>4, <3>1, Outcomes DEF After, MemoryFailure
    <3> QED
      BY <2>2, <3>2, AnswerTypes
  <2> QED
    BY <2>3, <2>4
<1>4. \/ \E r : Answer(r) /\ UNCHANGED <<storeVars, sel>>
      \/ \E fid \in DeleteFids : \E i \in fs_find_child(sel.cur_df, fid) :
           \E o \in Outcome :
             /\ fs_store_free_desc(o, i)
             /\ After(o, Answer(SW("9000")) /\ sel' = deselect(sel, i), MemoryFailure)
  BY DEF scos_cmd_delete_file
<1> QED
  BY <1>2, <1>3, <1>4

\* Every step of a session keeps the types.
LEMMA SessionTypes ==
  ASSUME CardTypes, scos_init \/ Internal \/ Command \/ scos_reset
  PROVE  CardTypes'
<1>1. CASE Internal
  BY <1>1, FormatSlotTypes, FormatDoneTypes, PersonaliseMfTypes, PersonaliseRowTypes,
     PersonaliseDoneTypes, PlaceDescTypes, WalkStepTypes DEF Internal
<1>2. CASE Command
  BY <1>2, KernelTypes, SelectTypes, SelectByPathTypes, UpdateBinaryTypes,
     CreateFileTypes, DeleteFileTypes DEF Command
<1> QED
  BY <1>1, <1>2, ScosInitTypes, KernelTypes

-----------------------------------------------------------------------------
\* A memory without the magic and without a file is sound.
LEMMA NothingStored ==
  ASSUME ~sb'.magic, \A i \in Slot : desc'[i].type \notin FileType,
         ram' = RamAtPowerOn
  PROVE  StoreInv'
<1>1. Files' = {} /\ EFs' = {}
  BY DEF Files, EFs, fs_is_ef, FileType
<1>2. ~Formatted' /\ ~ram'.mounted
  BY DEF Formatted, mount_status, RamAtPowerOn
<1> QED
  BY <1>1, <1>2 DEF StoreInv, SuperblockInv, DataApart, TreeWellFormed, SiblingsUnique

\* Losing the memory with the process leaves a card that is off and unformatted.
LEMMA MemoryLostInv ==
  ASSUME MemoryLost
  PROVE  CardInvariant' /\ pc' = "off"
<1>1. PICK m \in Sram : sb' = m.sb /\ desc' = m.desc /\ flash' = m.flash
  BY DEF MemoryLost
<1>2. ram' = RamAtPowerOn /\ RamLost /\ pc' = "off"
  BY DEF MemoryLost, RamLost
<1>3. m \in Memory /\ ~m.sb.magic /\ \A i \in Slot : m.desc[i].type \in {"FREE", "BAD"}
  BY <1>1, SramAssumption
<1>4. StoreTypeOK'
  <2>1. RamAtPowerOn \in s_sb
    BY SizesAssumption DEF RamAtPowerOn, s_sb
  <2> QED
    BY <1>1, <1>2, <1>3, <2>1 DEF StoreTypeOK, Memory
<1>5. StoreInv'
  <2>1. \A i \in Slot : desc'[i].type \notin FileType
    BY <1>1, <1>3 DEF FileType
  <2> QED
    BY <1>1, <1>2, <1>3, <2>1, NothingStored
<1> QED
  BY <1>2, <1>4, <1>5, PowerLost DEF CardInvariant

\* The memory of a process that is gone.
LEMMA MemoryLostTypes ==
  ASSUME MemoryLost PROVE CardTypes'
<1>1. PICK m \in Sram : sb' = m.sb /\ desc' = m.desc /\ flash' = m.flash
  BY DEF MemoryLost
<1>2. ram' = RamAtPowerOn /\ RamLost
  BY DEF MemoryLost
<1>3. StoreTypeOK'
  BY MemoryLostInv DEF CardInvariant, TypeOK
<1>4. ParentsAreSlots'
  BY <1>1, SramAssumption DEF ParentsAreSlots, HasParent, fs_is_ef
<1> QED
  BY <1>2, <1>3, <1>4, LostTypes

\* A memory that is loaded between sessions.
LEMMA PowerOnTypes ==
  ASSUME HostTypes, vcard_power_on \/ scv1_nvm_power_on \/ programmed
  PROVE  CardTypes'
<1>1. UNCHANGED <<ram, kernelVars>>
  BY DEF vcard_power_on, scv1_nvm_power_on, programmed
<1>2. sb' \in {eeprom.sb, BlankSb, sb}
  BY DEF vcard_power_on, scv1_nvm_power_on, programmed
<1>3. desc' \in {eeprom.desc, NoFiles, desc}
  BY DEF vcard_power_on, scv1_nvm_power_on, programmed
<1>4. flash' \in {dflash.flash, ErasedFlash, flash}
  BY DEF vcard_power_on, scv1_nvm_power_on, programmed
<1>5. StoreTypeOK'
  BY <1>1, <1>2, <1>3, <1>4, ErasedType
  DEF HostTypes, HostTypeOK, EepromFile, FlashFile, CardTypes, TypeOK, StoreTypeOK
<1>6. ParentsAreSlots'
  BY <1>3, NoDescParent DEF HostTypes, CardTypes, ParentsAreSlots, NoFiles
<1> QED
  BY <1>1, <1>5, <1>6 DEF HostTypes, CardTypes, TypeOK, kernelVars

\* What a store leaves in card_eeprom.bin, a prefix of the memory included.
LEMMA EepromFileType ==
  ASSUME HostTypes, NEW o \in {"done"} \cup EepromFaults,
         eeprom' \in Stored(o, eeprom, WholeEeprom, ShortEeprom)
  PROVE  eeprom' \in EepromFile /\ \A i \in Slot : HasParent(eeprom'.desc[i])
<1>1. sb \in superblock /\ desc \in [Slot -> fs_descriptor] /\ ParentsAreSlots
  BY DEF HostTypes, CardTypes, TypeOK, StoreTypeOK
<1>2. o \in {"done", "failed", "short"}
  BY HostFaultsAssumption
<1>3. CASE o = "done"
  <2>1. eeprom' = [present |-> TRUE, sb |-> sb, desc |-> desc]
    BY <1>3 DEF Stored, WholeEeprom
  <2> QED
    BY <1>1, <2>1 DEF EepromFile, ParentsAreSlots
<1>4. CASE o = "failed"
  BY <1>4 DEF Stored, HostTypes, HostTypeOK
<1>5. CASE o = "short"
  <2>1. eeprom' \in ShortEeprom
    BY <1>5 DEF Stored
  <2>2. \A i \in Slot : HasParent(NoFiles[i])
    BY NoDescParent DEF NoFiles
  <2>3. CASE eeprom' \in {[present |-> p, sb |-> BlankSb, desc |-> NoFiles] : p \in BOOLEAN}
    BY <2>2, <2>3, ErasedType DEF EepromFile
  <2>4. CASE eeprom' = [present |-> TRUE, sb |-> [sb EXCEPT !.crc = FALSE], desc |-> NoFiles]
    <3>1. [sb EXCEPT !.crc = FALSE] \in superblock
      BY <1>1, Zenon DEF superblock
    <3> QED
      BY <2>2, <2>4, <3>1, ErasedType DEF EepromFile
  <2>5. ASSUME NEW k \in Slot, NEW d \in {FreeDesc, BadDesc},
               eeprom' = [present |-> TRUE, sb |-> sb,
                 desc |-> [i \in Slot |-> IF i < k THEN desc[i]
                                          ELSE IF i = k /\ desc[k].type # "FREE" THEN d
                                          ELSE FreeDesc]]
        PROVE  eeprom' \in EepromFile /\ \A i \in Slot : HasParent(eeprom'.desc[i])
    <3> DEFINE t == [i \in Slot |-> IF i < k THEN desc[i]
                                    ELSE IF i = k /\ desc[k].type # "FREE" THEN d
                                    ELSE FreeDesc]
    <3>1. \A i \in Slot : t[i] \in {desc[i], FreeDesc, BadDesc}
      OBVIOUS
    <3>2. t \in [Slot -> fs_descriptor]
      BY <1>1, <3>1, NoDescType
    <3>3. \A i \in Slot : HasParent(t[i])
      BY <1>1, <3>1, NoDescParent DEF ParentsAreSlots
    <3>4. eeprom' = [present |-> TRUE, sb |-> sb, desc |-> t]
      BY <2>5
    <3> HIDE DEF t
    <3> QED
      BY <1>1, <3>2, <3>3, <3>4 DEF EepromFile
  <2> QED
    BY <2>1, <2>3, <2>4, <2>5 DEF ShortEeprom
<1> QED
  BY <1>2, <1>3, <1>4, <1>5

\* What a store leaves in card_flash.bin has its type, short or whole.
LEMMA FlashFileType ==
  ASSUME flash \in [0 .. FLASH_SIZE - 1 -> Byte],
         dflash.flash \in [0 .. FLASH_SIZE - 1 -> Byte],
         NEW o, o \in {"done"} \cup FlashFaults,
         dflash' \in Stored(o, dflash, WholeFlash, ShortFlash)
  PROVE  dflash'.flash \in [0 .. FLASH_SIZE - 1 -> Byte]
<1>1. o \in {"done", "failed", "short"}
  BY HostFaultsAssumption
<1>2. CASE o = "done"
  BY <1>2 DEF Stored, WholeFlash
<1>3. CASE o = "failed"
  BY <1>3 DEF Stored
<1>4. CASE o = "short"
  <2>1. PICK k \in 0 .. FLASH_SIZE - 1 :
          dflash' = [present |-> k > 0,
                     flash |-> [c \in DOMAIN flash |-> IF c < k THEN flash[c] ELSE Erased]]
    BY <1>4 DEF Stored, ShortFlash
  <2>2. dflash'.flash = [c \in 0 .. FLASH_SIZE - 1 |-> IF c < k THEN flash[c] ELSE Erased]
    BY <2>1
  <2> QED
    BY <2>2, NamesAssumption
<1> QED
  BY <1>1, <1>2, <1>3, <1>4

\* What a store leaves in card_flash.bin.
LEMMA FlashFileTypes ==
  ASSUME HostTypes, NEW o \in {"done"} \cup FlashFaults,
         dflash' \in Stored(o, dflash, WholeFlash, ShortFlash)
  PROVE  dflash' \in FlashFile
<1>1. flash \in [0 .. FLASH_SIZE - 1 -> Byte] /\ dflash \in FlashFile
  BY DEF HostTypes, HostTypeOK, CardTypes, TypeOK, StoreTypeOK
<1>2. dflash'.flash \in [0 .. FLASH_SIZE - 1 -> Byte]
  BY <1>1, FlashFileType DEF FlashFile
<1>3. o \in {"done", "failed", "short"}
  BY HostFaultsAssumption
<1>4. CASE o = "done"
  <2>1. dflash' = [present |-> TRUE, flash |-> flash]
    BY <1>4 DEF Stored, WholeFlash
  <2> QED
    BY <1>1, <2>1 DEF FlashFile
<1>5. CASE o = "failed"
  BY <1>1, <1>5 DEF Stored
<1>6. CASE o = "short"
  <2>1. PICK k \in 0 .. FLASH_SIZE - 1 :
          dflash' = [present |-> k > 0,
                     flash |-> [c \in DOMAIN flash |-> IF c < k THEN flash[c] ELSE Erased]]
    BY <1>6 DEF Stored, ShortFlash
  <2>2. PICK x : x = dflash'.flash
    OBVIOUS
  <2>3. dflash' = [present |-> k > 0, flash |-> x]
    BY <2>1, <2>2
  <2>4. (k > 0) \in BOOLEAN
    OBVIOUS
  <2> QED
    BY <1>2, <2>2, <2>3, <2>4 DEF FlashFile
<1> QED
  BY <1>3, <1>4, <1>5, <1>6

\* Every step of the host keeps the types.
LEMMA HostNextTypes ==
  ASSUME HostTypes, [HostNext]_allVars PROVE HostTypes'
<1>1. CASE vcard_power_on \/ scv1_nvm_power_on \/ programmed
  <2>1. eeprom' = eeprom /\ dflash' = dflash /\ host' \in {"up", host} /\ backed' \in BOOLEAN
    BY <1>1 DEF vcard_power_on, scv1_nvm_power_on, programmed, hostVars, HostTypes, HostTypeOK
  <2>2. spoilt' \subseteq spoilt \cup {"flash_uninitialised"}
    BY <1>1 DEF vcard_power_on, scv1_nvm_power_on, programmed, hostVars
  <2> QED
    BY <1>1, <2>1, <2>2, PowerOnTypes DEF HostTypes, HostTypeOK
<1>2. CASE Processor \/ Reader
  BY <1>2, SessionTypes DEF Processor, Reader, HostTypes, HostTypeOK, hostVars
<1>3. CASE link_down \/ killed
  <2>1. eeprom' = eeprom /\ dflash' = dflash /\ spoilt' = spoilt
    BY <1>3 DEF link_down, killed
  <2>2. CASE MemoryLost
    BY <2>1, <2>2, MemoryLostTypes DEF MemoryLost, HostTypes, HostTypeOK
  <2>3. CASE host' = "save_eeprom" /\ UNCHANGED <<vars, backed>>
    BY <2>1, <2>3 DEF HostTypes, HostTypeOK, CardTypes, TypeOK, StoreTypeOK, ParentsAreSlots, vars
  <2> QED
    BY <1>3, <2>2, <2>3 DEF link_down, killed
<1>4. CASE save_eeprom
  <2>1. PICK o \in {"done"} \cup EepromFaults :
          /\ eeprom' \in Stored(o, eeprom, WholeEeprom, ShortEeprom)
          /\ spoilt' = IF o = "short" THEN spoilt \cup {"eeprom_cut"} ELSE spoilt
    BY <1>4 DEF save_eeprom
  <2>2. host' = "save_flash" /\ UNCHANGED <<vars, backed, dflash>>
    BY <1>4 DEF save_eeprom
  <2>3. CardTypes'
    BY <2>2 DEF HostTypes, CardTypes, TypeOK, StoreTypeOK, ParentsAreSlots, vars
  <2> QED
    BY <2>1, <2>2, <2>3, EepromFileType DEF HostTypes, HostTypeOK
<1>5. CASE save_flash
  <2>1. PICK o \in {"done"} \cup FlashFaults :
          /\ dflash' \in Stored(o, dflash, WholeFlash, ShortFlash)
          /\ spoilt' = IF o # "failed" /\ eeprom # WholeEeprom
                       THEN spoilt \cup {"flash_ahead"} ELSE spoilt
    BY <1>5 DEF save_flash
  <2>2. MemoryLost /\ eeprom' = eeprom
    BY <1>5 DEF save_flash
  <2>3. host' = "down" /\ backed' = FALSE
    BY <2>2 DEF MemoryLost
  <2> QED
    BY <2>1, <2>2, <2>3, MemoryLostTypes, FlashFileTypes DEF HostTypes, HostTypeOK
<1>6. CASE UNCHANGED allVars
  BY <1>6 DEF HostTypes, HostTypeOK, CardTypes, TypeOK, StoreTypeOK, ParentsAreSlots,
              allVars, hostVars, vars
<1> QED
  BY <1>1, <1>2, <1>3, <1>4, <1>5, <1>6 DEF HostNext

\* The type invariant of the host, and with it that of the card: they hold on
\* whatever a truncated file makes the card load.
THEOREM HostTypeCorrect == HostSpec => [](HostTypeOK /\ TypeOK)
<1>1. HostInit => HostTypes
  <2> SUFFICES ASSUME HostInit PROVE HostTypes
    OBVIOUS
  <2>1. CardInvariant
    BY InitInv DEF HostInit
  <2>2. /\ eeprom = [present |-> FALSE, sb |-> BlankSb, desc |-> NoFiles]
        /\ dflash = [present |-> FALSE, flash |-> ErasedFlash]
        /\ pc = "off" /\ row = 0 /\ job = NoJob /\ desc = NoFiles
    BY DEF HostInit, Init, StoreInit, NoFiles
  <2>3. \A i \in Slot : HasParent(NoFiles[i])
    BY NoDescParent DEF NoFiles
  <2>4. CardTypes
    BY <2>1, <2>2, <2>3, NoDescParent DEF CardTypes, CardInvariant, ParentsAreSlots
  <2>5. HostTypeOK
    <3>1. eeprom \in EepromFile
      BY <2>2, ErasedType DEF EepromFile
    <3>2. dflash \in FlashFile
      BY <2>2, ErasedType DEF FlashFile
    <3> QED
      BY <3>1, <3>2 DEF HostInit, HostTypeOK
  <2> QED
    BY <2>2, <2>3, <2>4, <2>5 DEF HostTypes
<1>2. HostTypes /\ [HostNext]_allVars => HostTypes'
  BY HostNextTypes
<1>3. HostTypes => HostTypeOK /\ TypeOK
  BY DEF HostTypes, CardTypes
<1> QED
  BY <1>1, <1>2, <1>3, PTL DEF HostSpec

-----------------------------------------------------------------------------
(***************************************************************************)
(* The invariant of memory and files.                                      *)
(***************************************************************************)
\* The card that the next load of the files would power on.
Saved == INSTANCE CardInv WITH
  sb <- eeprom.sb, desc <- eeprom.desc, flash <- dflash.flash, ram <- RamAtPowerOn

FilesInv ==
  /\ eeprom.sb \in superblock
  /\ eeprom.desc \in [Slot -> fs_descriptor]
  /\ dflash.flash \in [0 .. FLASH_SIZE - 1 -> Byte]
  /\ Saved!StoreInv

\* The inductive invariant: as long as no card_eeprom.bin was truncated, memory
\* and files both hold a sound card, and the card is off between sessions.
HostInv ==
  "eeprom_cut" \notin spoilt =>
    /\ CardInvariant
    /\ FilesInv
    /\ host = "down" => pc = "off"

-----------------------------------------------------------------------------
(***************************************************************************)
(* Moving a table between memory and file.                                 *)
(***************************************************************************)
\* A load makes the memory as sound as the files are.
LEMMA Loaded ==
  ASSUME Saved!StoreInv, sb' = eeprom.sb, desc' = eeprom.desc, ram' = RamAtPowerOn
  PROVE  StoreInv'
<1>1. /\ Files' = Saved!Files /\ EFs' = Saved!EFs
      /\ Formatted' = Saved!Formatted
  BY DEF Files, EFs, Formatted, mount_status, fs_is_ef, Slot, FileType,
         Saved!Files, Saved!EFs, Saved!Formatted, Saved!mount_status, Saved!fs_is_ef,
         Saved!Slot, Saved!FileType
<1>2. SuperblockInv'
  BY <1>1 DEF SuperblockInv, DataBelow, RamAtPowerOn, Saved!StoreInv,
              Saved!SuperblockInv, Saved!DataBelow
<1>3. DataApart'
  BY <1>1 DEF DataApart, Apart, Saved!StoreInv, Saved!DataApart, Saved!Apart
<1>4. TreeWellFormed'
  BY <1>1 DEF TreeWellFormed, fs_is_df, FS_ROOT_INDEX, Saved!StoreInv,
              Saved!TreeWellFormed, Saved!fs_is_df, Saved!FS_ROOT_INDEX
<1>5. SiblingsUnique'
  BY <1>1 DEF SiblingsUnique, fs_is_ef, FS_NO_SFI, Saved!StoreInv,
              Saved!SiblingsUnique, Saved!fs_is_ef, Saved!FS_NO_SFI
<1> QED
  BY <1>2, <1>3, <1>4, <1>5 DEF StoreInv

\* A whole store makes the files as sound as the memory is.
LEMMA Saves ==
  ASSUME StoreInv, eeprom'.sb = sb, eeprom'.desc = desc
  PROVE  Saved!StoreInv'
<1>1. /\ Files = Saved!Files' /\ EFs = Saved!EFs'
      /\ Formatted = Saved!Formatted'
  BY DEF Files, EFs, Formatted, mount_status, fs_is_ef, Slot, FileType,
         Saved!Files, Saved!EFs, Saved!Formatted, Saved!mount_status, Saved!fs_is_ef,
         Saved!Slot, Saved!FileType
<1>2. Saved!SuperblockInv'
  BY <1>1 DEF StoreInv, SuperblockInv, DataBelow, RamAtPowerOn,
              Saved!SuperblockInv, Saved!DataBelow
<1>3. Saved!DataApart'
  BY <1>1 DEF StoreInv, DataApart, Apart, Saved!DataApart, Saved!Apart
<1>4. Saved!TreeWellFormed'
  BY <1>1 DEF StoreInv, TreeWellFormed, fs_is_df, FS_ROOT_INDEX,
              Saved!TreeWellFormed, Saved!fs_is_df, Saved!FS_ROOT_INDEX
<1>5. Saved!SiblingsUnique'
  BY <1>1 DEF StoreInv, SiblingsUnique, fs_is_ef, FS_NO_SFI,
              Saved!SiblingsUnique, Saved!fs_is_ef, Saved!FS_NO_SFI
<1> QED
  BY <1>2, <1>3, <1>4, <1>5 DEF Saved!StoreInv

\* The same of a file.
LEMMA NothingSaved ==
  ASSUME eeprom.sb = BlankSb, eeprom.desc = NoFiles
  PROVE  Saved!StoreInv
<1>1. Saved!Files = {} /\ Saved!EFs = {}
  BY DEF NoFiles, FreeDesc, NoDesc, Saved!Files, Saved!EFs, Saved!fs_is_ef,
         Saved!FileType, Slot, Saved!Slot
<1>2. ~Saved!Formatted /\ ~RamAtPowerOn.mounted
  BY DEF BlankSb, RamAtPowerOn, Saved!Formatted, Saved!mount_status
<1> QED
  BY <1>1, <1>2 DEF Saved!StoreInv, Saved!SuperblockInv, Saved!DataApart,
                    Saved!TreeWellFormed, Saved!SiblingsUnique

\* The files a step leaves alone stay sound.
LEMMA FilesKept ==
  ASSUME FilesInv, eeprom' = eeprom,
         dflash'.flash \in [0 .. FLASH_SIZE - 1 -> Byte]
  PROVE  FilesInv'
<1>1. /\ Saved!Files' = Saved!Files /\ Saved!EFs' = Saved!EFs
      /\ Saved!Formatted' = Saved!Formatted
  BY DEF Saved!Files, Saved!EFs, Saved!Formatted, Saved!mount_status
<1>2. Saved!StoreInv'
  BY <1>1 DEF FilesInv, Saved!StoreInv, Saved!SuperblockInv, Saved!DataBelow,
              Saved!DataApart, Saved!TreeWellFormed, Saved!SiblingsUnique
<1> QED
  BY <1>2 DEF FilesInv

-----------------------------------------------------------------------------
(***************************************************************************)
(* The steps of a session.                                                 *)
(***************************************************************************)
\* Between sessions the card is off, so only its memory can change.
LEMMA OffInv ==
  ASSUME CardInvariant, pc = "off", UNCHANGED <<ram, kernelVars>>,
         sb' \in superblock, desc' \in [Slot -> fs_descriptor],
         flash' \in [0 .. FLASH_SIZE - 1 -> Byte], ram' = RamAtPowerOn => StoreInv'
  PROVE  CardInvariant' /\ pc' = "off"
<1>1. ram' = RamAtPowerOn /\ UNCHANGED kernelVars
  BY DEF CardInvariant, StageInv
<1>2. TypeOK'
  BY <1>1 DEF CardInvariant, TypeOK, StoreTypeOK, kernelVars
<1>3. StageInv'
  BY <1>1 DEF CardInvariant, StageInv, kernelVars
<1> QED
  BY <1>1, <1>2, <1>3 DEF CardInvariant, kernelVars

\* Either power-on, or a programmer, puts a sound card into memory.
LEMMA PowerOnInv ==
  ASSUME CardInvariant, FilesInv, host = "down" => pc = "off",
         vcard_power_on \/ scv1_nvm_power_on \/ programmed
  PROVE  CardInvariant' /\ FilesInv' /\ pc' = "off"
<1>1. /\ pc = "off" /\ UNCHANGED <<ram, kernelVars>>
      /\ eeprom' = eeprom /\ dflash' = dflash
  BY DEF vcard_power_on, scv1_nvm_power_on, programmed, hostVars
<1>2. FilesInv'
  BY <1>1, FilesKept DEF FilesInv
<1>3. \/ sb' = eeprom.sb /\ desc' = eeprom.desc
      \/ sb' = BlankSb /\ desc' = NoFiles
      \/ sb' = sb /\ desc' = desc
  BY DEF vcard_power_on, scv1_nvm_power_on, programmed
<1>4. flash' \in {dflash.flash, ErasedFlash, flash}
  BY DEF vcard_power_on, scv1_nvm_power_on, programmed
<1>5. flash' \in [0 .. FLASH_SIZE - 1 -> Byte]
  BY <1>4, ErasedType DEF FilesInv, CardInvariant, TypeOK, StoreTypeOK
<1>6. CASE sb' = eeprom.sb /\ desc' = eeprom.desc
  <2>1. ram' = RamAtPowerOn => StoreInv'
    BY <1>6, Loaded DEF FilesInv
  <2>2. sb' \in superblock /\ desc' \in [Slot -> fs_descriptor]
    BY <1>6 DEF FilesInv
  <2> QED
    BY <1>1, <1>2, <1>5, <2>1, <2>2, OffInv
<1>7. CASE sb' = BlankSb /\ desc' = NoFiles
  <2>1. ram' = RamAtPowerOn => StoreInv'
    BY <1>7, ErasedType, NothingStored
  <2>2. sb' \in superblock /\ desc' \in [Slot -> fs_descriptor]
    BY <1>7, ErasedType
  <2> QED
    BY <1>1, <1>2, <1>5, <2>1, <2>2, OffInv
<1>8. CASE sb' = sb /\ desc' = desc
  <2>1. sb' \in superblock /\ desc' \in [Slot -> fs_descriptor]
    BY <1>8 DEF CardInvariant, TypeOK, StoreTypeOK
  <2>2. ram' = ram /\ ram \in s_sb
    BY <1>1 DEF CardInvariant, TypeOK, StoreTypeOK
  <2>3. StoreInv'
    BY <1>5, <1>8, <2>1, <2>2, QuietInv DEF CardInvariant, TypeOK, StoreTypeOK
  <2> QED
    BY <1>1, <1>2, <1>5, <2>1, <2>3, OffInv
<1> QED
  BY <1>3, <1>6, <1>7, <1>8

\* Every step of the host preserves the invariant.
LEMMA HostNextInv ==
  ASSUME HostInv, [HostNext]_allVars, "eeprom_cut" \notin spoilt'
  PROVE  CardInvariant' /\ FilesInv' /\ (host' = "down" => pc' = "off")
<1>1. "eeprom_cut" \notin spoilt
  BY DEF HostNext, vcard_power_on, scv1_nvm_power_on, programmed, Processor, Reader,
         link_down, save_eeprom, save_flash, killed, allVars, hostVars
<1>2. CardInvariant /\ FilesInv /\ (host = "down" => pc = "off")
  BY <1>1 DEF HostInv
<1>3. CASE vcard_power_on \/ scv1_nvm_power_on \/ programmed
  BY <1>2, <1>3, PowerOnInv
<1>4. CASE Processor \/ Reader
  <2>1. host = "up" /\ Next /\ UNCHANGED hostVars
    BY <1>4 DEF Processor, Reader, Next
  <2>2. CardInvariant'
    BY <1>2, <2>1, NextInv
  <2>3. FilesInv'
    BY <1>2, <2>1, FilesKept DEF hostVars, FilesInv
  <2> QED
    BY <2>1, <2>2, <2>3 DEF hostVars
<1>5. CASE link_down \/ killed
  <2>1. FilesInv'
    BY <1>2, <1>5, FilesKept DEF link_down, killed, FilesInv
  <2>2. CASE MemoryLost
    BY <2>1, <2>2, MemoryLostInv
  <2>3. CASE UNCHANGED vars /\ host' = "save_eeprom"
    BY <1>2, <2>1, <2>3, StutterInv
  <2> QED
    BY <1>5, <2>2, <2>3 DEF link_down, killed
<1>6. CASE save_eeprom
  <2>1. PICK o \in {"done"} \cup EepromFaults :
          /\ eeprom' \in Stored(o, eeprom, WholeEeprom, ShortEeprom)
          /\ spoilt' = IF o = "short" THEN spoilt \cup {"eeprom_cut"} ELSE spoilt
    BY <1>6 DEF save_eeprom
  <2>2. o \in {"done", "failed"}
    BY <2>1, HostFaultsAssumption
  <2>3. UNCHANGED vars /\ dflash' = dflash /\ host' = "save_flash"
    BY <1>6 DEF save_eeprom
  <2>4. CardInvariant'
    BY <1>2, <2>3, StutterInv
  <2>5. CASE o = "failed"
    <3>1. eeprom' = eeprom
      BY <2>1, <2>5 DEF Stored
    <3>2. FilesInv'
      BY <1>2, <2>3, <3>1, FilesKept DEF FilesInv
    <3> QED
      BY <2>3, <2>4, <3>2
  <2>6. CASE o = "done"
    <3>1. eeprom' = WholeEeprom
      BY <2>1, <2>6 DEF Stored
    <3>2. eeprom'.sb = sb /\ eeprom'.desc = desc
      BY <3>1 DEF WholeEeprom
    <3>3. Saved!StoreInv'
      BY <1>2, <3>2, Saves DEF CardInvariant
    <3>4. FilesInv'
      BY <1>2, <2>3, <3>2, <3>3 DEF FilesInv, CardInvariant, TypeOK, StoreTypeOK
    <3> QED
      BY <2>3, <2>4, <3>4
  <2> QED
    BY <2>2, <2>5, <2>6
<1>7. CASE save_flash
  <2>1. PICK o \in {"done"} \cup FlashFaults :
          dflash' \in Stored(o, dflash, WholeFlash, ShortFlash)
    BY <1>7 DEF save_flash
  <2>2. eeprom' = eeprom /\ MemoryLost
    BY <1>7 DEF save_flash
  <2>3. dflash'.flash \in [0 .. FLASH_SIZE - 1 -> Byte]
    BY <1>2, <2>1, FlashFileType DEF FilesInv, CardInvariant, TypeOK, StoreTypeOK
  <2>4. FilesInv'
    BY <1>2, <2>2, <2>3, FilesKept
  <2> QED
    BY <2>2, <2>4, MemoryLostInv
<1>8. CASE UNCHANGED allVars
  <2>1. CardInvariant'
    BY <1>2, <1>8, StutterInv DEF allVars
  <2>2. FilesInv'
    BY <1>2, <1>8, FilesKept DEF allVars, hostVars, FilesInv
  <2> QED
    BY <1>2, <1>8, <2>1, <2>2 DEF allVars, hostVars, vars
<1> QED
  BY <1>3, <1>4, <1>5, <1>6, <1>7, <1>8 DEF HostNext

-----------------------------------------------------------------------------
\* Memory and files hold a sound card in every session, whatever a store at
\* power-off meets short of truncating card_eeprom.bin.
THEOREM HostInvariance == HostSpec => []HostInv
<1>1. HostInit => HostInv
  <2> SUFFICES ASSUME HostInit PROVE CardInvariant /\ FilesInv /\ pc = "off"
    BY DEF HostInv
  <2>1. CardInvariant /\ pc = "off"
    BY InitInv DEF HostInit, Init
  <2>2. eeprom.sb = BlankSb /\ eeprom.desc = NoFiles /\ dflash.flash = ErasedFlash
    BY DEF HostInit
  <2>3. FilesInv
    BY <2>2, ErasedType, NothingSaved DEF FilesInv
  <2> QED
    BY <2>1, <2>3
<1>2. HostInv /\ [HostNext]_allVars => HostInv'
  BY HostNextInv DEF HostInv
<1> QED
  BY <1>1, <1>2, PTL DEF HostSpec

\* A card on a host keeps its tree, the identifiers of siblings apart and the
\* data of its files apart over any number of sessions.
THEOREM HostTreeAlways == HostSpec => []HostTree
<1>1. HostInv => HostTree
  BY InvNoSharedData DEF HostInv, HostTree, CardInvariant, StoreInv
<1> QED
  BY <1>1, HostInvariance, PTL

-----------------------------------------------------------------------------
(***************************************************************************)
(* A card on a host.  Neither file may be ahead of the other: what the     *)
(* FLASH file holds has to be erased above the top in the EEPROM file, and *)
(* in a session that will be stored also above the top in memory, because  *)
(* the EEPROM is stored first and the store of the FLASH may then fail.    *)
(***************************************************************************)
HostFresh ==
  /\ BlankBeforeFormat /\ JobErased
  /\ host # "down" \/ sb.magic => ErasedAbove(sb, flash)
  /\ ErasedAbove(eeprom.sb, dflash.flash)
  /\ host # "down" /\ backed => ErasedAbove(sb, dflash.flash)
  /\ ~eeprom.present => ~eeprom.sb.magic
  /\ host \in {"save_eeprom", "save_flash"} => backed
  /\ host \in {"down", "up", "save_eeprom", "save_flash"}

\* Erased contents are erased above every top, and contents that are erased for
\* a card without the magic are erased.
LEMMA AllErased ==
  /\ \A s : ErasedAbove(s, ErasedFlash)
  /\ \A s, t, f : ErasedAbove(s, f) /\ ~s.magic => ErasedAbove(t, f)
BY DEF ErasedAbove, ErasedFlash

\* Between sessions nothing is being formatted or placed.
LEMMA OffIsFresh ==
  ASSUME pc' = "off" PROVE BlankBeforeFormat' /\ JobErased'
BY DEF BlankBeforeFormat, JobErased

\* Power-on, by either HAL.
LEMMA PowerOnFresh ==
  ASSUME HostFresh, pc = "off", spoilt' = {},
         vcard_power_on \/ scv1_nvm_power_on \/ programmed
  PROVE  HostFresh'
<1>1. /\ pc' = "off" /\ eeprom' = eeprom /\ dflash' = dflash /\ host = "down"
      /\ host' \in {"down", "up"}
  BY DEF vcard_power_on, scv1_nvm_power_on, programmed, kernelVars, hostVars
<1>2. BlankBeforeFormat' /\ JobErased'
  BY <1>1, OffIsFresh
<1>3. ErasedAbove(eeprom.sb, dflash.flash) /\ (~eeprom.present => ~eeprom.sb.magic)
  BY DEF HostFresh
<1>4. CASE vcard_power_on
  <2>1. ErasedAbove(sb', flash') /\ (backed' => ErasedAbove(sb', dflash.flash))
    BY <1>3, <1>4, AllErased DEF vcard_power_on
  <2> QED
    BY <1>1, <1>2, <1>3, <2>1 DEF HostFresh
<1>5. CASE programmed
  <2>1. ErasedAbove(sb', flash') /\ host' = "down"
    BY <1>1, <1>3, <1>5 DEF programmed, hostVars
  <2> QED
    BY <1>1, <1>2, <1>3, <2>1 DEF HostFresh
<1>6. CASE scv1_nvm_power_on
  <2>1. CASE backed' /\ eeprom.present
    <3>1. sb' = eeprom.sb
      BY <1>6, <2>1 DEF scv1_nvm_power_on
    <3>2. flash' = dflash.flash \/ flash' = ErasedFlash
      BY <1>6, <2>1 DEF scv1_nvm_power_on
    <3> QED
      BY <1>1, <1>2, <1>3, <3>1, <3>2, AllErased DEF HostFresh
  <2>2. CASE backed' /\ ~eeprom.present
    <3>1. \A s : ErasedAbove(s, dflash.flash)
      BY <1>3, <2>2, AllErased
    <3>2. \/ flash' = dflash.flash \/ flash' = ErasedFlash
          \/ flash' = flash /\ sb' = sb /\ sb.magic
      BY <1>6, <2>2 DEF scv1_nvm_power_on
    <3>3. ErasedAbove(sb', flash')
      BY <3>1, <3>2, AllErased DEF HostFresh
    <3> QED
      BY <1>1, <1>2, <1>3, <3>1, <3>3 DEF HostFresh
  <2>3. CASE ~backed'
    <3>1. \/ flash' = ErasedFlash
          \/ flash' = flash /\ sb' = sb /\ sb.magic
      BY <1>6, <2>3 DEF scv1_nvm_power_on
    <3>2. ErasedAbove(sb', flash')
      BY <3>1, AllErased DEF HostFresh
    <3> QED
      BY <1>1, <1>2, <1>3, <2>3, <3>2, <1>6 DEF HostFresh, scv1_nvm_power_on
  <2> QED
    BY <1>6, <2>1, <2>2, <2>3 DEF scv1_nvm_power_on
<1> QED
  BY <1>4, <1>5, <1>6

\* The session is over, and its memory with it.
LEMMA LostFresh ==
  ASSUME MemoryLost, ErasedAbove(eeprom'.sb, dflash'.flash),
         ~eeprom'.present => ~eeprom'.sb.magic
  PROVE  HostFresh'
<1>1. pc' = "off" /\ host' = "down"
  BY DEF MemoryLost, RamLost
<1>2. ~sb'.magic
  BY SramAssumption DEF MemoryLost
<1> QED
  BY <1>1, <1>2, OffIsFresh DEF HostFresh

\* The steps of a session are steps of the card, and the magic is not lost.
LEMMA SessionStep ==
  ASSUME Processor \/ Reader
  PROVE  host = "up" /\ Next /\ ~Decay /\ UNCHANGED hostVars
<1>1. host = "up" /\ Next /\ UNCHANGED hostVars
  BY DEF Processor, Reader, Next
<1>2. CASE scos_init
  BY <1>1, <1>2 DEF scos_init, Decay, kernelVars
<1>3. CASE Internal
  BY <1>1, <1>3 DEF Internal, format_slot, format_done, personalise_mf, personalise_row,
                    personalise_done, place_desc, walk_step, Decay
<1>4. CASE Command \/ scos_reset
  BY <1>1, <1>4
  DEF Command, scos_reset, process_fs_error, process_refused, scos_cmd_select,
      select_by_path, scos_cmd_read_binary, scos_cmd_update_binary,
      scos_cmd_create_file, scos_cmd_delete_file, Serving, Decay
<1> QED
  BY <1>2, <1>3, <1>4 DEF Processor, Reader

\* A FLASH file stored whole or in part is erased where the memory is.
LEMMA StoredErased ==
  ASSUME NEW o \in {"done", "short"}, NEW s, ErasedAbove(s, flash),
         flash \in [0 .. FLASH_SIZE - 1 -> Byte],
         dflash' \in Stored(o, dflash, WholeFlash, ShortFlash)
  PROVE  ErasedAbove(s, dflash'.flash)
<1>1. CASE o = "done"
  BY <1>1 DEF Stored, WholeFlash
<1>2. CASE o = "short"
  <2>1. PICK k \in 0 .. FLASH_SIZE - 1 :
          dflash' = [present |-> k > 0,
                     flash |-> [c \in DOMAIN flash |-> IF c < k THEN flash[c] ELSE Erased]]
    BY <1>2 DEF Stored, ShortFlash
  <2>2. dflash'.flash = [c \in 0 .. FLASH_SIZE - 1 |-> IF c < k THEN flash[c] ELSE Erased]
    BY <2>1
  <2> QED
    BY <2>2 DEF ErasedAbove
<1> QED
  BY <1>1, <1>2

\* Every step of the host keeps the files and the memory erased above the top.
LEMMA HostFreshStep ==
  ASSUME HostInv, HostFresh, [HostNext]_allVars, spoilt = {}, spoilt' = {}
  PROVE  HostFresh'
<1>1. CardInvariant /\ FilesInv /\ (host = "down" => pc = "off")
  BY DEF HostInv
<1>2. CASE vcard_power_on \/ scv1_nvm_power_on \/ programmed
  <2>1. pc = "off"
    BY <1>1, <1>2 DEF vcard_power_on, scv1_nvm_power_on, programmed
  <2> QED
    BY <1>2, <2>1, PowerOnFresh
<1>3. CASE Processor \/ Reader
  <2>1. host = "up" /\ Next /\ ~Decay /\ UNCHANGED hostVars
    BY <1>3, SessionStep
  <2>2. FreshInv
    BY <2>1 DEF FreshInv, HostFresh
  <2>3. FreshInv'
    BY <1>1, <2>1, <2>2, FreshStep
  <2>4. backed => ErasedAbove(sb', dflash.flash)
    BY <1>1, <2>1, <2>2, ErasedStep DEF HostFresh, FreshInv
  <2> QED
    BY <2>1, <2>3, <2>4 DEF HostFresh, FreshInv, hostVars
<1>4. CASE link_down \/ killed
  <2>1. eeprom' = eeprom /\ dflash' = dflash
    BY <1>4 DEF link_down, killed
  <2>2. CASE MemoryLost
    BY <2>1, <2>2, LostFresh DEF HostFresh
  <2>3. CASE UNCHANGED vars /\ host' = "save_eeprom" /\ backed' = backed /\ backed /\ host = "up"
    BY <2>1, <2>3 DEF HostFresh, BlankBeforeFormat, JobErased, Extent, vars
  <2> QED
    BY <1>4, <2>2, <2>3 DEF link_down, killed
<1>5. CASE save_eeprom
  <2>1. PICK o \in {"done"} \cup EepromFaults :
          /\ eeprom' \in Stored(o, eeprom, WholeEeprom, ShortEeprom)
          /\ spoilt' = IF o = "short" THEN spoilt \cup {"eeprom_cut"} ELSE spoilt
    BY <1>5 DEF save_eeprom
  <2>2. o \in {"done", "failed"}
    BY <2>1, HostFaultsAssumption
  <2>3. eeprom' = WholeEeprom \/ eeprom' = eeprom
    BY <2>1, <2>2 DEF Stored
  <2>4. /\ UNCHANGED vars /\ dflash' = dflash /\ host' = "save_flash" /\ backed' = backed
        /\ backed /\ host = "save_eeprom"
    BY <1>5 DEF save_eeprom, HostFresh
  <2>5. ErasedAbove(sb, flash) /\ ErasedAbove(sb, dflash.flash)
    BY <2>4 DEF HostFresh
  <2>6. /\ ErasedAbove(eeprom'.sb, dflash.flash)
        /\ ~eeprom'.present => ~eeprom'.sb.magic
    BY <2>3, <2>5 DEF HostFresh, WholeEeprom
  <2> QED
    BY <2>4, <2>5, <2>6 DEF HostFresh, BlankBeforeFormat, JobErased, Extent, vars
<1>6. CASE save_flash
  <2>1. PICK o \in {"done"} \cup FlashFaults :
          /\ dflash' \in Stored(o, dflash, WholeFlash, ShortFlash)
          /\ spoilt' = IF o # "failed" /\ eeprom # WholeEeprom
                       THEN spoilt \cup {"flash_ahead"} ELSE spoilt
    BY <1>6 DEF save_flash
  <2>2. o \in {"done", "failed", "short"}
    BY <2>1, HostFaultsAssumption
  <2>3. eeprom' = eeprom /\ MemoryLost /\ host = "save_flash"
    BY <1>6 DEF save_flash
  <2>4. ErasedAbove(eeprom.sb, dflash'.flash)
    <3>1. CASE o = "failed"
      BY <2>1, <3>1 DEF Stored, HostFresh
    <3>2. CASE o \in {"done", "short"}
      <4>1. eeprom = WholeEeprom
        BY <2>1, <3>2
      <4>2. ErasedAbove(eeprom.sb, flash)
        BY <2>3, <4>1 DEF WholeEeprom, HostFresh
      <4> QED
        BY <1>1, <2>1, <3>2, <4>2, StoredErased DEF CardInvariant, TypeOK, StoreTypeOK
    <3> QED
      BY <2>2, <3>1, <3>2
  <2> QED
    BY <2>3, <2>4, LostFresh DEF HostFresh
<1>7. CASE UNCHANGED allVars
  BY <1>7 DEF allVars, vars, hostVars, HostFresh, BlankBeforeFormat, JobErased, Extent
<1> QED
  BY <1>2, <1>3, <1>4, <1>5, <1>6, <1>7 DEF HostNext

\* A file created in a session reads as erased, over any number of sessions of
\* either HAL, kills and failed stores, as long as none of the three events that
\* spoilt records has happened.
THEOREM NewFilesAreErasedOnHost == HostSpec => FreshOnHost
<1> DEFINE Fresh == spoilt = {} => HostFresh
<1>1. HostInit => Fresh
  <2> SUFFICES ASSUME HostInit PROVE HostFresh
    OBVIOUS
  <2>1. /\ pc = "off" /\ host = "down" /\ sb = BlankSb /\ ~BlankSb.magic
        /\ eeprom.sb = BlankSb /\ dflash.flash = ErasedFlash
    BY DEF HostInit, Init, BlankSb
  <2> QED
    BY <2>1, AllErased DEF HostFresh, BlankBeforeFormat, JobErased
<1>2. HostInv /\ Fresh /\ [HostNext]_allVars => Fresh'
  <2>1. [HostNext]_allVars => spoilt \subseteq spoilt'
    BY DEF HostNext, vcard_power_on, scv1_nvm_power_on, programmed, Processor, Reader,
           link_down, save_eeprom, save_flash, killed, allVars, hostVars
  <2> QED
    BY <2>1, HostFreshStep
<1>3. HostInv /\ Fresh /\ [HostNext]_allVars =>
        [host = "up" /\ host' = "up" /\ spoilt = {} =>
           \A i \in EFs' \ EFs : \A c \in Extent(desc[i])' : flash'[c] = Erased]_allVars
  <2> SUFFICES ASSUME HostInv, HostFresh, [HostNext]_allVars, host = "up", host' = "up",
                      spoilt = {}, NEW i \in EFs' \ EFs, NEW c \in Extent(desc[i])'
               PROVE  flash'[c] = Erased
    OBVIOUS
  <2>1. [Next]_vars
    BY SessionStep DEF HostNext, vcard_power_on, scv1_nvm_power_on, programmed, link_down,
                       save_eeprom, save_flash, killed, MemoryLost, allVars
  <2>2. CardInvariant /\ JobErased
    BY DEF HostInv, HostFresh
  <2> QED
    BY <2>1, <2>2, NewFileErased
<1> QED
  BY <1>1, <1>2, <1>3, HostInvariance, PTL DEF HostSpec, FreshOnHost
=============================================================================
