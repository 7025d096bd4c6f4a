----------------------------- MODULE CardProofs -----------------------------
(***************************************************************************)
(* The proof that CardInvariant is inductive, and what follows from it:    *)
(* the type invariant and the safety invariants of CardOS, for a table, a  *)
(* FLASH, a factory layout and a set of commands of any size, and for      *)
(* every combination of memory faults.                                     *)
(***************************************************************************)
EXTENDS CardInv, TLAPS

-----------------------------------------------------------------------------
(***************************************************************************)
(* The constants.                                                          *)
(***************************************************************************)
LEMMA SlotFacts ==
  /\ FS_ROOT_INDEX \in Slot
  /\ Slot \subseteq Nat
  /\ FS_NO_PARENT \notin Slot
  /\ FS_INVALID_INDEX \notin Slot
  /\ \A i \in Slot : i < FS_MAX_FILES
BY SizesAssumption DEF Slot, FS_ROOT_INDEX, FS_NO_PARENT

\* The three descriptors that are no request: free, damaged, and the MF.
LEMMA NoDescType ==
  FreeDesc \in fs_descriptor /\ BadDesc \in fs_descriptor /\ MfDesc \in fs_descriptor
BY SizesAssumption, NamesAssumption
DEF FreeDesc, BadDesc, NoDesc, MfDesc, fs_descriptor, fs_lifecycle, FileType, Sfi, FS_NO_SFI

\* The selection of a reset.
LEMMA ResetType == fs_selection_reset \in fs_selection
BY SlotFacts DEF fs_selection_reset, fs_selection, Index

\* The idle value of the path walk.
LEMMA NoWalkType == NoWalk \in [cmd : SelectCmd, s : Nat, scratch : fs_selection]
<1>1. <<>> \in Seq(Fid)
  OBVIOUS
<1> QED
  BY <1>1, ResetType DEF NoWalk, SelectCmd, NoLe

\* The idle value of the descriptor about to be stored.
LEMMA NoJobType == NoJob \in [slot : Slot, d : fs_descriptor]
BY NoDescType, SlotFacts DEF NoJob, FS_ROOT_INDEX

\* The MF is a DF that has no parent.
LEMMA MfFields == MfDesc.type = "MF" /\ MfDesc.parent = FS_NO_PARENT
BY DEF MfDesc

\* The factory table is a finite sequence.
LEMMA LayoutLen == Len(Layout) \in Nat
BY LayoutAssumption

\* Row r of the factory table is a request CREATE FILE could have been sent.
LEMMA RowFacts ==
  ASSUME NEW r \in 1 .. Len(Layout)
  PROVE  /\ r \in Slot
         /\ Layout[r] \in LayoutRow
         /\ RowReq(r) \in CreateReq
<1>1. Layout[r] \in LayoutRow /\ Layout[r].index = r
  BY LayoutAssumption
<1> QED
  BY <1>1 DEF LayoutRow, RowReq, CreateReq, fs_lifecycle

-----------------------------------------------------------------------------
(***************************************************************************)
(* How a command or an initialisation ends.                                *)
(***************************************************************************)
LEMMA AnswerStep ==
  ASSUME TypeOK, StageInv, StoreTypeOK', NEW r, Answer(r),
         life # "INITIALISING", sel' \in fs_selection
  PROVE  TypeOK' /\ StageInv'
<1>1. pc' = "ready" /\ job' = NoJob /\ walk' = NoWalk /\ life' = life /\ row' = row
  BY DEF Answer
<1>2. TypeOK'
  BY <1>1, NoJobType, NoWalkType DEF TypeOK, Pc
<1>3. StageInv'
  BY <1>1 DEF StageInv
<1> QED
  BY <1>2, <1>3

\* Types after a loss of power.
LEMMA PowerLost ==
  ASSUME StoreTypeOK', ram' = RamAtPowerOn, RamLost
  PROVE  TypeOK' /\ StageInv'
<1>1. /\ pc' = "off" /\ life' = "INITIALISING" /\ row' = 0 /\ job' = NoJob
      /\ walk' = NoWalk /\ sel' = [cur_df |-> 0, cur_ef |-> 0]
  BY DEF RamLost
<1>2. TypeOK'
  <2>1. row' \in 0 .. FS_MAX_FILES + Len(Layout)
    <3>1. Len(Layout) \in Nat
      BY LayoutLen
    <3> QED
      BY <1>1, <3>1, SizesAssumption
  <2>2. sel' \in fs_selection
    BY <1>1, SlotFacts DEF fs_selection, Index, FS_ROOT_INDEX
  <2> QED
    BY <1>1, <2>1, <2>2, NoJobType, NoWalkType DEF TypeOK, Pc, scos_lifecycle
<1>3. StageInv'
  BY <1>1 DEF StageInv
<1> QED
  BY <1>2, <1>3

\* Types after an initialisation that failed.
LEMMA InitFailedStep ==
  ASSUME TypeOK, StoreTypeOK', InitFailed
  PROVE  TypeOK' /\ StageInv'
<1>1. /\ pc' = "ready" /\ life' = "FS_ERROR" /\ row' = 0 /\ job' = NoJob
      /\ walk' = walk /\ sel' = sel
  BY DEF InitFailed
<1>2. row' \in 0 .. FS_MAX_FILES + Len(Layout)
  <2>1. Len(Layout) \in Nat
    BY LayoutLen
  <2> QED
    BY <1>1, <2>1, SizesAssumption
<1>3. TypeOK'
  BY <1>1, <1>2, NoJobType DEF TypeOK, Pc, scos_lifecycle
<1>4. StageInv'
  BY <1>1 DEF StageInv
<1> QED
  BY <1>3, <1>4

-----------------------------------------------------------------------------
(***************************************************************************)
(* What a write does to the store.                                         *)
(***************************************************************************)
LEMMA QuietType ==
  ASSUME StoreTypeOK, UNCHANGED storeVars
  PROVE  StoreTypeOK'
BY DEF StoreTypeOK, storeVars

\* The mirror after a write with outcome o.
LEMMA RamTypes ==
  ASSUME NEW o, NEW m \in s_sb
  PROVE  RamAfter(o, m) \in s_sb
BY SizesAssumption DEF RamAfter, RamAtPowerOn, s_sb

\* A descriptor write keeps the types of the store.
LEMMA DescWriteType ==
  ASSUME StoreTypeOK, NEW o, NEW i \in Slot, NEW d \in fs_descriptor,
         desc_write(o, i, d)
  PROVE  StoreTypeOK'
<1>1. desc' \in [Slot -> fs_descriptor]
  BY NoDescType DEF desc_write, StoreTypeOK
<1>2. ram' \in s_sb
  BY RamTypes DEF desc_write, StoreTypeOK
<1> QED
  BY <1>1, <1>2 DEF desc_write, StoreTypeOK

\* A superblock write leaves a superblock.
LEMMA SbWriteType ==
  ASSUME StoreTypeOK, NEW o \in Outcome, NEW top \in Nat, sb_write(o, top)
  PROVE  sb' \in superblock
<1>1. [magic |-> TRUE, crc |-> TRUE, version |-> 1,
       max_files |-> FS_MAX_FILES, data_top |-> top] \in superblock
  BY SizesAssumption DEF superblock
<1>2. /\ [sb EXCEPT !.crc = FALSE] \in superblock
      /\ [sb EXCEPT !.magic = TRUE, !.crc = FALSE] \in superblock
  BY Zenon DEF superblock, StoreTypeOK
<1> QED
  BY <1>1, <1>2 DEF sb_write, StoreTypeOK

\* The status of the superblock after each outcome of its write.
LEMMA SbWriteStatus ==
  ASSUME StoreTypeOK, NEW o \in Outcome, NEW top \in Nat, top <= FLASH_SIZE,
         sb_write(o, top)
  PROVE  /\ Written(o) => Formatted' /\ sb'.max_files = FS_MAX_FILES /\ sb'.data_top = top
         /\ o = "failed" => sb' = sb
         /\ o = "torn" => ~Formatted'
<1> USE DEF Formatted, mount_status
<1>1. o \in {"done", "failed", "unsynced", "torn"}
  BY FaultsAssumption DEF Outcome
<1>2. ASSUME Written(o)
      PROVE  Formatted' /\ sb'.max_files = FS_MAX_FILES /\ sb'.data_top = top
  BY <1>2, SizesAssumption DEF sb_write
<1>3. ASSUME o = "failed" PROVE sb' = sb
  BY <1>3 DEF sb_write, Written
<1>4. ASSUME o = "torn" PROVE ~Formatted'
  BY <1>4 DEF sb_write, Written, StoreTypeOK, superblock
<1> QED
  BY <1>2, <1>3, <1>4

\* Files below a top are below every higher one.
LEMMA BelowHigherTop ==
  ASSUME NEW t \in Nat, NEW u \in Nat, t <= u, DataBelow(t),
         \A i \in EFs : desc[i].data_offset + desc[i].size \in Nat
  PROVE  DataBelow(u)
<1> SUFFICES ASSUME NEW i \in EFs
             PROVE  desc[i].data_offset + desc[i].size <= u
  BY DEF DataBelow
<1> DEFINE end == desc[i].data_offset + desc[i].size
<1>1. end \in Nat /\ end <= t
  BY DEF DataBelow
<1> HIDE DEF end
<1>2. end <= u
  BY <1>1
<1> QED
  BY <1>2 DEF end

-----------------------------------------------------------------------------
(***************************************************************************)
(* Preservation of StoreInv.                                               *)
(***************************************************************************)
\* A step that does not touch the descriptor table keeps what is said of it.
LEMMA TableKept ==
  ASSUME desc' = desc
  PROVE  /\ Files' = Files
         /\ EFs' = EFs
         /\ DataApart' = DataApart
         /\ SiblingsUnique' = SiblingsUnique
         /\ \A t : DataBelow(t)' = DataBelow(t)
BY DEF Files, EFs, DataApart, SiblingsUnique, DataBelow, Apart, fs_is_ef

\* The store does not change; the mirror stays, or is lost with the power.
LEMMA QuietInv ==
  ASSUME StoreInv, desc' = desc, sb' = sb, ram' \in {ram, RamAtPowerOn}
  PROVE  StoreInv'
<1>1. Formatted' = Formatted
  BY DEF Formatted, mount_status
<1>2. SuperblockInv'
  <2>1. CASE ram' = ram
    BY <1>1, <2>1, TableKept DEF StoreInv, SuperblockInv
  <2>2. CASE ram' = RamAtPowerOn
    BY <1>1, <2>2, TableKept DEF StoreInv, SuperblockInv, RamAtPowerOn
  <2> QED
    BY <2>1, <2>2
<1>3. TreeWellFormed'
  BY <1>1, TableKept DEF StoreInv, TreeWellFormed, fs_is_df
<1> QED
  BY <1>2, <1>3, TableKept DEF StoreInv

\* Slots that stop being files: freed ones, and free ones that a torn write
\* made unreadable.  On a formatted card nothing may lose its parent.
LEMMA ShrinkInv ==
  ASSUME StoreInv, sb' = sb, ram' \in {ram, RamAtPowerOn},
         Files' \subseteq Files,
         \A i \in Files' : desc'[i] = desc[i],
         Formatted => \A i \in Files' \ {FS_ROOT_INDEX} : desc[i].parent \in Files'
  PROVE  StoreInv'
<1>1. Formatted' = Formatted
  BY DEF Formatted, mount_status
<1>2. EFs' \subseteq EFs /\ EFs \subseteq Files /\ EFs' \subseteq Files'
  BY DEF EFs, Files, fs_is_ef, FileType
<1>3. \A i \in EFs' : desc'[i] = desc[i]
  BY <1>2
<1>4. SuperblockInv'
  <2>1. \A t : DataBelow(t) => DataBelow(t)'
    BY <1>2, <1>3 DEF DataBelow
  <2>2. CASE ram' = ram
    BY <1>1, <2>1, <2>2 DEF StoreInv, SuperblockInv
  <2>3. CASE ram' = RamAtPowerOn
    BY <1>1, <2>1, <2>3 DEF StoreInv, SuperblockInv, RamAtPowerOn
  <2> QED
    BY <2>2, <2>3
<1>5. DataApart'
  BY <1>2, <1>3 DEF StoreInv, DataApart, Apart
<1>6. TreeWellFormed'
  BY <1>1 DEF StoreInv, TreeWellFormed, fs_is_df
<1>7. SiblingsUnique'
  BY DEF StoreInv, SiblingsUnique, fs_is_ef
<1> QED
  BY <1>4, <1>5, <1>6, <1>7 DEF StoreInv

\* A superblock that keeps the status of the card and moves its top up.
LEMMA TopMoved ==
  ASSUME StoreTypeOK, StoreInv, ram.mounted, desc' = desc,
         NEW o \in Outcome, NEW size \in Nat, ~NoRoom(size),
         fs_store_alloc_data(o, size)
  PROVE  /\ StoreTypeOK' /\ StoreInv'
         /\ o = "torn" => ram' = RamAtPowerOn
         /\ o = "done" => /\ ram'.mounted
                          /\ sb'.data_top = ram.data_top + size
         /\ Formatted' => sb.data_top <= sb'.data_top
<1>1. ram.data_top + size \in Nat /\ ram.data_top + size <= FLASH_SIZE
  BY SizesAssumption DEF StoreTypeOK, s_sb, NoRoom
<1>2. sb_write(o, ram.data_top + size) /\ flash' = flash
  BY DEF fs_store_alloc_data
<1>3. [ram EXCEPT !.data_top = @ + size] \in s_sb
  BY <1>1, Zenon DEF StoreTypeOK, s_sb
<1>4. ram' = RamAfter(o, [ram EXCEPT !.data_top = @ + size])
  BY DEF fs_store_alloc_data
<1>5. StoreTypeOK'
  BY <1>1, <1>2, <1>3, <1>4, RamTypes, SbWriteType DEF StoreTypeOK
<1>6. CASE o = "torn"
  <2>1. ~Formatted' /\ ram' = RamAtPowerOn
    BY <1>1, <1>2, <1>4, <1>6, SbWriteStatus DEF RamAfter
  <2>2. SuperblockInv' /\ TreeWellFormed'
    BY <2>1 DEF SuperblockInv, TreeWellFormed, RamAtPowerOn
  <2> QED
    BY <1>5, <1>6, <2>1, <2>2, TableKept DEF StoreInv
<1>7. CASE o # "torn"
  <2>1. /\ Formatted' /\ sb'.max_files = FS_MAX_FILES
        /\ sb'.data_top \in {sb.data_top, ram.data_top + size}
        /\ o = "done" => sb'.data_top = ram.data_top + size
    BY <1>1, <1>2, <1>7, SbWriteStatus, FaultsAssumption
    DEF StoreInv, SuperblockInv, Outcome, Written, Formatted, mount_status
  <2>2. /\ ram'.mounted /\ ram'.max_files = ram.max_files
        /\ ram'.data_top = ram.data_top + size
    BY <1>4, <1>7 DEF RamAfter, StoreTypeOK, s_sb
  <2>3. sb.data_top <= sb'.data_top
    BY <1>1, <2>1 DEF StoreInv, SuperblockInv, StoreTypeOK, superblock, s_sb
  <2>4. DataBelow(sb.data_top)'
    <3>1. DataBelow(sb.data_top)
      BY DEF StoreInv, SuperblockInv
    <3> QED
      BY <1>5, <2>3, <3>1, TableKept
      DEF DataBelow, EFs, StoreTypeOK, superblock, fs_descriptor
  <2>5. SuperblockInv'
    BY <1>1, <2>1, <2>2, <2>4 DEF StoreInv, SuperblockInv, StoreTypeOK, superblock, s_sb
  <2>6. TreeWellFormed'
    BY <2>1, TableKept DEF StoreInv, SuperblockInv, TreeWellFormed, fs_is_df
  <2> QED
    BY <1>5, <1>7, <2>1, <2>2, <2>3, <2>5, <2>6, TableKept DEF StoreInv
<1> QED
  BY <1>6, <1>7

\* Storing the descriptor of JobInv adds one good file.
LEMMA PlacedInv ==
  ASSUME StoreTypeOK, StoreInv, Formatted, JobInv, job.d \in fs_descriptor,
         desc' = [desc EXCEPT ![job.slot] = job.d], sb' = sb, ram' = ram
  PROVE  StoreInv'
<1> DEFINE s == job.slot
           d == job.d
<1>1. /\ s \in Slot /\ s # FS_ROOT_INDEX /\ s \notin Files /\ s \notin EFs
      /\ d.type \in {"DF", "EF"}
  BY DEF JobInv, Files, EFs, FileType, fs_is_ef
<1>2. Formatted'
  BY DEF Formatted, mount_status
<1>3. desc'[s] = d /\ \A i \in Slot \ {s} : desc'[i] = desc[i]
  BY <1>1 DEF StoreTypeOK
<1>4. Files' = Files \cup {s}
  BY <1>1, <1>3 DEF Files, FileType
<1>5. EFs' = IF fs_is_ef(d) THEN EFs \cup {s} ELSE EFs
  BY <1>1, <1>3 DEF EFs, fs_is_ef
<1>6. Files \subseteq Slot /\ EFs \subseteq Files
  BY DEF Files, EFs, fs_is_ef, FileType
<1>7. \A i \in Files : desc'[i] = desc[i]
  BY <1>1, <1>3, <1>6
<1>8. SuperblockInv'
  <2>1. DataBelow(sb.data_top)'
    <3>1. DataBelow(sb.data_top)
      BY DEF StoreInv, SuperblockInv
    <3>2. fs_is_ef(d) => d.data_offset + d.size <= sb.data_top
      BY DEF JobInv
    <3> QED
      BY <1>3, <1>5, <1>6, <1>7, <3>1, <3>2 DEF DataBelow
  <2> QED
    BY <1>2, <2>1 DEF StoreInv, SuperblockInv
<1>9. DataApart'
  <2>1. fs_is_ef(d) => \A i \in EFs : desc[i].data_offset + desc[i].size <= d.data_offset
    BY DEF JobInv, DataBelow
  <2>2. fs_is_ef(d) => \A i \in EFs : Apart(d, desc[i]) /\ Apart(desc[i], d)
    BY <2>1 DEF Apart
  <2> QED
    BY <1>1, <1>3, <1>5, <1>6, <1>7, <2>2 DEF StoreInv, DataApart, Apart
<1>10. TreeWellFormed'
  <2>1. /\ \A i \in Files : desc[i].type = "MF" <=> i = FS_ROOT_INDEX
        /\ \A i \in Files \ {FS_ROOT_INDEX} :
             desc[i].parent \in Files /\ fs_is_df(desc[desc[i].parent])
        /\ \A S \in SUBSET (Files \ {FS_ROOT_INDEX}) :
             S # {} => \E i \in S : desc[i].parent \notin S
    BY DEF StoreInv, TreeWellFormed
  <2>2. d.parent \in Files /\ fs_is_df(desc[d.parent])
    BY DEF JobInv
  <2>3. \A i \in Files' : desc'[i].type = "MF" <=> i = FS_ROOT_INDEX
    BY <1>1, <1>3, <1>4, <1>7, <2>1
  <2>4. \A i \in Files' \ {FS_ROOT_INDEX} :
          desc'[i].parent \in Files' /\ fs_is_df(desc'[desc'[i].parent])
    BY <1>3, <1>4, <1>7, <2>1, <2>2
  <2>5. ASSUME NEW S \in SUBSET (Files' \ {FS_ROOT_INDEX}), S # {}
        PROVE  \E i \in S : desc'[i].parent \notin S
    <3> DEFINE T == S \ {s}
    <3>1. CASE T = {}
      BY <1>1, <1>3, <2>2, <2>5, <3>1
    <3>2. CASE T # {}
      <4>1. T \in SUBSET (Files \ {FS_ROOT_INDEX})
        BY <1>4
      <4>2. PICK i \in T : desc[i].parent \notin T
        BY <2>1, <3>2, <4>1
      <4>3. desc'[i].parent = desc[i].parent /\ desc[i].parent # s
        BY <1>1, <1>7, <2>1, <4>1, <4>2
      <4> QED
        BY <4>2, <4>3
    <3> QED
      BY <3>1, <3>2
  <2> QED
    BY <2>3, <2>4, <2>5 DEF TreeWellFormed, fs_is_df
<1>11. SiblingsUnique'
  <2>1. \A i \in Files : Distinguishable(d, desc[i])
    BY DEF JobInv
  <2>2. ASSUME NEW i \in Files', NEW j \in Files', i # j,
               desc'[i].parent = desc'[j].parent
        PROVE  /\ desc'[i].file_id # desc'[j].file_id
               /\ fs_is_ef(desc'[i]) /\ fs_is_ef(desc'[j]) /\ desc'[i].sfi = desc'[j].sfi
                    => desc'[i].sfi = FS_NO_SFI
    <3>1. CASE i \in Files /\ j \in Files
      BY <1>7, <2>2, <3>1 DEF StoreInv, SiblingsUnique
    <3>2. CASE i = s
      BY <1>3, <1>4, <1>7, <2>1, <2>2, <3>2 DEF Distinguishable
    <3>3. CASE j = s
      BY <1>3, <1>4, <1>7, <2>1, <2>2, <3>3 DEF Distinguishable
    <3> QED
      BY <1>4, <3>1, <3>2, <3>3
  <2> QED
    BY <2>2 DEF SiblingsUnique, fs_is_ef
<1> QED
  BY <1>8, <1>9, <1>10, <1>11 DEF StoreInv

\* The first descriptor of a new card is that of the MF.
LEMMA MfPlacedInv ==
  ASSUME StoreTypeOK, StoreInv, AllFree,
         desc' = [desc EXCEPT ![FS_ROOT_INDEX] = MfDesc], sb' = sb, ram' = ram
  PROVE  StoreInv'
<1>1. desc'[FS_ROOT_INDEX] = MfDesc
  BY SlotFacts DEF StoreTypeOK
<1>2. \A i \in Slot \ {FS_ROOT_INDEX} : desc'[i].type = "FREE"
  BY DEF StoreTypeOK, AllFree
<1>3. Files' = {FS_ROOT_INDEX} /\ EFs' = {}
  <2>1. desc'[FS_ROOT_INDEX].type = "MF"
    BY <1>1 DEF MfDesc
  <2>2. \A i \in Slot : i \in Files' <=> i = FS_ROOT_INDEX
    BY <1>2, <2>1 DEF Files, FileType
  <2>3. \A i \in Slot : ~fs_is_ef(desc'[i])
    BY <1>2, <2>1 DEF fs_is_ef
  <2> QED
    BY <2>2, <2>3, SlotFacts DEF Files, EFs, fs_is_ef
<1>4. Formatted' = Formatted
  BY DEF Formatted, mount_status
<1>5. SuperblockInv' /\ DataApart'
  BY <1>3, <1>4 DEF StoreInv, SuperblockInv, DataBelow, DataApart
<1>6. TreeWellFormed' /\ SiblingsUnique'
  BY <1>1, <1>3 DEF TreeWellFormed, SiblingsUnique, MfDesc
<1> QED
  BY <1>5, <1>6 DEF StoreInv

-----------------------------------------------------------------------------
(***************************************************************************)
(* The initial state and power.                                            *)
(***************************************************************************)
LEMMA InitInv == Init => CardInvariant
<1> SUFFICES ASSUME Init PROVE CardInvariant
  OBVIOUS
<1>1. StoreTypeOK
  <2>1. BlankSb \in superblock /\ ForeignSb \in superblock
    BY SizesAssumption DEF BlankSb, ForeignSb, superblock
  <2>2. RamAtPowerOn \in s_sb
    BY SizesAssumption DEF RamAtPowerOn, s_sb
  <2> QED
    BY <2>1, <2>2, NoDescType, NamesAssumption DEF Init, StoreInit, StoreTypeOK
<1>2. TypeOK
  <2>1. Len(Layout) \in Nat
    BY LayoutLen
  <2>2. 0 \in 0 .. FS_MAX_FILES + Len(Layout)
    BY <2>1, SizesAssumption
  <2>3. [cur_df |-> 0, cur_ef |-> 0] \in fs_selection
    BY SlotFacts DEF fs_selection, Index, FS_ROOT_INDEX
  <2> QED
    BY <1>1, <2>2, <2>3, NoJobType, NoWalkType DEF Init, TypeOK, Pc, scos_lifecycle
<1>3. StoreInv
  <2>1. Files = {} /\ EFs = {}
    BY DEF Init, StoreInit, Files, EFs, FreeDesc, NoDesc, FileType, fs_is_ef
  <2>2. ~Formatted /\ ~ram.mounted
    BY DEF Init, StoreInit, Formatted, mount_status, BlankSb, ForeignSb, RamAtPowerOn
  <2> QED
    BY <2>1, <2>2
    DEF StoreInv, SuperblockInv, DataApart, TreeWellFormed, SiblingsUnique
<1>4. StageInv
  BY DEF Init, StoreInit, StageInv
<1> QED
  BY <1>2, <1>3, <1>4 DEF CardInvariant

\* Nothing changes.
LEMMA StutterInv ==
  ASSUME CardInvariant, UNCHANGED vars PROVE CardInvariant'
<1>1. StoreTypeOK' /\ StoreInv'
  BY QuietType, QuietInv DEF vars, storeVars, CardInvariant, TypeOK
<1>2. TypeOK'
  BY <1>1 DEF vars, CardInvariant, TypeOK
<1>3. /\ Formatted' = Formatted /\ AllFree' = AllFree /\ JobInv' = JobInv
      /\ \A r : FactoryInv(r)' = FactoryInv(r)
  BY TableKept
  DEF vars, Formatted, mount_status, AllFree, JobInv, FactoryInv, DataBelow, EFs
<1>4. StageInv'
  BY <1>3 DEF vars, CardInvariant, StageInv, FactoryInv, IsRow
<1> QED
  BY <1>1, <1>2, <1>4 DEF CardInvariant

\* Losing power between two writes.
LEMMA PowerCutInv ==
  ASSUME CardInvariant, PowerCut PROVE CardInvariant'
<1>1. RamAtPowerOn \in s_sb
  BY SizesAssumption DEF RamAtPowerOn, s_sb
<1>2. StoreTypeOK' /\ StoreInv'
  BY <1>1, QuietInv DEF PowerCut, nvmVars, CardInvariant, TypeOK, StoreTypeOK
<1> QED
  BY <1>2, PowerLost DEF PowerCut, CardInvariant

\* The magic is lost in the drawer: the card is unformatted, its files are still apart.
LEMMA DecayInv ==
  ASSUME CardInvariant, Decay PROVE CardInvariant'
<1>1. /\ pc = "off" /\ pc' = "off" /\ desc' = desc /\ ram' = ram /\ flash' = flash
      /\ sb' = [sb EXCEPT !.magic = FALSE] /\ UNCHANGED kernelVars
  BY DEF Decay, kernelVars
<1>2. sb' \in superblock
  BY <1>1, Zenon DEF CardInvariant, TypeOK, StoreTypeOK, superblock
<1>3. TypeOK'
  BY <1>1, <1>2 DEF CardInvariant, TypeOK, StoreTypeOK, kernelVars
<1>4. ~Formatted'
  BY <1>1 DEF Formatted, mount_status, CardInvariant, TypeOK, StoreTypeOK, superblock
<1>5. ram' = RamAtPowerOn
  BY <1>1 DEF CardInvariant, StageInv
<1>6. StoreInv'
  BY <1>1, <1>4, <1>5, TableKept
  DEF CardInvariant, StoreInv, SuperblockInv, TreeWellFormed, RamAtPowerOn
<1>7. StageInv'
  BY <1>1 DEF CardInvariant, StageInv, kernelVars
<1> QED
  BY <1>3, <1>6, <1>7 DEF CardInvariant

\* Power-on: the mirror is the superblock.
LEMMA ScosInitInv ==
  ASSUME CardInvariant, scos_init PROVE CardInvariant'
<1>1. desc' = desc /\ sb' = sb /\ flash' = flash /\ row' = row /\ job' = job /\ walk' = walk
  BY DEF scos_init, nvmVars
<1>2. Formatted' = Formatted
  BY <1>1 DEF Formatted, mount_status
<1>3. ram' = IF Formatted
             THEN [mounted |-> TRUE, max_files |-> sb.max_files, data_top |-> sb.data_top]
             ELSE RamAtPowerOn
  BY DEF scos_init, fs_store_mount, Formatted
<1>4. ram' \in s_sb
  <2>1. Formatted => sb.max_files = FS_MAX_FILES /\ sb.data_top \in Nat
    BY DEF CardInvariant, StoreInv, SuperblockInv, TypeOK, StoreTypeOK, superblock
  <2> QED
    BY <1>3, <2>1, SizesAssumption DEF s_sb, RamAtPowerOn
<1>5. TypeOK'
  <2>1. sel' \in fs_selection
    BY ResetType DEF scos_init, CardInvariant, TypeOK
  <2>2. pc' \in Pc /\ life' \in scos_lifecycle
    BY DEF scos_init, Pc, scos_lifecycle
  <2> QED
    BY <1>1, <1>4, <2>1, <2>2 DEF CardInvariant, TypeOK, StoreTypeOK
<1>6. StoreInv'
  <2>1. SuperblockInv'
    <3>1. Formatted => sb.data_top <= FLASH_SIZE /\ sb.data_top \in Nat
      BY SizesAssumption
      DEF Formatted, mount_status, CardInvariant, TypeOK, StoreTypeOK, superblock
    <3>2. Formatted => /\ ram'.mounted /\ ram'.max_files = sb.max_files
                       /\ ram'.data_top = sb.data_top
      BY <1>3
    <3>3. ~Formatted => ~ram'.mounted
      BY <1>3 DEF RamAtPowerOn
    <3> QED
      BY <1>1, <1>2, <3>1, <3>2, <3>3, TableKept DEF CardInvariant, StoreInv, SuperblockInv
  <2>2. TreeWellFormed'
    BY <1>1, <1>2, TableKept DEF CardInvariant, StoreInv, TreeWellFormed, fs_is_df
  <2> QED
    BY <1>1, <2>1, <2>2, TableKept DEF CardInvariant, StoreInv
<1>7. StageInv'
  <2>1. pc' = "ready" => life' # "INITIALISING"
    BY DEF scos_init
  <2>2. pc' = "format" => life' = "INITIALISING" /\ ~Formatted' /\ row' = 0
    BY <1>1, <1>2 DEF scos_init, Formatted, CardInvariant, StageInv
  <2>3. pc' \in {"ready", "format"}
    BY DEF scos_init
  <2> QED
    BY <2>1, <2>2, <2>3, SlotFacts DEF StageInv, FS_ROOT_INDEX
<1> QED
  BY <1>5, <1>6, <1>7 DEF CardInvariant

-----------------------------------------------------------------------------
(***************************************************************************)
(* Formatting and personalisation.                                         *)
(***************************************************************************)
LEMMA RamAfterWrite ==
  ASSUME NEW o, NEW i, NEW d, desc_write(o, i, d)
  PROVE  /\ sb' = sb /\ flash' = flash
         /\ o = "torn" => ram' = RamAtPowerOn
         /\ o # "torn" => ram' = ram
BY DEF desc_write, RamAfter

\* A write that frees a slot, or that did not happen as a whole, adds no file.
LEMMA WriteShrinks ==
  ASSUME StoreTypeOK, NEW o, NEW i \in Slot, NEW d, desc_write(o, i, d),
         ~Written(o) \/ d = FreeDesc
  PROVE  /\ Files' \subseteq Files
         /\ Files \ {i} \subseteq Files'
         /\ \A j \in Files' : desc'[j] = desc[j]
         /\ \A j \in Slot \ {i} : desc'[j] = desc[j]
<1>1. desc' \in {desc, [desc EXCEPT ![i] = FreeDesc], [desc EXCEPT ![i] = BadDesc]}
  BY DEF desc_write
<1>2. \A j \in Slot \ {i} : desc'[j] = desc[j]
  BY <1>1 DEF StoreTypeOK
<1>3. desc'[i] = desc[i] \/ desc'[i].type \in {"FREE", "BAD"}
  BY <1>1 DEF StoreTypeOK, FreeDesc, BadDesc, NoDesc
<1> QED
  BY <1>2, <1>3 DEF Files, FileType

\* fs_store_format frees a slot.
LEMMA FormatSlotInv ==
  ASSUME CardInvariant, format_slot PROVE CardInvariant'
<1> USE DEF CardInvariant
<1>1. PICK o \in Outcome \ {"unsynced"} :
        /\ desc_write(o, row, FreeDesc)
        /\ After(o, /\ row' = IF row + 1 < FS_MAX_FILES THEN row + 1 ELSE 0
                    /\ pc' = IF row + 1 < FS_MAX_FILES THEN "format" ELSE "super"
                    /\ UNCHANGED <<life, sel, job, walk, rsp>>,
                 InitFailed)
  BY DEF format_slot
<1>2. /\ pc = "format" /\ row \in Slot /\ ~Formatted /\ life = "INITIALISING"
      /\ \A i \in 0 .. row - 1 : desc[i].type = "FREE"
  BY DEF format_slot, StageInv
<1>3. desc_write(o, row, FreeDesc)
  BY <1>1
<1>4. StoreTypeOK'
  BY <1>2, <1>3, DescWriteType, NoDescType DEF TypeOK
<1>5. StoreInv'
  BY <1>2, <1>3, RamAfterWrite, WriteShrinks, ShrinkInv DEF TypeOK
<1>6. o \in {"done", "torn", "failed"}
  BY FaultsAssumption DEF Outcome
<1>7. CASE o = "torn"
  BY <1>1, <1>3, <1>4, <1>5, <1>7, RamAfterWrite, PowerLost DEF After
<1>8. CASE o = "failed"
  BY <1>1, <1>4, <1>5, <1>8, InitFailedStep DEF After
<1>9. CASE o = "done"
  <2>1. /\ row' = IF row + 1 < FS_MAX_FILES THEN row + 1 ELSE 0
        /\ pc' = IF row + 1 < FS_MAX_FILES THEN "format" ELSE "super"
        /\ UNCHANGED <<life, sel, job, walk, rsp>>
    BY <1>1, <1>9 DEF After
  <2>2. desc' = [desc EXCEPT ![row] = FreeDesc]
    BY <1>3, <1>9 DEF desc_write, Written
  <2>3. \A i \in Slot : i <= row => desc'[i].type = "FREE"
    BY <1>2, <2>2, SlotFacts DEF TypeOK, StoreTypeOK, FreeDesc, NoDesc, Slot
  <2>4. row' \in Slot /\ row' \in 0 .. FS_MAX_FILES + Len(Layout)
    <3>1. Len(Layout) \in Nat
      BY LayoutLen
    <3> QED
      BY <1>2, <2>1, <3>1, SizesAssumption DEF Slot
  <2>5. TypeOK'
    BY <1>4, <2>1, <2>4 DEF TypeOK, Pc
  <2>6. ~Formatted'
    BY <1>2, <1>3, RamAfterWrite DEF Formatted, mount_status
  <2>7. CASE row + 1 < FS_MAX_FILES
    <3>1. pc' = "format" /\ life' = "INITIALISING" /\ row' = row + 1
      BY <1>2, <2>1, <2>7
    <3>2. \A i \in 0 .. row' - 1 : desc'[i].type = "FREE"
      BY <1>2, <2>3, <2>7, <3>1, SizesAssumption DEF Slot
    <3>3. StageInv'
      BY <2>4, <2>6, <3>1, <3>2 DEF StageInv
    <3> QED
      BY <1>5, <2>5, <3>3
  <2>8. CASE ~(row + 1 < FS_MAX_FILES)
    <3>1. pc' = "super" /\ life' = "INITIALISING"
      BY <1>2, <2>1, <2>8
    <3>2. AllFree'
      BY <1>2, <2>3, <2>8, SizesAssumption DEF AllFree, Slot
    <3>3. StageInv'
      BY <2>6, <3>1, <3>2 DEF StageInv
    <3> QED
      BY <1>5, <2>5, <3>3
  <2> QED
    BY <2>7, <2>8
<1> QED
  BY <1>6, <1>7, <1>8, <1>9

\* fs_store_format writes the superblock over a table that is all free.
LEMMA FormatDoneInv ==
  ASSUME CardInvariant, format_done PROVE CardInvariant'
<1> USE DEF CardInvariant
<1>1. PICK o \in Outcome :
        /\ format_superblock(o)
        /\ After(o, pc' = "mf" /\ UNCHANGED <<life, sel, row, job, walk, rsp>>,
                 InitFailed)
  BY DEF format_done
<1>2. AllFree /\ life = "INITIALISING" /\ ~Formatted
  BY DEF format_done, StageInv
<1> DEFINE m == [mounted |-> o = "done", max_files |-> FS_MAX_FILES, data_top |-> 0]
<1>3. desc' = desc /\ flash' = flash /\ sb_write(o, 0) /\ ram' = RamAfter(o, m)
  BY <1>1 DEF format_superblock
<1>4. o \in {"done", "failed", "unsynced", "torn"}
  BY FaultsAssumption DEF Outcome
<1>5. StoreTypeOK'
  <2>1. m \in s_sb
    BY SizesAssumption DEF s_sb
  <2>2. ram' \in s_sb
    BY <1>3, <2>1, RamTypes
  <2>3. sb' \in superblock
    BY <1>3, SbWriteType DEF TypeOK
  <2> QED
    BY <1>3, <2>2, <2>3 DEF TypeOK, StoreTypeOK
<1>6. /\ Formatted' <=> Written(o)
      /\ Written(o) => sb'.max_files = FS_MAX_FILES /\ sb'.data_top = 0
  <2>1. 0 <= FLASH_SIZE
    BY SizesAssumption
  <2>2. o = "failed" => ~Formatted'
    BY <1>2, <1>3, <2>1, SbWriteStatus DEF Formatted, mount_status, TypeOK
  <2> QED
    BY <1>3, <1>4, <2>1, <2>2, SbWriteStatus DEF TypeOK, Written
<1>7. AllFree' /\ Files' = {} /\ EFs' = {}
  BY <1>2, <1>3 DEF AllFree, Files, EFs, FileType, fs_is_ef
<1>8. ram'.mounted => o = "done" /\ ram'.max_files = FS_MAX_FILES /\ ram'.data_top = 0
  BY <1>3 DEF RamAfter, RamAtPowerOn
<1>9. StoreInv'
  <2>1. SuperblockInv'
    <3>1. Formatted' => sb'.max_files = FS_MAX_FILES /\ DataBelow(sb.data_top)'
      BY <1>6, <1>7 DEF DataBelow
    <3>2. ASSUME ram'.mounted
          PROVE  /\ Formatted' /\ ram'.max_files = FS_MAX_FILES
                 /\ sb'.data_top <= ram'.data_top /\ ram'.data_top <= FLASH_SIZE
      <4>1. Written(o) /\ ram'.max_files = FS_MAX_FILES /\ ram'.data_top = 0
        BY <1>8, <3>2 DEF Written
      <4>2. Formatted' /\ sb'.data_top = 0
        BY <1>6, <4>1
      <4> QED
        BY <4>1, <4>2, SizesAssumption
    <3> QED
      BY <3>1, <3>2 DEF SuperblockInv
  <2> QED
    BY <1>7, <2>1 DEF StoreInv, DataApart, TreeWellFormed, SiblingsUnique
<1>10. CASE o = "torn"
  BY <1>1, <1>3, <1>5, <1>9, <1>10, PowerLost DEF After, RamAfter
<1>11. CASE o \in {"failed", "unsynced"}
  BY <1>1, <1>5, <1>9, <1>11, InitFailedStep DEF After
<1>12. CASE o = "done"
  <2>1. pc' = "mf" /\ UNCHANGED <<life, sel, row, job, walk, rsp>>
    BY <1>1, <1>12 DEF After
  <2>2. ram'.mounted
    BY <1>3, <1>12 DEF RamAfter
  <2>3. TypeOK'
    BY <1>5, <2>1 DEF TypeOK, Pc
  <2>4. StageInv'
    BY <1>2, <1>7, <2>1, <2>2 DEF StageInv
  <2> QED
    BY <1>9, <2>3, <2>4
<1> QED
  BY <1>4, <1>10, <1>11, <1>12

\* A descriptor write to a free slot that did not happen as a whole.
LEMMA NotWrittenInv ==
  ASSUME StoreTypeOK, StoreInv, NEW o, NEW i \in Slot, NEW d,
         desc[i].type = "FREE", desc_write(o, i, d), ~Written(o)
  PROVE  StoreInv'
<1>1. Files' = Files
  BY WriteShrinks DEF Files, FileType
<1>2. Formatted => \A j \in Files' \ {FS_ROOT_INDEX} : desc[j].parent \in Files'
  BY <1>1 DEF StoreInv, TreeWellFormed
<1>3. sb' = sb /\ ram' \in {ram, RamAtPowerOn}
  BY RamAfterWrite
<1> QED
  BY <1>1, <1>2, <1>3, WriteShrinks, ShrinkInv

\* fs_personalise stores the MF.
LEMMA PersonaliseMfInv ==
  ASSUME CardInvariant, personalise_mf PROVE CardInvariant'
<1> USE DEF CardInvariant
<1>1. PICK o \in Outcome :
        /\ fs_store_write_desc(o, FS_ROOT_INDEX, MfDesc)
        /\ After(o, /\ pc' = "row"
                    /\ row' = 1
                    /\ UNCHANGED <<life, sel, job, walk, rsp>>,
                 InitFailed)
  BY DEF personalise_mf
<1>2. AllFree /\ life = "INITIALISING" /\ ram.mounted
  BY DEF personalise_mf, StageInv
<1>3. desc_write(o, FS_ROOT_INDEX, MfDesc)
  BY <1>1 DEF fs_store_write_desc
<1>4. o \in {"done", "failed", "unsynced", "torn"}
  BY FaultsAssumption DEF Outcome
<1>5. StoreTypeOK'
  BY <1>3, SlotFacts, NoDescType, DescWriteType DEF TypeOK
<1>6. StoreInv'
  <2>1. CASE Written(o)
    <3>1. desc' = [desc EXCEPT ![FS_ROOT_INDEX] = MfDesc]
      BY <1>3, <2>1 DEF desc_write
    <3>2. sb' = sb /\ ram' = ram
      BY <1>3, <2>1, RamAfterWrite DEF Written
    <3> QED
      BY <1>2, <3>1, <3>2, MfPlacedInv DEF TypeOK
  <2>2. CASE ~Written(o)
    BY <1>2, <1>3, <2>2, SlotFacts, NotWrittenInv DEF AllFree, TypeOK
  <2> QED
    BY <2>1, <2>2
<1>7. CASE o = "torn"
  BY <1>1, <1>3, <1>5, <1>6, <1>7, RamAfterWrite, PowerLost DEF After
<1>8. CASE o \in {"failed", "unsynced"}
  BY <1>1, <1>5, <1>6, <1>8, InitFailedStep DEF After
<1>9. CASE o = "done"
  <2>1. pc' = "row" /\ row' = 1 /\ UNCHANGED <<life, sel, job, walk, rsp>>
    BY <1>1, <1>9 DEF After
  <2>2. desc' = [desc EXCEPT ![FS_ROOT_INDEX] = MfDesc] /\ ram' = ram
    BY <1>3, <1>9 DEF desc_write, Written, RamAfter
  <2>3. Len(Layout) \in Nat
    BY LayoutLen
  <2>4. TypeOK'
    BY <1>5, <2>1, <2>3, SizesAssumption DEF TypeOK, Pc
  <2>5. FactoryInv(row)'
    <3>1. desc'[FS_ROOT_INDEX] = MfDesc
      BY <2>2, SlotFacts DEF TypeOK, StoreTypeOK
    <3>2. \A i \in Slot : i >= 1 => desc'[i].type = "FREE"
      BY <1>2, <2>2 DEF TypeOK, StoreTypeOK, AllFree, FS_ROOT_INDEX
    <3>3. 1 .. 1 - 1 = {}
      OBVIOUS
    <3> QED
      BY <2>1, <3>1, <3>2, <3>3 DEF FactoryInv
  <2>6. StageInv'
    BY <1>2, <2>1, <2>2, <2>3, <2>5 DEF StageInv
  <2> QED
    BY <1>6, <2>4, <2>6
<1> QED
  BY <1>4, <1>7, <1>8, <1>9

\* fs_personalise is through the factory table.
LEMMA PersonaliseDoneInv ==
  ASSUME CardInvariant, personalise_done PROVE CardInvariant'
<1>1. StoreTypeOK' /\ StoreInv'
  BY QuietType, QuietInv DEF CardInvariant, TypeOK, personalise_done, storeVars
<1>2. pc' = "ready" /\ life' = "OPERATIONAL" /\ row' = 0
  BY DEF personalise_done
<1>3. TypeOK'
  <2>1. Len(Layout) \in Nat
    BY LayoutLen
  <2> QED
    BY <1>1, <1>2, <2>1, ResetType, SizesAssumption
    DEF CardInvariant, TypeOK, personalise_done, Pc, scos_lifecycle
<1>4. StageInv'
  BY <1>2 DEF StageInv
<1> QED
  BY <1>1, <1>3, <1>4 DEF CardInvariant

\* The descriptor of an acceptable request, once its data has been allocated,
\* satisfies JobInv.
LEMMA JobReady ==
  ASSUME CardInvariant, ram.mounted, NEW req \in CreateReq, NEW slot, NEW parent,
         Acceptable(req, slot, parent), StoreTypeOK', desc' = desc,
         req.type = "EF" => sb'.data_top = ram.data_top + req.size,
         job' = [slot |-> slot, d |-> NewDesc(req, parent)]
  PROVE  JobInv' /\ job' \in [slot : Slot, d : fs_descriptor]
<1> DEFINE d == NewDesc(req, parent)
<1> USE DEF CardInvariant
<1>1. job'.slot = slot /\ job'.d = d
  OBVIOUS
<1>2. /\ d.file_id = req.file_id /\ d.type = req.type /\ d.parent = parent
      /\ d.size = req.size /\ d.sfi = req.sfi /\ d.lifecycle = req.lifecycle
      /\ req.type = "EF" => d.data_offset = ram.data_top
      /\ req.type # "EF" => d.data_offset = 0
  BY DEF NewDesc
<1>3. ram.data_top \in Nat /\ ram.data_top <= FLASH_SIZE /\ sb.data_top <= ram.data_top
      /\ sb.data_top \in Nat
  BY DEF StoreInv, SuperblockInv, TypeOK, StoreTypeOK, s_sb, superblock
<1>4. d \in fs_descriptor
  <2>1. d.data_offset \in 0 .. FLASH_SIZE
    <3>1. CASE req.type = "EF"
      <4>1. d.data_offset = ram.data_top
        BY <1>2, <3>1
      <4> QED
        BY <1>3, <4>1, SizesAssumption
    <3>2. CASE req.type # "EF"
      <4>1. d.data_offset = 0
        BY <1>2, <3>2
      <4> QED
        BY <4>1, SizesAssumption
    <3> QED
      BY <3>1, <3>2
  <2>2. parent \in Slot
    BY DEF Acceptable, Files
  <2> QED
    BY <2>1, <2>2 DEF NewDesc, fs_descriptor, CreateReq, FileType
<1>5. JobInv'
  <2>1. /\ job'.slot \in Slot \ {FS_ROOT_INDEX} /\ desc'[job'.slot].type = "FREE"
        /\ job'.d.parent \in Files' /\ fs_is_df(desc'[job'.d.parent])
    BY <1>1, <1>2, TableKept DEF Acceptable
  <2>2. job'.d.type \in {"DF", "EF"}
    BY <1>1, <1>2 DEF CreateReq
  <2>3. \A i \in Files' : Distinguishable(job'.d, desc'[i])
    BY <1>1, TableKept DEF Acceptable
  <2>4. ASSUME fs_is_ef(job'.d)
        PROVE  DataBelow(job.d.data_offset)' /\ job'.d.data_offset + job'.d.size <= sb'.data_top
    <3>1. req.type = "EF"
      BY <1>1, <1>2, <2>4 DEF fs_is_ef
    <3>2. DataBelow(sb.data_top)
      BY DEF StoreInv, SuperblockInv
    <3>3. \A i \in EFs : desc[i].data_offset + desc[i].size \in Nat
      BY SizesAssumption DEF TypeOK, StoreTypeOK, fs_descriptor, EFs
    <3>4. DataBelow(ram.data_top)
      BY <1>3, <3>2, <3>3, BelowHigherTop
    <3>5. DataBelow(job.d.data_offset)'
      BY <1>1, <1>2, <3>1, <3>4, TableKept DEF DataBelow
    <3>6. ram.data_top + req.size \in Nat
      BY <1>3 DEF CreateReq
    <3>7. job'.d.data_offset = ram.data_top /\ job'.d.size = req.size
      BY <1>1, <1>2, <3>1
    <3>8. sb'.data_top = ram.data_top + req.size
      BY <3>1
    <3> QED
      BY <3>5, <3>6, <3>7, <3>8
  <2> QED
    BY <2>1, <2>2, <2>3, <2>4 DEF JobInv, Distinguishable, fs_is_df, fs_is_ef
<1> QED
  BY <1>4, <1>5 DEF Acceptable

\* Where fs_personalise stands when it begins a row.
LEMMA RowStage ==
  ASSUME CardInvariant, pc = "row", row <= Len(Layout)
  PROVE  /\ row \in 1 .. Len(Layout) /\ FactoryInv(row)
         /\ ram.mounted /\ life = "INITIALISING"
<1>1. /\ row \in 1 .. Len(Layout) + 1 /\ FactoryInv(row)
      /\ ram.mounted /\ life = "INITIALISING"
  BY DEF CardInvariant, StageInv
<1>2. row \in 1 .. Len(Layout)
  BY <1>1, LayoutLen
<1> QED
  BY <1>1, <1>2

\* The next row of the factory table is acceptable.
LEMMA RowAcceptable ==
  ASSUME CardInvariant, pc = "row", row <= Len(Layout),
         ~(Layout[row].type = "EF" /\ NoRoom(Layout[row].size))
  PROVE  Acceptable(RowReq(row), row, Layout[row].parent)
<1> DEFINE p == Layout[row].parent
<1>1. row \in 1 .. Len(Layout) /\ FactoryInv(row)
  BY RowStage
<1>2. row \in Slot \ {FS_ROOT_INDEX} /\ desc[row].type = "FREE"
  BY <1>1, RowFacts DEF FactoryInv, FS_ROOT_INDEX
<1>3. /\ p \in Slot /\ p < row
      /\ p # 0 => Layout[p].type = "DF"
  BY <1>1, RowFacts, LayoutAssumption DEF LayoutRow
<1>4. p \in Files /\ fs_is_df(desc[p])
  <2>1. CASE p = 0
    <3>1. desc[p] = MfDesc
      BY <1>1, <2>1 DEF FactoryInv, FS_ROOT_INDEX
    <3>2. desc[p].type = "MF"
      BY <3>1, MfFields
    <3> QED
      BY <1>3, <3>2 DEF Files, FileType, fs_is_df
  <2>2. CASE p # 0
    <3>1. p \in 1 .. row - 1
      BY <1>1, <1>3, <2>2, SizesAssumption DEF Slot
    <3>2. desc[p].type = "DF"
      BY <1>1, <1>3, <2>2, <3>1 DEF FactoryInv, IsRow
    <3> QED
      BY <1>3, <3>2 DEF Files, FileType, fs_is_df
  <2> QED
    BY <2>1, <2>2
<1>5. ASSUME NEW i \in Files
      PROVE  Distinguishable(NewDesc(RowReq(row), p), desc[i])
  <2> DEFINE d == NewDesc(RowReq(row), p)
  <2>1. d.parent = p /\ d.file_id = Layout[row].file_id /\ d.sfi = Layout[row].sfi
    BY DEF NewDesc, RowReq
  <2>2. i \in Slot /\ ~(i >= row)
    BY <1>1 DEF Files, FactoryInv, FileType
  <2>3. CASE i = 0
    <3>1. desc[i] = MfDesc
      BY <1>1, <2>3 DEF FactoryInv, FS_ROOT_INDEX
    <3>2. desc[i].parent = FS_NO_PARENT
      BY <3>1, MfFields
    <3>3. FS_NO_PARENT \notin Slot
      BY SizesAssumption DEF FS_NO_PARENT, Slot
    <3> QED
      BY <1>3, <2>1, <3>2, <3>3 DEF Distinguishable
  <2>4. CASE i # 0
    <3>1. i \in 1 .. row - 1 /\ i \in 1 .. Len(Layout) /\ i # row
      <4>1. Len(Layout) \in Nat
        BY LayoutLen
      <4> QED
        BY <1>1, <2>2, <2>4, <4>1, SizesAssumption DEF Slot
    <3>2. IsRow(desc[i], i)
      BY <1>1, <3>1 DEF FactoryInv
    <3>3. Layout[row].parent = Layout[i].parent =>
            /\ Layout[row].file_id # Layout[i].file_id
            /\ Layout[row].sfi = Layout[i].sfi => Layout[row].sfi = FS_NO_SFI
      BY <1>1, <3>1, LayoutAssumption
    <3> QED
      BY <2>1, <3>2, <3>3 DEF Distinguishable, IsRow
  <2> QED
    BY <2>3, <2>4
<1>6. RowReq(row).type = "EF" => ~NoRoom(RowReq(row).size)
  BY DEF RowReq
<1> QED
  BY <1>2, <1>4, <1>5, <1>6 DEF Acceptable

\* fs_personalise begins a row: the factory table is acceptable.
LEMMA PersonaliseRowInv ==
  ASSUME CardInvariant, personalise_row PROVE CardInvariant'
<1> USE DEF CardInvariant
<1> DEFINE req == RowReq(row)
           p == Layout[row].parent
           Place == /\ pc' = "place"
                    /\ job' = [slot |-> row, d |-> NewDesc(req, p)]
                    /\ rsp' = NoRsp
                    /\ UNCHANGED <<life, sel, row, walk>>
<1>1. /\ pc = "row" /\ ram.mounted /\ life = "INITIALISING" /\ FactoryInv(row)
      /\ row \in 1 .. Len(Layout) /\ row <= Len(Layout)
  <2>1. pc = "row" /\ row <= Len(Layout)
    BY DEF personalise_row
  <2> QED
    BY <2>1, RowStage
<1>2. CASE Layout[row].type = "EF" /\ NoRoom(Layout[row].size)
  <2>1. InitFailed /\ UNCHANGED storeVars
    BY <1>2 DEF personalise_row
  <2> QED
    BY <2>1, QuietType, QuietInv, InitFailedStep DEF TypeOK, storeVars
<1>3. CASE ~(Layout[row].type = "EF" /\ NoRoom(Layout[row].size))
  <2>1. AllocThenPlace(req, row, p, InitFailed)
    BY <1>1, <1>3, LayoutAssumption DEF personalise_row
  <2>2. Acceptable(req, row, p) /\ req \in CreateReq /\ req.type = Layout[row].type
    BY <1>1, <1>3, RowAcceptable, RowFacts DEF RowReq
  <2>3. ASSUME Place, StoreTypeOK', StoreInv', desc' = desc, ram'.mounted,
               req.type = "EF" => sb'.data_top = ram.data_top + req.size
        PROVE  CardInvariant'
    <3>1. JobInv' /\ job' \in [slot : Slot, d : fs_descriptor]
      BY <1>1, <2>2, <2>3, JobReady
    <3>2. TypeOK'
      BY <2>3, <3>1 DEF TypeOK, Pc
    <3>3. FactoryInv(row)' /\ job'.slot = row' /\ IsRow(job'.d, row')
      BY <1>1, <2>3 DEF FactoryInv, IsRow, NewDesc, RowReq
    <3>4. StageInv'
      BY <1>1, <2>3, <3>1, <3>3 DEF StageInv, IsRow
    <3> QED
      BY <2>3, <3>2, <3>4
  <2>4. CASE req.type = "EF"
    <3>1. PICK o \in Outcome : fs_store_alloc_data(o, req.size) /\ After(o, Place, InitFailed)
      BY <2>1, <2>4 DEF AllocThenPlace
    <3>2. desc' = desc /\ req.size \in Nat /\ ~NoRoom(req.size)
      BY <2>2, <2>4, <3>1 DEF fs_store_alloc_data, CreateReq, Acceptable
    <3>3. /\ StoreTypeOK' /\ StoreInv'
          /\ o = "torn" => ram' = RamAtPowerOn
          /\ o = "done" => ram'.mounted /\ sb'.data_top = ram.data_top + req.size
      BY <1>1, <3>1, <3>2, TopMoved DEF TypeOK
    <3>4. o \in {"done", "failed", "unsynced", "torn"}
      BY FaultsAssumption DEF Outcome
    <3>5. CASE o = "done"
      BY <2>3, <3>1, <3>2, <3>3, <3>5 DEF After
    <3>6. CASE o = "torn"
      BY <3>1, <3>3, <3>6, PowerLost DEF After
    <3>7. CASE o \in {"failed", "unsynced"}
      BY <3>1, <3>3, <3>7, InitFailedStep DEF After
    <3> QED
      BY <3>4, <3>5, <3>6, <3>7
  <2>5. CASE req.type # "EF"
    <3>1. Place /\ UNCHANGED storeVars
      BY <2>1, <2>5 DEF AllocThenPlace
    <3>2. StoreTypeOK' /\ StoreInv' /\ desc' = desc /\ ram'.mounted
      BY <1>1, <3>1, QuietType, QuietInv DEF TypeOK, storeVars
    <3> QED
      BY <2>3, <2>5, <3>1, <3>2
  <2> QED
    BY <2>4, <2>5
<1> QED
  BY <1>2, <1>3

\* A descriptor is stored: the new file fits into the tree.
LEMMA PlaceDescInv ==
  ASSUME CardInvariant, place_desc PROVE CardInvariant'
<1> USE DEF CardInvariant
<1>1. PICK o \in Outcome :
        /\ fs_store_write_desc(o, job.slot, job.d)
        /\ IF life = "INITIALISING"
           THEN After(o, /\ pc' = "row"
                         /\ row' = row + 1
                         /\ job' = NoJob
                         /\ UNCHANGED <<life, sel, walk, rsp>>,
                      InitFailed)
           ELSE After(o, Answer(SW("9000")) /\ UNCHANGED sel, MemoryFailure)
  BY DEF place_desc
<1>2. /\ pc = "place" /\ ram.mounted /\ JobInv
      /\ life \in {"INITIALISING", "OPERATIONAL"}
      /\ life = "INITIALISING" => /\ row \in 1 .. Len(Layout) /\ FactoryInv(row)
                                  /\ job.slot = row /\ IsRow(job.d, row)
  BY DEF place_desc, StageInv
<1>3. /\ job.slot \in Slot \ {FS_ROOT_INDEX} /\ desc[job.slot].type = "FREE"
      /\ job.d \in fs_descriptor
  BY <1>2 DEF JobInv, TypeOK
<1>4. desc_write(o, job.slot, job.d)
  BY <1>1 DEF fs_store_write_desc
<1>5. o \in {"done", "failed", "unsynced", "torn"}
  BY FaultsAssumption DEF Outcome
<1>6. StoreTypeOK'
  BY <1>3, <1>4, DescWriteType DEF TypeOK
<1>7. Written(o) => desc' = [desc EXCEPT ![job.slot] = job.d] /\ sb' = sb /\ ram' = ram
  BY <1>4 DEF desc_write, Written, RamAfter
<1>8. StoreInv'
  <2>1. CASE Written(o)
    BY <1>2, <1>3, <1>7, <2>1, PlacedInv DEF TypeOK, StoreInv, SuperblockInv
  <2>2. CASE ~Written(o)
    BY <1>3, <1>4, <2>2, NotWrittenInv DEF TypeOK
  <2> QED
    BY <2>1, <2>2
<1>9. CASE o = "torn"
  BY <1>1, <1>4, <1>6, <1>8, <1>9, RamAfterWrite, PowerLost DEF After
<1>10. CASE o # "torn" /\ life # "INITIALISING"
  <2>1. \/ Answer(SW("9000")) /\ UNCHANGED sel
        \/ MemoryFailure
    BY <1>1, <1>5, <1>10 DEF After
  <2> QED
    BY <1>6, <1>8, <1>10, <2>1, AnswerStep DEF MemoryFailure, TypeOK
<1>11. CASE o \in {"failed", "unsynced"} /\ life = "INITIALISING"
  BY <1>1, <1>6, <1>8, <1>11, InitFailedStep DEF After
<1>12. CASE o = "done" /\ life = "INITIALISING"
  <2>1. pc' = "row" /\ row' = row + 1 /\ job' = NoJob /\ UNCHANGED <<life, sel, walk, rsp>>
    BY <1>1, <1>12 DEF After
  <2>2. Len(Layout) \in Nat
    BY LayoutLen
  <2>3. row' \in 1 .. Len(Layout) + 1 /\ row' \in 0 .. FS_MAX_FILES + Len(Layout)
    BY <1>2, <1>12, <2>1, <2>2, SizesAssumption
  <2>4. TypeOK'
    BY <1>6, <2>1, <2>3, NoJobType DEF TypeOK, Pc
  <2>5. FactoryInv(row)'
    <3>1. desc'[row] = job.d /\ \A i \in Slot \ {row} : desc'[i] = desc[i]
      BY <1>2, <1>3, <1>7, <1>12 DEF Written, TypeOK, StoreTypeOK
    <3>2. desc'[FS_ROOT_INDEX] = MfDesc
      BY <1>2, <1>3, <1>12, <3>1, SlotFacts DEF FactoryInv
    <3>3. ASSUME NEW i \in 1 .. row' - 1
          PROVE  IsRow(desc'[i], i)
      <4>1. CASE i = row
        BY <1>2, <1>12, <3>1, <4>1
      <4>2. CASE i # row
        <5>1. i \in 1 .. row - 1 /\ i \in 1 .. Len(Layout)
          BY <1>2, <1>12, <2>1, <2>2, <4>2
        <5>2. i \in Slot
          BY <5>1, RowFacts
        <5> QED
          BY <1>2, <1>12, <3>1, <4>2, <5>1, <5>2 DEF FactoryInv
      <4> QED
        BY <4>1, <4>2
    <3>4. ASSUME NEW i \in Slot, i >= row' PROVE desc'[i].type = "FREE"
      <4>1. i >= row /\ i # row
        BY <1>2, <1>12, <2>1, <3>4, SlotFacts
      <4> QED
        BY <1>2, <1>12, <3>1, <4>1 DEF FactoryInv
    <3> QED
      BY <3>2, <3>3, <3>4 DEF FactoryInv, IsRow
  <2>6. ram'.mounted
    BY <1>2, <1>7, <1>12 DEF Written
  <2>7. StageInv'
    BY <1>12, <2>1, <2>3, <2>5, <2>6 DEF StageInv
  <2> QED
    BY <1>8, <2>4, <2>7
<1> QED
  BY <1>2, <1>5, <1>9, <1>10, <1>11, <1>12

-----------------------------------------------------------------------------
(***************************************************************************)
(* Commands that write nothing.                                            *)
(***************************************************************************)
LEMMA QuietCommand ==
  ASSUME CardInvariant, UNCHANGED storeVars, NEW r, Answer(r),
         life # "INITIALISING", sel' \in fs_selection
  PROVE  CardInvariant'
<1>1. StoreTypeOK' /\ StoreInv'
  BY QuietType, QuietInv DEF CardInvariant, TypeOK, storeVars
<1> QED
  BY <1>1, AnswerStep DEF CardInvariant

\* What it means that fs_store_read_desc accepts a slot, on a mounted card.
LEMMA ReadDesc ==
  ASSUME CardInvariant, NEW i \in Slot
  PROVE  /\ fs_store_read_desc(i) = "OK" => i \in Files /\ ram.mounted
         /\ i \in Files /\ ram.mounted => fs_store_read_desc(i) = "OK"
<1> USE DEF CardInvariant
<1>1. desc[i] \in fs_descriptor
  BY DEF TypeOK, StoreTypeOK
<1>2. fs_store_read_desc(i) = "OK" => i \in Files /\ ram.mounted
  BY <1>1 DEF fs_store_read_desc, Files, fs_descriptor
<1>3. ASSUME i \in Files, ram.mounted
      PROVE  fs_store_read_desc(i) = "OK"
  <2>1. ram.max_files = FS_MAX_FILES /\ sb.data_top <= FLASH_SIZE /\ DataBelow(sb.data_top)
    BY <1>3, SizesAssumption
    DEF StoreInv, SuperblockInv, TypeOK, StoreTypeOK, superblock, s_sb
  <2>2. ~(i >= ram.max_files)
    BY <2>1, SizesAssumption DEF Slot
  <2>3. fs_is_ef(desc[i]) => ~(desc[i].data_offset + desc[i].size > FLASH_SIZE)
    BY <1>1, <2>1, SizesAssumption
    DEF DataBelow, EFs, fs_descriptor, TypeOK, StoreTypeOK, superblock
  <2> QED
    BY <1>3, <2>2, <2>3 DEF fs_store_read_desc, Files, FileType
<1> QED
  BY <1>2, <1>3

\* On a mounted card the searches see every file, and on another none.
LEMMA ReadableIsFiles ==
  ASSUME CardInvariant
  PROVE  /\ Readable \subseteq Files
         /\ ram.mounted => Readable = Files
         /\ Readable # {} => ram.mounted
         /\ Files \subseteq Slot
BY ReadDesc DEF Readable, Files

\* A slot that resolves holds a usable file.
LEMMA ResolveOK ==
  ASSUME CardInvariant, NEW i \in Slot, resolve(i) = "OK"
  PROVE  /\ i \in Files /\ ram.mounted /\ fs_is_usable(desc[i])
         /\ fs_store_read_desc(i) = "OK"
<1>1. fs_store_read_desc(i) = "OK" /\ fs_is_usable(desc[i])
  BY DEF resolve
<1> QED
  BY <1>1, ReadDesc

\* commit always yields a DF and an EF that are slots.
LEMMA CommitType ==
  ASSUME CardInvariant, NEW s \in fs_selection, NEW i \in Slot, resolve(i) = "OK"
  PROVE  commit(s, i) \in fs_selection
<1>1. i \in Files /\ Formatted
  BY ResolveOK DEF CardInvariant, StoreInv, SuperblockInv
<1>2. ~fs_is_df(desc[i]) => desc[i].parent \in Slot
  BY <1>1 DEF CardInvariant, StoreInv, TreeWellFormed, Files, fs_is_df
<1> QED
  BY <1>2, SlotFacts DEF commit, fs_selection, Index

\* A SELECT that is refused.
LEMMA RefuseSelectInv ==
  ASSUME CardInvariant, UNCHANGED storeVars, life # "INITIALISING", NEW sw, RefuseSelect(sw)
  PROVE  CardInvariant'
<1>1. Answer(SW(sw)) /\ sel' \in fs_selection
  BY DEF RefuseSelect, CardInvariant, TypeOK
<1> QED
  BY <1>1, QuietCommand

\* A SELECT that answers, and commits if the answer is good.
LEMMA FinishSelectInv ==
  ASSUME CardInvariant, UNCHANGED storeVars, life # "INITIALISING", NEW c,
         NEW s \in fs_selection, FinishSelect(c, s)
  PROVE  CardInvariant'
<1>1. Answer(emit_fci(c, fs_selected_index(s))) /\ sel' \in fs_selection
  BY DEF FinishSelect, CardInvariant, TypeOK
<1> QED
  BY <1>1, QuietCommand

\* Searches answer with slots.
LEMMA SearchSlots ==
  ASSUME NEW p, NEW x
  PROVE  fs_find_child(p, x) \subseteq Readable /\ fs_find_by_sfi(p, x) \subseteq Readable
BY DEF fs_find_child, fs_find_by_sfi, First, Named, WithSfi

\* The target of a one-step SELECT is a slot.
LEMMA TargetSlot ==
  ASSUME CardInvariant, NEW c, c.p1 \in 0 .. 3
  PROVE  select_target(c) \subseteq Slot
<1>1. /\ Readable \subseteq Slot
      /\ sel.cur_df \in Slot
      /\ desc[sel.cur_df].parent \in Slot \cup {FS_NO_PARENT}
  BY DEF CardInvariant, TypeOK, StoreTypeOK, fs_selection, fs_descriptor, Readable
<1>2. \A fid : select_by_fid_target(sel, fid) \subseteq Slot
  BY <1>1, SearchSlots, SlotFacts DEF select_by_fid_target
<1>3. select_parent_target(sel) \subseteq Slot
  BY <1>1 DEF select_parent_target
<1> QED
  BY <1>1, <1>2, <1>3, SearchSlots DEF select_target

\* SELECT by identifier, child or parent.
LEMMA SelectInv ==
  ASSUME CardInvariant, scos_cmd_select PROVE CardInvariant'
<1>1. UNCHANGED storeVars /\ life = "OPERATIONAL"
  BY DEF scos_cmd_select, Serving
<1>2. PICK c \in SelectCmds :
       \/ /\ select_params(c) # "9000"
          /\ RefuseSelect(select_params(c))
       \/ /\ select_params(c) = "9000"
          /\ c.p1 \in 0 .. 3
          /\ IF c.p1 = 3 /\ fs_store_read_desc(sel.cur_df) # "OK"
             THEN RefuseSelect(fs_error_to_sw(fs_store_read_desc(sel.cur_df)))
             ELSE \/ /\ select_target(c) = {}
                     /\ RefuseSelect(fs_error_to_sw("NOT_FOUND"))
                  \/ \E i \in select_target(c) : SelectSlot(c, i)
  BY DEF scos_cmd_select
<1>3. CASE \E sw : RefuseSelect(sw)
  BY <1>1, <1>3, RefuseSelectInv
<1>4. ASSUME c.p1 \in 0 .. 3, NEW i \in select_target(c), SelectSlot(c, i)
      PROVE  CardInvariant'
  <2>1. CASE \E sw : RefuseSelect(sw)
    BY <1>1, <2>1, RefuseSelectInv
  <2>2. CASE resolve(i) = "OK" /\ FinishSelect(c, commit(sel, i))
    <3>1. commit(sel, i) \in fs_selection
      BY <1>4, <2>2, TargetSlot, CommitType DEF CardInvariant, TypeOK
    <3> QED
      BY <1>1, <2>2, <3>1, FinishSelectInv
  <2> QED
    BY <1>4, <2>1, <2>2 DEF SelectSlot
<1> QED
  BY <1>2, <1>3, <1>4

\* SELECT by path begins.
LEMMA SelectByPathInv ==
  ASSUME CardInvariant, select_by_path PROVE CardInvariant'
<1>1. PICK c \in SelectCmds :
        /\ select_params(c) = "9000"
        /\ c.p1 \in {8, 9}
        /\ walk' = [cmd |-> c, s |-> 1,
                    scratch |-> IF c.p1 = 8 THEN fs_selection_reset ELSE sel]
  BY DEF select_by_path
<1>2. /\ UNCHANGED <<storeVars, life, sel, row, job>> /\ pc' = "walk"
      /\ life = "OPERATIONAL"
  BY DEF select_by_path, Serving
<1>3. c \in SelectCmd /\ c.lc \in Nat /\ Len(c.path) \in Nat
  <2>1. c \in SelectCmd
    BY CommandsAssumption
  <2>2. c.path \in Seq(Fid)
    BY <2>1 DEF SelectCmd
  <2>3. c.lc \in 0 .. 255
    BY <2>1 DEF SelectCmd
  <2>4. \A n \in 0 .. 255 : n \in Nat
    OBVIOUS
  <2>5. Len(c.path) \in Nat
    BY <2>2
  <2>6. c.lc \in Nat
    BY <2>3, <2>4, Zenon
  <2> QED
    BY <2>1, <2>5, <2>6, Zenon
<1>4. 1 \in 1 .. Len(c.path)
  <2>1. ~(c.lc = 0) /\ c.lc % 2 = 0
    BY <1>1 DEF select_params, fs_error_to_sw
  <2>2. Len(c.path) = c.lc \div 2
    BY <1>1, <1>3, <2>1, CommandsAssumption
  <2>3. c.lc \div 2 >= 1
    BY <1>3, <2>1
  <2> QED
    BY <1>3, <2>2, <2>3
<1>5. StoreTypeOK' /\ StoreInv'
  BY <1>2, QuietType, QuietInv DEF CardInvariant, TypeOK, storeVars
<1>6. TypeOK'
  <2>1. walk' \in [cmd : SelectCmd, s : Nat, scratch : fs_selection]
    BY <1>1, <1>3, ResetType DEF CardInvariant, TypeOK
  <2> QED
    BY <1>2, <1>5, <2>1 DEF CardInvariant, TypeOK, Pc
<1>7. StageInv'
  BY <1>1, <1>2, <1>4 DEF StageInv
<1> QED
  BY <1>5, <1>6, <1>7 DEF CardInvariant

\* A path walk goes on or ends.
LEMMA WalkOnInv ==
  ASSUME CardInvariant, UNCHANGED storeVars, pc = "walk", NEW s \in fs_selection, WalkOn(s)
  PROVE  CardInvariant'
<1>1. life # "INITIALISING" /\ walk.cmd \in SelectCmds /\ walk.s \in 1 .. Len(walk.cmd.path)
  BY DEF CardInvariant, StageInv
<1>2. CASE walk.s = Len(walk.cmd.path)
  BY <1>1, <1>2, FinishSelectInv DEF WalkOn
<1>3. CASE walk.s # Len(walk.cmd.path)
  <2>1. /\ walk' = [walk EXCEPT !.s = @ + 1, !.scratch = s]
        /\ UNCHANGED <<pc, life, sel, row, job, rsp>>
    BY <1>3 DEF WalkOn
  <2>2. walk'.cmd = walk.cmd /\ walk'.s = walk.s + 1
        /\ walk' \in [cmd : SelectCmd, s : Nat, scratch : fs_selection]
    <3>1. walk \in [cmd : SelectCmd, s : Nat, scratch : fs_selection]
      BY DEF CardInvariant, TypeOK
    <3>2. walk.s + 1 \in Nat
      BY <3>1
    <3> QED
      BY <2>1, <3>1, <3>2, Zenon
  <2>3. StoreTypeOK' /\ StoreInv'
    BY QuietType, QuietInv DEF CardInvariant, TypeOK, storeVars
  <2>4. TypeOK'
    BY <2>1, <2>2, <2>3 DEF CardInvariant, TypeOK
  <2>5. Len(walk.cmd.path) \in Nat
    <3>1. walk.cmd.path \in Seq(Fid)
      BY DEF CardInvariant, TypeOK, SelectCmd
    <3> QED
      BY <3>1
  <2>6. walk'.s \in 1 .. Len(walk'.cmd.path)
    BY <1>1, <1>3, <2>2, <2>5
  <2>7. StageInv'
    BY <1>1, <2>1, <2>2, <2>6 DEF StageInv
  <2> QED
    BY <2>3, <2>4, <2>7 DEF CardInvariant
<1> QED
  BY <1>2, <1>3

\* One component of a path.
LEMMA WalkStepInv ==
  ASSUME CardInvariant, walk_step PROVE CardInvariant'
<1> DEFINE fid == walk.cmd.path[walk.s]
           hits == fs_find_child(walk.scratch.cur_df, fid)
<1>1. pc = "walk" /\ UNCHANGED storeVars /\ life # "INITIALISING"
  BY DEF walk_step, CardInvariant, StageInv
<1>2. walk.scratch \in fs_selection
  BY DEF CardInvariant, TypeOK
<1>3. \/ WalkOn(walk.scratch)
      \/ \E sw : RefuseSelect(sw)
      \/ \E i \in hits : resolve(i) = "OK" /\ WalkOn(commit(walk.scratch, i))
  BY DEF walk_step
<1>4. ASSUME NEW i \in hits, resolve(i) = "OK", WalkOn(commit(walk.scratch, i))
      PROVE  CardInvariant'
  <2>1. i \in Slot
    BY SearchSlots DEF Readable
  <2>2. commit(walk.scratch, i) \in fs_selection
    BY <1>2, <1>4, <2>1, CommitType
  <2> QED
    BY <1>1, <1>4, <2>2, WalkOnInv
<1>5. ASSUME WalkOn(walk.scratch) PROVE CardInvariant'
  BY <1>1, <1>2, <1>5, WalkOnInv
<1>6. ASSUME NEW sw, RefuseSelect(sw) PROVE CardInvariant'
  BY <1>1, <1>6, RefuseSelectInv
<1> QED
  BY <1>3, <1>4, <1>5, <1>6

\* The refusals of scos_process, and a reset.
LEMMA KernelInv ==
  ASSUME CardInvariant, process_fs_error \/ process_refused \/ scos_reset
  PROVE  CardInvariant'
<1>1. sel \in fs_selection
  BY DEF CardInvariant, TypeOK
<1>2. CASE process_fs_error
  <2>1. Answer(SW("6581")) /\ UNCHANGED storeVars /\ life # "INITIALISING" /\ sel' = sel
    BY <1>2 DEF process_fs_error
  <2> QED
    BY <1>1, <2>1, QuietCommand
<1>3. CASE process_refused
  <2>1. /\ \E sw : Answer(SW(sw))
        /\ UNCHANGED storeVars /\ life # "INITIALISING" /\ sel' = sel
    BY <1>3 DEF process_refused, Serving
  <2> QED
    BY <1>1, <2>1, QuietCommand
<1>4. CASE scos_reset
  <2>1. StoreTypeOK' /\ StoreInv'
    BY <1>4, QuietType, QuietInv DEF CardInvariant, TypeOK, scos_reset, storeVars
  <2>2. TypeOK'
    BY <1>4, <2>1, ResetType DEF CardInvariant, TypeOK, scos_reset, scos_lifecycle
  <2>3. pc' = "ready" /\ life' = "OPERATIONAL"
    BY <1>4 DEF scos_reset
  <2>4. StageInv'
    BY <2>3 DEF StageInv
  <2> QED
    BY <2>1, <2>2, <2>4 DEF CardInvariant
<1> QED
  BY <1>2, <1>3, <1>4

\* READ BINARY changes nothing but the answer.
LEMMA ReadBinaryInv ==
  ASSUME CardInvariant, scos_cmd_read_binary PROVE CardInvariant'
<1>1. \E r : Answer(r)
  BY DEF scos_cmd_read_binary
<1>2. UNCHANGED storeVars /\ sel' = sel /\ life # "INITIALISING"
  BY DEF scos_cmd_read_binary, Serving
<1> QED
  BY <1>1, <1>2, QuietCommand DEF CardInvariant, TypeOK

-----------------------------------------------------------------------------
(***************************************************************************)
(* Commands that write.                                                    *)
(***************************************************************************)
LEMMA WriteDataType ==
  ASSUME StoreTypeOK, NEW o, NEW offset \in Int, NEW src \in Seq(Byte),
         fs_store_write_data(o, offset, src)
  PROVE  StoreTypeOK'
<1>1. PICK K \in SUBSET Cells(offset, Len(src)) :
        flash' = [c \in DOMAIN flash |->
                    IF c \in K THEN src[c - offset + 1] ELSE flash[c]]
  BY DEF fs_store_write_data
<1>2. DOMAIN flash = 0 .. FLASH_SIZE - 1 /\ flash \in [0 .. FLASH_SIZE - 1 -> Byte]
  BY DEF StoreTypeOK
<1>3. ASSUME NEW c \in K PROVE src[c - offset + 1] \in Byte
  <2>1. Len(src) \in Nat /\ c \in offset .. offset + Len(src) - 1
    BY <1>3 DEF Cells
  <2>2. c - offset + 1 \in 1 .. Len(src)
    BY <2>1
  <2> QED
    BY <2>2
<1>4. flash' \in [0 .. FLASH_SIZE - 1 -> Byte]
  BY <1>1, <1>2, <1>3
<1>5. sb' = sb /\ desc' = desc /\ ram' = RamAfter(o, ram)
  BY DEF fs_store_write_data
<1> QED
  BY <1>4, <1>5, RamTypes DEF StoreTypeOK

\* UPDATE BINARY changes FLASH only, and no descriptor depends on that.
LEMMA UpdateBinaryInv ==
  ASSUME CardInvariant, scos_cmd_update_binary PROVE CardInvariant'
<1> USE DEF CardInvariant
<1>1. life # "INITIALISING" /\ sel \in fs_selection
  BY DEF scos_cmd_update_binary, Serving, TypeOK
<1>2. CASE \E r : Answer(r) /\ UNCHANGED <<storeVars, sel>>
  BY <1>1, <1>2, QuietCommand
<1>3. ASSUME NEW c \in UpdateCmds, NEW i \in target(c.to), NEW o \in Outcome,
             ef_write_status(i, c.to.offset, Len(c.data)) = "OK",
             fs_store_write_data(o, desc[i].data_offset + c.to.offset, c.data),
             \/ RamLost /\ o = "torn"
             \/ \E r : Answer(r) /\ UNCHANGED sel
      PROVE  CardInvariant'
  <2>1. i \in Slot
    <3>1. i \in Slot \cup {FS_INVALID_INDEX}
      BY SearchSlots DEF target, Readable, TypeOK, fs_selection, Index
    <3>2. i = FS_INVALID_INDEX => fs_store_read_desc(i) # "OK"
      BY SizesAssumption DEF fs_store_read_desc, StoreInv, SuperblockInv
    <3>3. fs_store_read_desc(i) = "OK"
      BY <1>3 DEF ef_write_status, resolve
    <3> QED
      BY <3>1, <3>2, <3>3
  <2>2. c.data \in Seq(Byte) /\ c.to.offset \in Nat
    <3>1. c \in UpdateCmd
      BY CommandsAssumption
    <3> QED
      BY <3>1 DEF UpdateCmd, BinaryTarget
  <2>3. desc[i].data_offset \in Nat
    BY <2>1 DEF TypeOK, StoreTypeOK, fs_descriptor
  <2>4. desc[i].data_offset + c.to.offset \in Int
    BY <2>2, <2>3
  <2>5. StoreTypeOK'
    BY <1>3, <2>2, <2>4, WriteDataType DEF TypeOK
  <2>6. StoreInv' /\ (o = "torn" => ram' = RamAtPowerOn)
    BY <1>3, QuietInv DEF fs_store_write_data, RamAfter
  <2> QED
    BY <1>1, <1>3, <2>5, <2>6, PowerLost, AnswerStep
<1>4. PICK c \in UpdateCmds :
        \/ \E r : Answer(r) /\ UNCHANGED <<storeVars, sel>>
        \/ \E i \in target(c.to) :
             /\ ef_write_status(i, c.to.offset, Len(c.data)) = "OK"
             /\ \E o \in Outcome :
                  /\ fs_store_write_data(o, desc[i].data_offset + c.to.offset, c.data)
                  /\ LET done == /\ Answer(SW(fs_error_to_sw(write_data_status(o))))
                                 /\ UNCHANGED sel
                     IN After(o, done, done)
  BY DEF scos_cmd_update_binary
<1>5. ASSUME NEW i \in target(c.to), NEW o \in Outcome,
             ef_write_status(i, c.to.offset, Len(c.data)) = "OK",
             fs_store_write_data(o, desc[i].data_offset + c.to.offset, c.data),
             LET done == /\ Answer(SW(fs_error_to_sw(write_data_status(o))))
                         /\ UNCHANGED sel
             IN After(o, done, done)
      PROVE  CardInvariant'
  <2>1. o \in {"done", "failed", "unsynced", "torn"}
    BY FaultsAssumption DEF Outcome
  <2>2. \/ RamLost /\ o = "torn"
        \/ \E r : Answer(r) /\ UNCHANGED sel
    BY <1>5, <2>1 DEF After
  <2> QED
    BY <1>3, <1>5, <2>2
<1> QED
  BY <1>2, <1>4, <1>5

\* A card with any file has its MF.
LEMMA RootExists ==
  ASSUME StoreInv, Formatted, Files # {}
  PROVE  FS_ROOT_INDEX \in Files
<1> SUFFICES ASSUME FS_ROOT_INDEX \notin Files PROVE FALSE
  OBVIOUS
<1>1. Files \in SUBSET (Files \ {FS_ROOT_INDEX})
  OBVIOUS
<1>2. PICK i \in Files : desc[i].parent \notin Files
  BY <1>1 DEF StoreInv, TreeWellFormed
<1> QED
  BY <1>2 DEF StoreInv, TreeWellFormed

\* What fs_create_file checks before its first write is enough.
LEMMA CreateAcceptable ==
  ASSUME CardInvariant, NEW req \in CreateReq, create_status(sel, req) = "OK",
         NEW slot \in fs_store_find_free_slot
  PROVE  Acceptable(req, slot, sel.cur_df) /\ ram.mounted
<1> USE DEF CardInvariant
<1> DEFINE p == sel.cur_df
<1>1. /\ fs_store_read_desc(p) = "OK" /\ fs_is_df(desc[p])
      /\ Named(p, req.file_id) = {}
      /\ req.sfi # FS_NO_SFI => WithSfi(p, req.sfi) = {}
      /\ req.type = "EF" => ~NoRoom(req.size)
  BY DEF create_status
<1>2. p \in Files /\ ram.mounted /\ Formatted
  BY <1>1, ReadDesc DEF TypeOK, fs_selection, StoreInv, SuperblockInv
<1>3. slot \in Slot /\ desc[slot].type = "FREE"
  BY DEF fs_store_find_free_slot, First, FreeSlots
<1>4. slot # FS_ROOT_INDEX
  BY <1>2, <1>3, RootExists DEF Files, FileType
<1>5. Readable = Files
  BY <1>2, ReadableIsFiles
<1>6. ASSUME NEW i \in Files
      PROVE  Distinguishable(NewDesc(req, p), desc[i])
  <2>1. ASSUME desc[i].parent = p PROVE desc[i].file_id # req.file_id
    BY <1>1, <1>5, <2>1 DEF Named
  <2>2. ASSUME desc[i].parent = p, fs_is_ef(desc[i]), desc[i].sfi = req.sfi
        PROVE  req.sfi = FS_NO_SFI
    BY <1>1, <1>5, <2>2 DEF WithSfi
  <2> QED
    BY <2>1, <2>2 DEF Distinguishable, NewDesc
<1> QED
  BY <1>1, <1>2, <1>3, <1>4, <1>6 DEF Acceptable

\* CREATE FILE: what its checks let through is acceptable.
LEMMA CreateFileInv ==
  ASSUME CardInvariant, scos_cmd_create_file PROVE CardInvariant'
<1> USE DEF CardInvariant
<1>1. life = "OPERATIONAL" /\ sel \in fs_selection
  BY DEF scos_cmd_create_file, Serving, TypeOK
<1>2. PICK req \in CreateReqs :
        \/ /\ create_status(sel, req) # "OK"
           /\ Answer(SW(fs_error_to_sw(create_status(sel, req))))
           /\ UNCHANGED <<storeVars, sel>>
        \/ /\ create_status(sel, req) = "OK"
           /\ \E slot \in fs_store_find_free_slot :
                AllocThenPlace(req, slot, sel.cur_df, MemoryFailure)
  BY DEF scos_cmd_create_file
<1>3. CASE create_status(sel, req) # "OK"
  BY <1>1, <1>2, <1>3, QuietCommand
<1>4. CASE create_status(sel, req) = "OK"
  <2> DEFINE p == sel.cur_df
  <2>1. PICK slot \in fs_store_find_free_slot : AllocThenPlace(req, slot, p, MemoryFailure)
    BY <1>2, <1>4
  <2> DEFINE Place == /\ pc' = "place"
                      /\ job' = [slot |-> slot, d |-> NewDesc(req, p)]
                      /\ rsp' = NoRsp
                      /\ UNCHANGED <<life, sel, row, walk>>
  <2>2. req \in CreateReq
    BY CommandsAssumption
  <2>3. Acceptable(req, slot, p) /\ ram.mounted
    BY <1>4, <2>2, CreateAcceptable
  <2>4. ASSUME Place, StoreTypeOK', StoreInv', desc' = desc, ram'.mounted,
               req.type = "EF" => sb'.data_top = ram.data_top + req.size
        PROVE  CardInvariant'
    <3>1. JobInv' /\ job' \in [slot : Slot, d : fs_descriptor]
      BY <2>2, <2>3, <2>4, JobReady
    <3>2. TypeOK'
      BY <2>4, <3>1 DEF TypeOK, Pc
    <3>3. StageInv'
      BY <1>1, <2>4, <3>1 DEF StageInv
    <3> QED
      BY <2>4, <3>2, <3>3
  <2>5. CASE req.type = "EF"
    <3>1. PICK o \in Outcome :
            fs_store_alloc_data(o, req.size) /\ After(o, Place, MemoryFailure)
      BY <2>1, <2>5 DEF AllocThenPlace
    <3>2. desc' = desc /\ req.size \in Nat /\ ~NoRoom(req.size)
      BY <2>2, <2>3, <2>5, <3>1 DEF fs_store_alloc_data, CreateReq, Acceptable
    <3>3. /\ StoreTypeOK' /\ StoreInv'
          /\ o = "torn" => ram' = RamAtPowerOn
          /\ o = "done" => ram'.mounted /\ sb'.data_top = ram.data_top + req.size
      BY <2>3, <3>1, <3>2, TopMoved DEF TypeOK
    <3>4. o \in {"done", "failed", "unsynced", "torn"}
      BY FaultsAssumption DEF Outcome
    <3>5. CASE o = "done"
      BY <2>4, <3>1, <3>2, <3>3, <3>5 DEF After
    <3>6. CASE o = "torn"
      BY <3>1, <3>3, <3>6, PowerLost DEF After
    <3>7. CASE o \in {"failed", "unsynced"}
      <4>1. Answer(SW(fs_error_to_sw("NVM"))) /\ sel' = sel
        BY <3>1, <3>7 DEF After, MemoryFailure
      <4> QED
        BY <1>1, <3>3, <4>1, AnswerStep
    <3> QED
      BY <3>4, <3>5, <3>6, <3>7
  <2>6. CASE req.type # "EF"
    <3>1. Place /\ UNCHANGED storeVars
      BY <2>1, <2>6 DEF AllocThenPlace
    <3>2. StoreTypeOK' /\ StoreInv' /\ desc' = desc /\ ram'.mounted
      BY <2>3, <3>1, QuietType, QuietInv DEF TypeOK, storeVars
    <3> QED
      BY <2>4, <2>6, <3>1, <3>2
  <2> QED
    BY <2>5, <2>6
<1> QED
  BY <1>3, <1>4

\* DELETE FILE: nothing that is freed has children.
LEMMA DeleteFileInv ==
  ASSUME CardInvariant, scos_cmd_delete_file PROVE CardInvariant'
<1> USE DEF CardInvariant
<1>1. life = "OPERATIONAL" /\ sel \in fs_selection
  BY DEF scos_cmd_delete_file, Serving, TypeOK
<1>2. CASE \E r : Answer(r) /\ UNCHANGED <<storeVars, sel>>
  BY <1>1, <1>2, QuietCommand
<1>3. ASSUME NEW fid \in DeleteFids, NEW i \in fs_find_child(sel.cur_df, fid),
             delete_status(i) = "OK", NEW o \in Outcome, fs_store_free_desc(o, i),
             After(o, Answer(SW("9000")) /\ sel' = deselect(sel, i), MemoryFailure)
      PROVE  CardInvariant'
  <2>1. desc_write(o, i, FreeDesc) /\ i \in Slot
    BY <1>3, SearchSlots DEF fs_store_free_desc, Readable
  <2>2. /\ fs_store_read_desc(i) = "OK" /\ desc[i].type # "MF"
        /\ fs_is_df(desc[i]) => ~HasChild(i)
    BY <1>3 DEF delete_status
  <2>3. i \in Files /\ ram.mounted /\ Formatted /\ Readable = Files
    BY <2>1, <2>2, ReadDesc, ReadableIsFiles DEF StoreInv, SuperblockInv
  <2>4. \A j \in Files \ {FS_ROOT_INDEX} : desc[j].parent \in Files /\ desc[j].parent # i
    BY <2>2, <2>3 DEF StoreInv, TreeWellFormed, HasChild
  <2>5. StoreTypeOK'
    BY <2>1, NoDescType, DescWriteType DEF TypeOK
  <2>6. StoreInv'
    <3>1. /\ Files' \subseteq Files /\ Files \ {i} \subseteq Files'
          /\ \A j \in Files' : desc'[j] = desc[j]
      BY <2>1, WriteShrinks DEF TypeOK
    <3>2. sb' = sb /\ ram' \in {ram, RamAtPowerOn}
      BY <2>1, RamAfterWrite
    <3>3. \A j \in Files' \ {FS_ROOT_INDEX} : desc[j].parent \in Files'
      BY <2>4, <3>1
    <3> QED
      BY <3>1, <3>2, <3>3, ShrinkInv
  <2>7. o \in {"done", "failed", "unsynced", "torn"}
    BY FaultsAssumption DEF Outcome
  <2>8. CASE o = "torn"
    BY <1>3, <2>1, <2>5, <2>6, <2>8, RamAfterWrite, PowerLost DEF After
  <2>9. CASE o # "torn"
    <3>1. deselect(sel, i) \in fs_selection
      BY <1>1, ResetType DEF deselect, fs_selection, Index
    <3>2. sel' \in fs_selection /\ \E r : Answer(r)
      BY <1>1, <1>3, <2>7, <2>9, <3>1 DEF After, MemoryFailure
    <3> QED
      BY <1>1, <2>5, <2>6, <3>2, AnswerStep
  <2> QED
    BY <2>8, <2>9
<1>4. \/ \E r : Answer(r) /\ UNCHANGED <<storeVars, sel>>
      \/ \E fid \in DeleteFids : \E i \in fs_find_child(sel.cur_df, fid) :
           /\ delete_status(i) = "OK"
           /\ \E o \in Outcome :
                /\ fs_store_free_desc(o, i)
                /\ After(o, Answer(SW("9000")) /\ sel' = deselect(sel, i), MemoryFailure)
  BY DEF scos_cmd_delete_file
<1> QED
  BY <1>2, <1>3, <1>4

-----------------------------------------------------------------------------
(***************************************************************************)
(* The theorems.                                                           *)
(***************************************************************************)
\* Every step of the card preserves the invariant.
LEMMA NextInv ==
  ASSUME CardInvariant, [Next]_vars PROVE CardInvariant'
<1>1. CASE UNCHANGED vars
  BY <1>1, StutterInv
<1>2. CASE Next
  <2>1. CASE scos_init \/ scos_reset \/ PowerCut \/ Decay
    BY <2>1, ScosInitInv, KernelInv, PowerCutInv, DecayInv
  <2>2. CASE Internal
    BY <2>2, FormatSlotInv, FormatDoneInv, PersonaliseMfInv, PersonaliseRowInv,
       PersonaliseDoneInv, PlaceDescInv, WalkStepInv DEF Internal
  <2>3. CASE Command
    BY <2>3, KernelInv, SelectInv, SelectByPathInv, ReadBinaryInv, UpdateBinaryInv,
       CreateFileInv, DeleteFileInv DEF Command
  <2> QED
    BY <1>2, <2>1, <2>2, <2>3 DEF Next
<1> QED
  BY <1>1, <1>2

\* The invariant holds in every reachable state: for all sizes of the table and
\* of FLASH, every factory layout, every set of commands and all memory faults.
THEOREM Invariance == Spec => []CardInvariant
<1>1. Init => CardInvariant
  BY InitInv
<1>2. CardInvariant /\ [Next]_vars => CardInvariant'
  BY NextInv
<1> QED
  BY <1>1, <1>2, PTL DEF Spec

\* The type invariant of the card.
THEOREM TypeCorrect == Spec => []TypeOK
<1>1. CardInvariant => TypeOK
  BY DEF CardInvariant
<1> QED
  BY <1>1, Invariance, PTL

\* Two extents that are apart share no byte.
LEMMA ApartDisjoint ==
  ASSUME NEW d \in fs_descriptor, NEW e \in fs_descriptor, Apart(d, e)
  PROVE  Extent(d) \cap Extent(e) = {}
<1>1. /\ d.data_offset \in Nat /\ d.size \in Nat
      /\ e.data_offset \in Nat /\ e.size \in Nat
  BY DEF fs_descriptor
<1>2. ASSUME NEW c \in Extent(d), c \in Extent(e) PROVE FALSE
  BY <1>1, <1>2 DEF Extent, Cells, Apart
<1> QED
  BY <1>2

\* The invariant keeps the data of the files apart.
LEMMA InvNoSharedData == CardInvariant => NoSharedData
<1> SUFFICES ASSUME CardInvariant PROVE NoSharedData
  OBVIOUS
<1>1. \A i \in EFs : desc[i] \in fs_descriptor
  BY DEF CardInvariant, TypeOK, StoreTypeOK, EFs
<1>2. \A i, j \in EFs : i # j => Extent(desc[i]) \cap Extent(desc[j]) = {}
  BY <1>1, ApartDisjoint DEF CardInvariant, StoreInv, DataApart
<1>3. ASSUME pc = "place", fs_is_ef(job.d), NEW i \in EFs
      PROVE  Extent(job.d) \cap Extent(desc[i]) = {}
  <2>1. Apart(job.d, desc[i])
    BY <1>3 DEF CardInvariant, StageInv, JobInv, DataBelow, Apart
  <2>2. job.d \in fs_descriptor
    BY DEF CardInvariant, TypeOK
  <2> QED
    BY <1>1, <2>1, <2>2, ApartDisjoint
<1>4. Formatted => \A i \in EFs : desc[i].data_offset + desc[i].size <= sb.data_top
  BY DEF CardInvariant, StoreInv, SuperblockInv, DataBelow
<1> QED
  BY <1>2, <1>3, <1>4 DEF NoSharedData

\* No byte of FLASH ever belongs to two elementary files, and every file lies
\* below the durable top of a formatted card, whatever write of CREATE FILE or
\* of personalisation fails, is torn or is not synced.
THEOREM DataNeverShared == Spec => []NoSharedData
BY InvNoSharedData, Invariance, PTL

\* The mirror of the superblock in RAM is never behind the superblock.
THEOREM MirrorNeverBehind == Spec => []MirrorAhead
<1>1. CardInvariant => MirrorAhead
  BY DEF CardInvariant, StoreInv, SuperblockInv, MirrorAhead
<1> QED
  BY <1>1, Invariance, PTL

\* The files of a formatted card always form a tree below the MF: no cut of
\* CREATE FILE, DELETE FILE or personalisation leaves an orphan.
THEOREM TreeAlwaysWellFormed == Spec => []TreeWellFormed
<1>1. CardInvariant => TreeWellFormed
  BY DEF CardInvariant, StoreInv
<1> QED
  BY <1>1, Invariance, PTL

\* Siblings never share an identifier or a short identifier, so a SELECT has at
\* most one file to find.
THEOREM SiblingsAlwaysUnique == Spec => []SiblingsUnique
<1>1. CardInvariant => SiblingsUnique
  BY DEF CardInvariant, StoreInv
<1> QED
  BY <1>1, Invariance, PTL

\* Which steps write the superblock: a format, and an allocation there is room
\* for.
LEMMA SbWriters ==
  ASSUME CardInvariant, [Next]_vars
  PROVE  \/ sb' = sb
         \/ Decay
         \/ format_done
         \/ \E o \in Outcome, size \in Nat :
              fs_store_alloc_data(o, size) /\ ram.mounted /\ ~NoRoom(size)
<1>1. CASE scos_init \/ scos_reset \/ PowerCut
  BY <1>1 DEF scos_init, scos_reset, PowerCut, nvmVars, storeVars
<1>2. CASE format_slot \/ personalise_mf \/ place_desc
  <2>1. \E o, i, d : desc_write(o, i, d)
    BY <1>2 DEF format_slot, personalise_mf, place_desc, fs_store_free_desc,
                fs_store_write_desc
  <2> QED
    BY <2>1, RamAfterWrite
<1>3. CASE personalise_row
  <2>1. pc = "row" /\ row <= Len(Layout)
    BY <1>3 DEF personalise_row
  <2>2. row \in 1 .. Len(Layout) /\ ram.mounted
    BY <2>1, RowStage
  <2>3. CASE Layout[row].type = "EF" /\ ~NoRoom(Layout[row].size)
    <3>1. RowReq(row).size = Layout[row].size
      BY DEF RowReq
    <3>2. Layout[row].size \in Nat
      <4>1. Layout[row] \in LayoutRow
        BY <2>2, RowFacts
      <4>2. Layout[row].size \in 0 .. FS_MAX_EF_SIZE
        BY <4>1, Zenon DEF LayoutRow
      <4> QED
        BY <4>2
    <3>3. \E o \in Outcome : fs_store_alloc_data(o, RowReq(row).size)
      BY <1>3, <2>3 DEF personalise_row, AllocThenPlace, RowReq
    <3> QED
      BY <2>2, <2>3, <3>1, <3>2, <3>3
  <2>4. CASE ~(Layout[row].type = "EF" /\ ~NoRoom(Layout[row].size))
    BY <1>3, <2>4 DEF personalise_row, AllocThenPlace, RowReq, storeVars
  <2> QED
    BY <2>3, <2>4
<1>4. CASE scos_cmd_create_file
  <2>1. \/ UNCHANGED storeVars
        \/ \E req \in CreateReqs, o \in Outcome, slot \in fs_store_find_free_slot :
             /\ create_status(sel, req) = "OK"
             /\ req.type = "EF"
             /\ fs_store_alloc_data(o, req.size)
    BY <1>4 DEF scos_cmd_create_file, AllocThenPlace
  <2>2. ASSUME NEW req \in CreateReqs, NEW o \in Outcome, NEW slot \in fs_store_find_free_slot,
               create_status(sel, req) = "OK", req.type = "EF",
               fs_store_alloc_data(o, req.size)
        PROVE  req.size \in Nat /\ ram.mounted /\ ~NoRoom(req.size)
    <3>1. req \in CreateReq /\ req.size \in Nat
      BY CommandsAssumption DEF CreateReq
    <3> QED
      BY <2>2, <3>1, CreateAcceptable DEF Acceptable
  <2> QED
    BY <2>1, <2>2 DEF storeVars
<1>5. CASE scos_cmd_delete_file
  <2>1. UNCHANGED storeVars \/ \E o, i, d : desc_write(o, i, d)
    BY <1>5 DEF scos_cmd_delete_file, fs_store_free_desc
  <2> QED
    BY <2>1, RamAfterWrite DEF storeVars
<1>6. CASE scos_cmd_update_binary
  BY <1>6 DEF scos_cmd_update_binary, fs_store_write_data, storeVars
<1>7. CASE \/ personalise_done \/ walk_step \/ process_fs_error \/ process_refused
           \/ scos_cmd_select \/ select_by_path \/ scos_cmd_read_binary
  BY <1>7
  DEF personalise_done, walk_step, process_fs_error, process_refused,
      scos_cmd_select, select_by_path, scos_cmd_read_binary, storeVars
<1>8. CASE UNCHANGED vars
  BY <1>8 DEF vars
<1> QED
  BY <1>1, <1>2, <1>3, <1>4, <1>5, <1>6, <1>7, <1>8 DEF Next, Internal, Command

\* What writing the superblock does to its top.
LEMMA TopStep ==
  ASSUME CardInvariant, [Next]_vars, Formatted, Formatted'
  PROVE  sb.data_top <= sb'.data_top
<1> USE DEF CardInvariant
<1>1. CASE sb' = sb
  <2>1. sb.data_top \in Nat
    BY DEF TypeOK, StoreTypeOK, superblock
  <2> QED
    BY <1>1, <2>1
<1>2. CASE \E o \in Outcome, size \in Nat :
             fs_store_alloc_data(o, size) /\ ram.mounted /\ ~NoRoom(size)
  <2>1. desc' = desc
    BY <1>2 DEF fs_store_alloc_data
  <2> QED
    BY <1>2, <2>1, TopMoved DEF TypeOK
<1>3. CASE Decay
  BY <1>3 DEF Decay, Formatted, mount_status, TypeOK, StoreTypeOK, superblock
<1>4. CASE format_done
  BY <1>4 DEF format_done, StageInv
<1> QED
  BY <1>1, <1>2, <1>3, <1>4, SbWriters

\* The durable top of a formatted card never falls: space that was ever handed
\* out is not handed out again until the card is formatted anew.
THEOREM TopIsMonotone == Spec => TopNeverFalls
<1>1. CardInvariant /\ [Next]_vars =>
        [Formatted /\ Formatted' => sb.data_top <= sb'.data_top]_vars
  BY TopStep
<1> QED
  BY <1>1, Invariance, PTL DEF Spec, TopNeverFalls

\* A card at work has a step to go, and one that waits or is off has none.
LEMMA StepsToGo ==
  ASSUME CardInvariant
  PROVE  /\ ~(pc \in {"off", "ready"}) => StepsLeft \in Nat /\ StepsLeft # 0
         /\ pc' \in {"off", "ready"} => StepsLeft' = 0
<1>1. Len(Layout) \in Nat /\ FS_MAX_FILES \in Nat
  BY LayoutLen, SizesAssumption
<1>2. pc' \in {"off", "ready"} => StepsLeft' = 0
  BY DEF StepsLeft
<1>3. pc \in Pc
  BY DEF CardInvariant, TypeOK
<1>4. CASE pc \in {"format", "super", "mf"}
  <2>1. pc = "format" => row \in Nat /\ row < FS_MAX_FILES
    BY <1>1 DEF CardInvariant, StageInv, Slot
  <2> QED
    BY <1>1, <1>2, <1>4, <2>1 DEF StepsLeft
<1>5. CASE pc \in {"row", "place"}
  <2>1. pc = "row" \/ life = "INITIALISING" => row \in 1 .. Len(Layout) + 1
    BY <1>1, <1>5 DEF CardInvariant, StageInv
  <2>2. pc = "place" /\ life = "INITIALISING" => row \in 1 .. Len(Layout)
    BY DEF CardInvariant, StageInv
  <2> QED
    BY <1>1, <1>2, <1>5, <2>1, <2>2 DEF StepsLeft
<1>6. CASE pc = "walk"
  <2>1. walk.s \in 1 .. Len(walk.cmd.path) /\ walk.cmd.path \in Seq(Fid)
    BY <1>6 DEF CardInvariant, StageInv, TypeOK, SelectCmd
  <2>2. Len(walk.cmd.path) \in Nat
    BY <2>1
  <2> QED
    BY <1>2, <1>6, <2>1, <2>2 DEF StepsLeft
<1> QED
  BY <1>2, <1>3, <1>4, <1>5, <1>6 DEF Pc

\* A card that neither stops nor loses power goes on as after a write that is done.
LEMMA GoesOn ==
  ASSUME NEW o \in Outcome, NEW A, NEW B, After(o, A, B),
         B => pc' \in {"off", "ready"}, ~(pc' \in {"off", "ready"})
  PROVE  A
<1>1. o \in {"done", "torn", "failed", "unsynced"}
  BY FaultsAssumption DEF Outcome
<1>2. CASE o = "done"
  BY <1>2 DEF After
<1>3. CASE o = "torn"
  BY <1>3 DEF After, RamLost
<1>4. CASE o \in {"failed", "unsynced"}
  BY <1>4 DEF After
<1> QED
  BY <1>1, <1>2, <1>3, <1>4

\* Whatever the card is at, every step leaves fewer steps to go, for every size
\* of the store and every factory table: no loop of scos_init, of CREATE FILE or
\* of a path SELECT goes round.
THEOREM CardNearsReady == Spec => CardAdvances
<1>1. ASSUME CardInvariant, Next, ~(pc \in {"off", "ready"})
      PROVE  StepsLeft' \in 0 .. StepsLeft - 1
  <2>1. PICK l \in Nat, n \in Nat : l = Len(Layout) /\ n = FS_MAX_FILES
    BY LayoutLen, SizesAssumption
  <2>2. StepsLeft \in Nat /\ StepsLeft # 0 /\ (pc' \in {"off", "ready"} => StepsLeft' = 0)
    BY <1>1, StepsToGo
  <2>3. CASE pc' \in {"off", "ready"}
    BY <2>2, <2>3
  <2>4. CASE ~(pc' \in {"off", "ready"})
    <3>1. CASE format_slot
      <4>1. /\ pc = "format" /\ pc' = IF row + 1 < FS_MAX_FILES THEN "format" ELSE "super"
            /\ row' = IF row + 1 < FS_MAX_FILES THEN row + 1 ELSE 0
        <5>1. PICK o \in Outcome :
                After(o, /\ row' = IF row + 1 < FS_MAX_FILES THEN row + 1 ELSE 0
                         /\ pc' = IF row + 1 < FS_MAX_FILES THEN "format" ELSE "super"
                         /\ UNCHANGED <<life, sel, job, walk, rsp>>,
                      InitFailed)
          BY <3>1 DEF format_slot
        <5>2. InitFailed => pc' \in {"off", "ready"}
          BY DEF InitFailed
        <5>3. /\ row' = IF row + 1 < FS_MAX_FILES THEN row + 1 ELSE 0
              /\ pc' = IF row + 1 < FS_MAX_FILES THEN "format" ELSE "super"
              /\ UNCHANGED <<life, sel, job, walk, rsp>>
          BY <2>4, <5>1, <5>2, GoesOn
        <5> QED
          BY <3>1, <5>3 DEF format_slot
      <4>2. row \in Nat /\ row < n
        BY <1>1, <2>1, <4>1 DEF CardInvariant, StageInv, Slot
      <4>3. StepsLeft = (n - row) + 2 * l + 3
        BY <2>1, <4>1 DEF StepsLeft
      <4>4. CASE row + 1 < n
        <5>1. StepsLeft' = (n - (row + 1)) + 2 * l + 3
          BY <2>1, <4>1, <4>4 DEF StepsLeft
        <5> QED
          BY <4>2, <4>3, <4>4, <5>1
      <4>5. CASE ~(row + 1 < n)
        <5>1. StepsLeft' = 2 * l + 3
          BY <2>1, <4>1, <4>5 DEF StepsLeft
        <5> QED
          BY <4>2, <4>3, <5>1
      <4> QED
        BY <4>4, <4>5
    <3>2. CASE format_done
      <4>1. pc = "super" /\ pc' = "mf"
        <5>1. PICK o \in Outcome :
                After(o, pc' = "mf" /\ UNCHANGED <<life, sel, row, job, walk, rsp>>,
                      InitFailed)
          BY <3>2 DEF format_done
        <5>2. InitFailed => pc' \in {"off", "ready"}
          BY DEF InitFailed
        <5>3. pc' = "mf" /\ UNCHANGED <<life, sel, row, job, walk, rsp>>
          BY <2>4, <5>1, <5>2, GoesOn
        <5> QED
          BY <3>2, <5>3 DEF format_done
      <4>2. StepsLeft = 2 * l + 3 /\ StepsLeft' = 2 * l + 2
        BY <2>1, <4>1 DEF StepsLeft
      <4> QED
        BY <4>2
    <3>3. CASE personalise_mf
      <4>1. pc = "mf" /\ pc' = "row" /\ row' = 1
        <5>1. PICK o \in Outcome :
                After(o, /\ pc' = "row" /\ row' = 1
                         /\ UNCHANGED <<life, sel, job, walk, rsp>>,
                      InitFailed)
          BY <3>3 DEF personalise_mf
        <5>2. InitFailed => pc' \in {"off", "ready"}
          BY DEF InitFailed
        <5>3. /\ pc' = "row" /\ row' = 1
              /\ UNCHANGED <<life, sel, job, walk, rsp>>
          BY <2>4, <5>1, <5>2, GoesOn
        <5> QED
          BY <3>3, <5>3 DEF personalise_mf
      <4>2. StepsLeft = 2 * l + 2 /\ StepsLeft' = 2 * (l + 1 - 1) + 1
        BY <2>1, <4>1 DEF StepsLeft
      <4> QED
        BY <4>2
    <3>4. CASE personalise_row
      <4>1. pc = "row" /\ pc' = "place" /\ row' = row /\ life' = life
        <5> DEFINE Place == /\ pc' = "place"
                            /\ job' = [slot |-> Layout[row].index,
                                       d |-> NewDesc(RowReq(row), Layout[row].parent)]
                            /\ rsp' = NoRsp
                            /\ UNCHANGED <<life, sel, row, walk>>
        <5>1. InitFailed => pc' \in {"off", "ready"}
          BY DEF InitFailed
        <5>2. AllocThenPlace(RowReq(row), Layout[row].index, Layout[row].parent, InitFailed)
          BY <2>4, <3>4, <5>1 DEF personalise_row
        <5>3. Place \/ \E o \in Outcome : After(o, Place, InitFailed)
          BY <5>2 DEF AllocThenPlace
        <5>4. (\E o \in Outcome : After(o, Place, InitFailed)) => Place
          <6> HIDE DEF Place
          <6> QED
            BY <2>4, <5>1, GoesOn
        <5> QED
          BY <3>4, <5>3, <5>4 DEF personalise_row
      <4>2. life = "INITIALISING" /\ row \in 1 .. l + 1 /\ row <= l
        BY <1>1, <2>1, <3>4, <4>1 DEF CardInvariant, StageInv, personalise_row
      <4>3. StepsLeft = 2 * (l + 1 - row) + 1 /\ StepsLeft' = 2 * (l + 1 - row)
        BY <2>1, <4>1, <4>2 DEF StepsLeft
      <4> QED
        BY <4>2, <4>3
    <3>5. CASE place_desc
      <4>1. pc = "place" /\ pc' = "row" /\ row' = row + 1 /\ life = "INITIALISING"
        <5>1. PICK o \in Outcome :
                IF life = "INITIALISING"
                THEN After(o, /\ pc' = "row" /\ row' = row + 1 /\ job' = NoJob
                              /\ UNCHANGED <<life, sel, walk, rsp>>,
                           InitFailed)
                ELSE After(o, Answer(SW("9000")) /\ UNCHANGED sel, MemoryFailure)
          BY <3>5 DEF place_desc
        <5>2. InitFailed \/ MemoryFailure \/ (Answer(SW("9000")) /\ UNCHANGED sel) =>
                pc' \in {"off", "ready"}
          BY DEF InitFailed, MemoryFailure, Answer
        <5>3. CASE life = "INITIALISING"
          <6>1. After(o, /\ pc' = "row" /\ row' = row + 1 /\ job' = NoJob
                         /\ UNCHANGED <<life, sel, walk, rsp>>, InitFailed)
            BY <5>1, <5>3
          <6>2. /\ pc' = "row" /\ row' = row + 1 /\ job' = NoJob
                /\ UNCHANGED <<life, sel, walk, rsp>>
            BY <2>4, <5>2, <6>1, GoesOn
          <6> QED
            BY <3>5, <5>3, <6>2 DEF place_desc
        <5>4. CASE life # "INITIALISING"
          <6>1. After(o, Answer(SW("9000")) /\ UNCHANGED sel, MemoryFailure)
            BY <5>1, <5>4
          <6>2. Answer(SW("9000")) /\ UNCHANGED sel
            BY <2>4, <5>2, <6>1, GoesOn
          <6> QED
            BY <2>4, <5>2, <6>2
        <5> QED
          BY <5>3, <5>4
      <4>2. row \in 1 .. l
        BY <1>1, <2>1, <4>1 DEF CardInvariant, StageInv
      <4>3. StepsLeft = 2 * (l + 1 - row) /\ StepsLeft' = 2 * (l + 1 - (row + 1)) + 1
        BY <2>1, <4>1 DEF StepsLeft
      <4> QED
        BY <4>2, <4>3
    <3>6. CASE walk_step
      <4>1. /\ pc = "walk" /\ pc' = "walk" /\ walk.s # Len(walk.cmd.path)
            /\ \E s : walk' = [walk EXCEPT !.s = @ + 1, !.scratch = s]
        BY <2>4, <3>6 DEF walk_step, WalkOn, FinishSelect, RefuseSelect, Answer
      <4>2. /\ walk \in [cmd : SelectCmd, s : Nat, scratch : fs_selection]
            /\ walk.s \in 1 .. Len(walk.cmd.path) /\ walk.cmd.path \in Seq(Fid)
        BY <1>1, <4>1 DEF CardInvariant, StageInv, TypeOK, SelectCmd
      <4>3. PICK k \in Nat, s \in Nat : k = Len(walk.cmd.path) /\ s = walk.s /\ s < k
        BY <4>1, <4>2
      <4>4. walk'.cmd = walk.cmd /\ walk'.s = s + 1
        BY <4>1, <4>2, <4>3
      <4>5. StepsLeft = k + 1 - s /\ StepsLeft' = k + 1 - (s + 1)
        BY <4>1, <4>3, <4>4 DEF StepsLeft
      <4>6. k + 1 - (s + 1) \in 0 .. (k + 1 - s) - 1
        <5>1. s < k
          BY <4>3
        <5> QED
          BY <5>1
      <4> QED
        BY <4>5, <4>6
    <3>7. ~personalise_done /\ ~PowerCut
      BY <2>4, Zenon DEF personalise_done, PowerCut, RamLost
    <3>8. ~scos_init /\ ~Command /\ ~scos_reset /\ ~Decay
      BY <1>1 DEF scos_init, scos_reset, Decay, Command, process_fs_error, process_refused,
        Serving, scos_cmd_select, select_by_path, scos_cmd_read_binary,
        scos_cmd_update_binary, scos_cmd_create_file, scos_cmd_delete_file
    <3> QED
      BY <1>1, <3>1, <3>2, <3>3, <3>4, <3>5, <3>6, <3>7, <3>8 DEF Next, Internal
  <2> QED
    BY <2>3, <2>4
<1>2. CardInvariant /\ [Next]_vars =>
        [~(pc \in {"off", "ready"}) => StepsLeft' \in 0 .. StepsLeft - 1]_vars
  BY <1>1
<1> QED
  BY <1>2, Invariance, PTL DEF Spec, CardAdvances
=============================================================================
