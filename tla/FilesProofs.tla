---------------------------- MODULE FilesProofs ----------------------------
(***************************************************************************)
(* What a reader of the card can rely on: the selection is valid, a        *)
(* refused command leaves no trace, a new file reads as erased, and the    *)
(* card as a whole implements the abstract file tree of FileTree.          *)
(***************************************************************************)
EXTENDS CardFiles, CardProofs

-----------------------------------------------------------------------------
(***************************************************************************)
(* The selection of an operational card is always valid, provided that     *)
(* hal_nvm_sync does not fail: with "unsynced" among the faults, DELETE    *)
(* FILE frees a slot and leaves the selection pointing at it.              *)
(*                                                                         *)
(* And a refused command leaves no trace, in the selection or in the       *)
(* store, whatever the faults.                                             *)
(***************************************************************************)
\* Slot 0 never holds any file but the MF.
RootDesc == FS_ROOT_INDEX \in Files => desc[FS_ROOT_INDEX] = MfDesc

SelectionInv == CardInvariant /\ RootDesc /\ SelectionValid

\* Selection s is valid after the step.
ValidAfter(s) ==
  /\ s.cur_df \in Files'
  /\ fs_is_df(desc'[s.cur_df]) /\ fs_is_usable(desc'[s.cur_df])
  /\ s.cur_ef # FS_INVALID_INDEX =>
       /\ s.cur_ef \in EFs'
       /\ desc'[s.cur_ef].parent = s.cur_df
       /\ fs_is_usable(desc'[s.cur_ef])

\* The selection the kernel has after a step in which it serves a command.
ServedValid ==
  life' = "OPERATIONAL" /\ FS_ROOT_INDEX \in Files' =>
    ValidAfter(sel') /\ (pc' = "walk" => ValidAfter(walk'.scratch))

\* What the steps below establish is the property in the next state.
LEMMA ServedIsValid ==
  ASSUME ServedValid PROVE SelectionValid'
BY DEF ServedValid, SelectionValid, ValidSelection, ValidAfter

\* A selection whose files are still there stays valid.
LEMMA KeepsValid ==
  ASSUME NEW s, ValidSelection(s),
         s.cur_df \in Files' /\ desc'[s.cur_df] = desc[s.cur_df],
         s.cur_ef # FS_INVALID_INDEX =>
           s.cur_ef \in Files' /\ desc'[s.cur_ef] = desc[s.cur_ef]
  PROVE  ValidAfter(s)
<1>1. s.cur_ef \in Files' /\ fs_is_ef(desc'[s.cur_ef]) => s.cur_ef \in EFs'
  BY DEF Files, EFs, fs_is_ef
<1> QED
  BY <1>1 DEF ValidSelection, ValidAfter, EFs

\* fs_selection_reset is valid wherever there is an MF.
LEMMA ResetValid ==
  ASSUME RootDesc', FS_ROOT_INDEX \in Files'
  PROVE  ValidAfter(fs_selection_reset)
<1>1. desc'[FS_ROOT_INDEX].type = "MF" /\ desc'[FS_ROOT_INDEX].lifecycle = "ACTIVATED"
  BY DEF RootDesc, MfDesc
<1> QED
  BY <1>1 DEF ValidAfter, fs_selection_reset, fs_is_df, fs_is_usable

\* A step that keeps every file, and the selection and the walk with them.
LEMMA NothingSelected ==
  ASSUME SelectionInv, RootDesc', Files \subseteq Files',
         \A i \in Files : desc'[i] = desc[i],
         FS_ROOT_INDEX \in Files' => FS_ROOT_INDEX \in Files,
         sel' = sel, life' = life, pc' # "walk"
  PROVE  ServedValid
<1> SUFFICES ASSUME life' = "OPERATIONAL", FS_ROOT_INDEX \in Files'
             PROVE  ValidAfter(sel')
  BY DEF ServedValid
<1>1. ValidSelection(sel)
  BY DEF SelectionInv, SelectionValid
<1>2. EFs \subseteq Files
  BY DEF EFs, Files, fs_is_ef, FileType
<1> QED
  BY <1>1, <1>2, KeepsValid DEF ValidSelection

-----------------------------------------------------------------------------
(***************************************************************************)
(* Slot 0.                                                                 *)
(***************************************************************************)
\* A step that leaves slot 0 alone, frees it or tears it keeps RootDesc.
LEMMA RootKept ==
  ASSUME RootDesc, FS_ROOT_INDEX \in Files' => FS_ROOT_INDEX \in Files,
         FS_ROOT_INDEX \in Files' => desc'[FS_ROOT_INDEX] = desc[FS_ROOT_INDEX]
  PROVE  RootDesc'
BY DEF RootDesc

\* A step that does not touch the table.
LEMMA RootQuiet ==
  ASSUME RootDesc, desc' = desc PROVE RootDesc'
BY TableKept, RootKept

\* A write to another slot, or one that adds no file.
LEMMA RootWrite ==
  ASSUME SelectionInv, NEW o, NEW i \in Slot, NEW d, desc_write(o, i, d),
         i # FS_ROOT_INDEX \/ ~Written(o) \/ d = FreeDesc
  PROVE  RootDesc'
<1>1. StoreTypeOK /\ RootDesc
  BY DEF SelectionInv, CardInvariant, TypeOK
<1>2. CASE ~Written(o) \/ d = FreeDesc
  BY <1>1, <1>2, WriteShrinks, RootKept
<1>3. CASE i # FS_ROOT_INDEX
  <2>1. desc'[FS_ROOT_INDEX] = desc[FS_ROOT_INDEX]
    BY <1>1, <1>3, SlotFacts DEF desc_write, StoreTypeOK
  <2>2. FS_ROOT_INDEX \in Files' <=> FS_ROOT_INDEX \in Files
    BY <2>1 DEF Files
  <2> QED
    BY <1>1, <2>1, <2>2, RootKept
<1> QED
  BY <1>2, <1>3

-----------------------------------------------------------------------------
(***************************************************************************)
(* SELECT.                                                                 *)
(***************************************************************************)
\* Committing a usable file is valid, if an EF is a child of the current DF.
LEMMA CommitValid ==
  ASSUME SelectionInv, NEW s, ValidSelection(s), NEW i \in Slot, resolve(i) = "OK",
         ~fs_is_df(desc[i]) => desc[i].parent = s.cur_df,
         desc' = desc
  PROVE  ValidAfter(commit(s, i))
<1>1. i \in Files /\ fs_is_usable(desc[i])
  BY ResolveOK DEF SelectionInv
<1>2. Files' = Files /\ EFs' = EFs
  BY TableKept
<1>3. CASE fs_is_df(desc[i])
  BY <1>1, <1>2, <1>3 DEF commit, ValidAfter
<1>4. CASE ~fs_is_df(desc[i])
  <2>1. i \in EFs
    BY <1>1, <1>4 DEF Files, EFs, FileType, fs_is_df, fs_is_ef
  <2> QED
    BY <1>1, <1>2, <1>4, <2>1 DEF commit, ValidAfter, ValidSelection
<1> QED
  BY <1>3, <1>4

\* A child found by its identifier is a child.
LEMMA FoundChild ==
  ASSUME NEW p, NEW x, NEW i \in fs_find_child(p, x)
  PROVE  i \in Slot /\ desc[i].parent = p
BY DEF fs_find_child, First, Named, Readable

\* How a SELECT that found a valid selection s, or was refused, ends.
LEMMA FinishValid ==
  ASSUME SelectionInv, UNCHANGED storeVars, NEW c, NEW s, ValidAfter(s), FinishSelect(c, s)
  PROVE  ServedValid
<1>1. pc' = "ready" /\ life' = life /\ sel' \in {s, sel}
  BY DEF FinishSelect, Answer
<1>2. desc' = desc /\ Files' = Files
  BY TableKept DEF storeVars
<1>3. CASE sel' = s
  BY <1>1, <1>3 DEF ServedValid
<1>4. CASE sel' = sel
  BY <1>1, <1>2, <1>4, NothingSelected, RootQuiet DEF SelectionInv
<1> QED
  BY <1>1, <1>3, <1>4

\* A command that answers and changes nothing keeps the selection valid.
LEMMA RefusedValid ==
  ASSUME SelectionInv, UNCHANGED storeVars, NEW r, Answer(r), sel' = sel
  PROVE  ServedValid
<1>1. pc' = "ready" /\ life' = life
  BY DEF Answer
<1>2. desc' = desc /\ Files' = Files
  BY TableKept DEF storeVars
<1> QED
  BY <1>1, <1>2, NothingSelected, RootQuiet DEF SelectionInv

\* Only a child of the current DF can be an EF among the targets of SELECT.
LEMMA TargetChild ==
  ASSUME SelectionInv, ValidSelection(sel), NEW c, c.p1 \in 0 .. 3,
         NEW i \in select_target(c), resolve(i) = "OK", FS_ROOT_INDEX \in Files
  PROVE  i \in Slot /\ (~fs_is_df(desc[i]) => desc[i].parent = sel.cur_df)
<1>1. i \in Slot
  BY TargetSlot DEF SelectionInv
<1>2. i \in Files /\ Formatted
  BY <1>1, ResolveOK DEF SelectionInv, CardInvariant, StoreInv, SuperblockInv
<1>3. \A j \in Files \ {FS_ROOT_INDEX} : fs_is_df(desc[desc[j].parent])
  BY <1>2 DEF SelectionInv, CardInvariant, StoreInv, TreeWellFormed
<1>4. fs_is_df(desc[FS_ROOT_INDEX])
  BY DEF SelectionInv, RootDesc, MfDesc, fs_is_df
<1>5. sel.cur_df \in Files /\ fs_is_df(desc[sel.cur_df])
  BY DEF ValidSelection
<1>6. desc[sel.cur_df].parent # FS_NO_PARENT => fs_is_df(desc[desc[sel.cur_df].parent])
  BY <1>3, <1>5 DEF SelectionInv, RootDesc, MfDesc
<1>7. ASSUME NEW fid, i \in select_by_fid_target(sel, fid), ~fs_is_df(desc[i])
      PROVE  desc[i].parent = sel.cur_df
  BY <1>4, <1>5, <1>6, <1>7, FoundChild DEF select_by_fid_target
<1>8. ASSUME i \in select_parent_target(sel) PROVE fs_is_df(desc[i])
  BY <1>6, <1>8 DEF select_parent_target
<1> QED
  BY <1>1, <1>7, <1>8, FoundChild DEF select_target

\* SELECT by identifier, child or parent selects a file it has resolved.
LEMMA SelectValid ==
  ASSUME SelectionInv, scos_cmd_select PROVE ServedValid
<1>1. UNCHANGED storeVars /\ life = "OPERATIONAL"
  BY DEF scos_cmd_select, Serving
<1>2. desc' = desc /\ Files' = Files
  BY <1>1, TableKept DEF storeVars
<1> SUFFICES ASSUME FS_ROOT_INDEX \in Files PROVE ServedValid
  BY <1>2 DEF ServedValid
<1>3. ValidSelection(sel)
  BY <1>1 DEF SelectionInv, SelectionValid
<1>4. \/ \E sw : RefuseSelect(sw)
      \/ \E c \in SelectCmds : \E i \in select_target(c) :
           c.p1 \in 0 .. 3 /\ resolve(i) = "OK" /\ FinishSelect(c, commit(sel, i))
  BY DEF scos_cmd_select, SelectSlot
<1>5. ASSUME NEW sw, RefuseSelect(sw) PROVE ServedValid
  BY <1>1, <1>5, RefusedValid DEF RefuseSelect
<1>6. ASSUME NEW c \in SelectCmds, NEW i \in select_target(c), c.p1 \in 0 .. 3,
             resolve(i) = "OK", FinishSelect(c, commit(sel, i))
      PROVE  ServedValid
  <2>1. i \in Slot /\ (~fs_is_df(desc[i]) => desc[i].parent = sel.cur_df)
    BY <1>3, <1>6, TargetChild
  <2>2. ValidAfter(commit(sel, i))
    BY <1>2, <1>3, <1>6, <2>1, CommitValid
  <2> QED
    BY <1>1, <1>6, <2>2, FinishValid
<1> QED
  BY <1>4, <1>5, <1>6

\* A path SELECT starts from the MF or from the current DF.
LEMMA PathValid ==
  ASSUME SelectionInv, select_by_path PROVE ServedValid
<1>1. /\ UNCHANGED storeVars /\ sel' = sel /\ life = "OPERATIONAL"
      /\ walk'.scratch \in {fs_selection_reset, sel}
  BY DEF select_by_path, Serving
<1>2. desc' = desc /\ Files' = Files /\ EFs' = EFs /\ RootDesc'
  BY <1>1, TableKept, RootQuiet DEF storeVars, SelectionInv
<1> SUFFICES ASSUME FS_ROOT_INDEX \in Files PROVE ServedValid
  BY <1>2 DEF ServedValid
<1>3. ValidAfter(sel)
  BY <1>1, <1>2 DEF SelectionInv, SelectionValid, ValidSelection, ValidAfter
<1>4. ValidAfter(fs_selection_reset)
  BY <1>2, ResetValid
<1> QED
  BY <1>1, <1>3, <1>4 DEF ServedValid

\* The walk goes on, or ends, with a valid scratch selection.
LEMMA WalkOnValid ==
  ASSUME SelectionInv, UNCHANGED storeVars, pc = "walk", NEW s, ValidAfter(s), WalkOn(s),
         s \in fs_selection
  PROVE  ServedValid
<1>1. CASE walk.s = Len(walk.cmd.path)
  BY <1>1, FinishValid DEF WalkOn
<1>2. CASE walk.s # Len(walk.cmd.path)
  <2>1. walk' = [walk EXCEPT !.s = @ + 1, !.scratch = s] /\ sel' = sel /\ life' = life
    BY <1>2 DEF WalkOn
  <2>2. walk'.scratch = s
    BY <2>1 DEF SelectionInv, CardInvariant, TypeOK
  <2>3. desc' = desc /\ Files' = Files /\ EFs' = EFs
    BY TableKept DEF storeVars
  <2>4. life' = "OPERATIONAL" /\ FS_ROOT_INDEX \in Files' => ValidAfter(sel')
    BY <2>1, <2>3 DEF SelectionInv, SelectionValid, ValidSelection, ValidAfter
  <2> QED
    BY <2>2, <2>4 DEF ServedValid
<1> QED
  BY <1>1, <1>2

\* One component of a path: the scratch selection stays valid.
LEMMA WalkValid ==
  ASSUME SelectionInv, walk_step PROVE ServedValid
<1> DEFINE s == walk.scratch
           hits == fs_find_child(s.cur_df, walk.cmd.path[walk.s])
<1>1. pc = "walk" /\ UNCHANGED storeVars
  BY DEF walk_step
<1>2. desc' = desc /\ Files' = Files /\ EFs' = EFs
  BY <1>1, TableKept DEF storeVars
<1>3. \/ WalkOn(s)
      \/ \E sw : RefuseSelect(sw)
      \/ \E i \in hits : resolve(i) = "OK" /\ WalkOn(commit(s, i))
  BY DEF walk_step
<1>4. life' = life
  BY <1>3 DEF WalkOn, FinishSelect, RefuseSelect, Answer
<1> SUFFICES ASSUME FS_ROOT_INDEX \in Files, life = "OPERATIONAL" PROVE ServedValid
  BY <1>2, <1>4 DEF ServedValid
<1>5. ValidSelection(s) /\ s \in fs_selection
  BY <1>1 DEF SelectionInv, SelectionValid, CardInvariant, TypeOK
<1>6. ASSUME WalkOn(s) PROVE ServedValid
  <2>1. ValidAfter(s)
    BY <1>2, <1>5 DEF ValidSelection, ValidAfter
  <2> QED
    BY <1>1, <1>5, <1>6, <2>1, WalkOnValid
<1>7. ASSUME NEW sw, RefuseSelect(sw) PROVE ServedValid
  BY <1>1, <1>7, RefusedValid DEF RefuseSelect
<1>8. ASSUME NEW i \in hits, resolve(i) = "OK", WalkOn(commit(s, i)) PROVE ServedValid
  <2>1. i \in Slot /\ desc[i].parent = s.cur_df
    BY FoundChild
  <2>2. ValidAfter(commit(s, i)) /\ commit(s, i) \in fs_selection
    BY <1>2, <1>5, <1>8, <2>1, CommitValid, CommitType DEF SelectionInv
  <2> QED
    BY <1>1, <1>8, <2>2, WalkOnValid
<1> QED
  BY <1>3, <1>6, <1>7, <1>8

-----------------------------------------------------------------------------
(***************************************************************************)
(* The steps that write.                                                   *)
(***************************************************************************)
LEMMA PlaceValid ==
  ASSUME SelectionInv, "unsynced" \notin NvmFaults, place_desc
  PROVE  RootDesc' /\ ServedValid
<1>1. PICK o \in Outcome :
        /\ desc_write(o, job.slot, job.d)
        /\ IF life = "INITIALISING"
           THEN After(o, /\ pc' = "row"
                         /\ row' = row + 1
                         /\ job' = NoJob
                         /\ UNCHANGED <<life, sel, walk, rsp>>,
                      InitFailed)
           ELSE After(o, Answer(SW("9000")) /\ UNCHANGED sel, MemoryFailure)
  BY DEF place_desc, fs_store_write_desc
<1>2. /\ job.slot \in Slot \ {FS_ROOT_INDEX} /\ desc[job.slot].type = "FREE"
      /\ StoreTypeOK
  BY DEF SelectionInv, CardInvariant, StageInv, JobInv, place_desc, TypeOK
<1>3. RootDesc'
  BY <1>1, <1>2, RootWrite
<1>4. o \in {"done", "failed", "torn"}
  BY FaultsAssumption DEF Outcome
<1>5. CASE life = "INITIALISING" \/ o = "torn"
  <2>1. life' # "OPERATIONAL"
    BY <1>1, <1>4, <1>5 DEF After, RamLost, InitFailed
  <2> QED
    BY <1>3, <2>1 DEF ServedValid
<1>6. CASE life # "INITIALISING" /\ o # "torn"
  <2>1. sel' = sel /\ life' = life /\ pc' = "ready"
    BY <1>1, <1>4, <1>6 DEF After, Answer, MemoryFailure
  <2>2. desc' \in {desc, [desc EXCEPT ![job.slot] = job.d]}
    BY <1>1, <1>4, <1>6 DEF desc_write, Written
  <2>3. job.slot \notin Files
    BY <1>2 DEF Files, FileType
  <2>4. \A i \in Slot \ {job.slot} : desc'[i] = desc[i]
    BY <1>2, <2>2 DEF StoreTypeOK
  <2>5. /\ Files \subseteq Files' /\ \A i \in Files : desc'[i] = desc[i]
        /\ FS_ROOT_INDEX \in Files' => FS_ROOT_INDEX \in Files
    BY <1>2, <2>3, <2>4, SlotFacts DEF Files
  <2> QED
    BY <1>3, <2>1, <2>5, NothingSelected
<1> QED
  BY <1>5, <1>6

\* DELETE FILE lets go of the slot it frees, and frees no DF that is in use.
LEMMA DeleteValid ==
  ASSUME SelectionInv, "unsynced" \notin NvmFaults, scos_cmd_delete_file
  PROVE  RootDesc' /\ ServedValid
<1>1. life = "OPERATIONAL" /\ sel \in fs_selection
  BY DEF scos_cmd_delete_file, Serving, SelectionInv, CardInvariant, TypeOK
<1>2. CASE \E r : Answer(r) /\ UNCHANGED <<storeVars, sel>>
  BY <1>2, RefusedValid, RootQuiet DEF SelectionInv, storeVars
<1>3. ASSUME NEW fid \in DeleteFids, NEW i \in fs_find_child(sel.cur_df, fid),
             NEW o \in Outcome, fs_store_free_desc(o, i),
             After(o, Answer(SW("9000")) /\ sel' = deselect(sel, i), MemoryFailure)
      PROVE  RootDesc' /\ ServedValid
  <2>1. desc_write(o, i, FreeDesc) /\ i \in Slot /\ StoreTypeOK
    BY <1>3, FoundChild DEF fs_store_free_desc, SelectionInv, CardInvariant, TypeOK
  <2>2. RootDesc'
    BY <2>1, RootWrite
  <2>3. o \in {"done", "failed", "torn"}
    BY FaultsAssumption DEF Outcome
  <2>4. CASE o = "torn"
    <3>1. life' # "OPERATIONAL"
      BY <1>3, <2>4 DEF After, RamLost
    <3> QED
      BY <2>2, <3>1 DEF ServedValid
  <2>5. CASE o = "failed"
    <3>1. desc' = desc
      BY <2>1, <2>5 DEF desc_write, Written
    <3>2. sel' = sel /\ life' = life /\ pc' = "ready"
      BY <1>3, <2>5 DEF After, MemoryFailure, Answer
    <3> QED
      BY <2>2, <3>1, <3>2, TableKept, NothingSelected
  <2>6. CASE o = "done"
    <3>1. sel' = deselect(sel, i) /\ life' = life /\ pc' = "ready"
      BY <1>3, <2>6 DEF After, Answer
    <3>2. /\ Files \ {i} \subseteq Files' /\ Files' \subseteq Files
          /\ \A j \in Slot \ {i} : desc'[j] = desc[j]
      BY <2>1, WriteShrinks
    <3> SUFFICES ASSUME FS_ROOT_INDEX \in Files' PROVE ValidAfter(sel')
      BY <2>2, <3>1 DEF ServedValid
    <3>3. ValidSelection(sel)
      BY <1>1, <3>2 DEF SelectionInv, SelectionValid
    <3>4. Files \subseteq Slot /\ EFs \subseteq Files /\ i # FS_INVALID_INDEX
      BY <2>1, SlotFacts DEF Files, EFs, fs_is_ef, FileType
    <3>5. CASE sel.cur_df = i
      BY <2>2, <3>1, <3>5, ResetValid DEF deselect
    <3>6. CASE sel.cur_df # i /\ sel.cur_ef = i
      <4>1. sel' = [sel EXCEPT !.cur_ef = FS_INVALID_INDEX]
        BY <3>1, <3>6 DEF deselect
      <4>2. sel'.cur_df = sel.cur_df /\ sel'.cur_ef = FS_INVALID_INDEX
        BY <1>1, <4>1 DEF fs_selection
      <4>3. sel.cur_df \in Files /\ fs_is_df(desc[sel.cur_df]) /\ fs_is_usable(desc[sel.cur_df])
        BY <3>3 DEF ValidSelection
      <4>4. sel.cur_df \in Files' /\ desc'[sel.cur_df] = desc[sel.cur_df]
        BY <3>2, <3>4, <3>6, <4>3
      <4> QED
        BY <4>2, <4>3, <4>4 DEF ValidAfter
    <3>7. CASE sel.cur_df # i /\ sel.cur_ef # i
      <4>1. sel' = sel
        BY <3>1, <3>7 DEF deselect
      <4> QED
        BY <3>2, <3>3, <3>4, <3>7, <4>1, KeepsValid DEF ValidSelection
    <3> QED
      BY <3>5, <3>6, <3>7
  <2> QED
    BY <2>3, <2>4, <2>5, <2>6
<1>4. \/ \E r : Answer(r) /\ UNCHANGED <<storeVars, sel>>
      \/ \E fid \in DeleteFids : \E i \in fs_find_child(sel.cur_df, fid) :
           \E o \in Outcome :
             /\ fs_store_free_desc(o, i)
             /\ After(o, Answer(SW("9000")) /\ sel' = deselect(sel, i), MemoryFailure)
  BY DEF scos_cmd_delete_file
<1> QED
  BY <1>2, <1>3, <1>4

\* A step that leaves the table alone and either keeps the selection, stops
\* serving, or starts serving with the selection reset.
LEMMA QuietValid ==
  ASSUME SelectionInv, desc' = desc, pc' # "walk",
         \/ (sel' = sel /\ life' = life)
         \/ life' # "OPERATIONAL"
         \/ sel' = fs_selection_reset
  PROVE  RootDesc' /\ ServedValid
<1>1. RootDesc' /\ Files' = Files
  BY RootQuiet, TableKept DEF SelectionInv
<1>2. CASE sel' = sel /\ life' = life
  BY <1>1, <1>2, NothingSelected
<1>3. CASE life' # "OPERATIONAL"
  BY <1>1, <1>3 DEF ServedValid
<1>4. CASE sel' = fs_selection_reset
  BY <1>1, <1>4, ResetValid DEF ServedValid
<1> QED
  BY <1>1, <1>2, <1>3, <1>4

\* The steps of formatting and personalisation: the card does not serve yet.
LEMMA InitialisingValid ==
  ASSUME SelectionInv, format_slot \/ format_done \/ personalise_mf \/ personalise_row
  PROVE  RootDesc' /\ ServedValid
<1>1. life = "INITIALISING"
  BY DEF SelectionInv, CardInvariant, StageInv, format_slot, format_done,
         personalise_mf, personalise_row
<1>2. Outcome \subseteq {"done", "failed", "unsynced", "torn"}
  BY FaultsAssumption DEF Outcome
<1>3. life' # "OPERATIONAL"
  BY <1>1, <1>2
  DEF format_slot, format_done, personalise_mf, personalise_row, AllocThenPlace, After,
      RamLost, InitFailed
<1>4. RootDesc'
  <2>1. CASE format_slot
    <3>1. row \in Slot /\ \E o : desc_write(o, row, FreeDesc)
      BY <2>1 DEF format_slot, fs_store_free_desc, SelectionInv, CardInvariant, StageInv
    <3> QED
      BY <3>1, RootWrite
  <2>2. CASE format_done \/ personalise_row
    <3>1. desc' = desc
      BY <2>2 DEF format_done, format_superblock, personalise_row, AllocThenPlace,
                  fs_store_alloc_data, storeVars
    <3> QED
      BY <3>1, RootQuiet DEF SelectionInv
  <2>3. CASE personalise_mf
    <3>1. PICK o : desc_write(o, FS_ROOT_INDEX, MfDesc)
      BY <2>3 DEF personalise_mf, fs_store_write_desc
    <3>2. CASE Written(o)
      <4>1. desc' = [desc EXCEPT ![FS_ROOT_INDEX] = MfDesc]
        BY <3>1, <3>2 DEF desc_write
      <4> QED
        BY <4>1, SlotFacts DEF RootDesc, SelectionInv, CardInvariant, TypeOK, StoreTypeOK
    <3>3. CASE ~Written(o)
      BY <3>1, <3>3, SlotFacts, RootWrite
    <3> QED
      BY <3>2, <3>3
  <2> QED
    BY <2>1, <2>2, <2>3
<1> QED
  BY <1>3, <1>4 DEF ServedValid

\* The other steps, none of which touches the table.
LEMMA OthersValid ==
  ASSUME SelectionInv,
         \/ scos_init \/ scos_reset \/ PowerCut \/ Decay \/ personalise_done
         \/ process_fs_error \/ process_refused \/ scos_cmd_read_binary
         \/ scos_cmd_update_binary \/ scos_cmd_create_file
  PROVE  RootDesc' /\ ServedValid
<1>1. CASE scos_init \/ scos_reset \/ PowerCut \/ personalise_done
  <2>1. desc' = desc /\ pc' # "walk" /\ (life' # "OPERATIONAL" \/ sel' = fs_selection_reset)
    BY <1>1
    DEF scos_init, scos_reset, PowerCut, personalise_done, nvmVars, storeVars, RamLost
  <2> QED
    BY <2>1, QuietValid
<1>2. CASE Decay
  <2>1. desc' = desc /\ pc' # "walk" /\ sel' = sel /\ life' = life
    BY <1>2 DEF Decay, kernelVars
  <2> QED
    BY <2>1, QuietValid
<1>3. CASE process_fs_error \/ process_refused \/ scos_cmd_read_binary
  <2>1. desc' = desc /\ pc' # "walk" /\ sel' = sel /\ life' = life
    BY <1>3 DEF process_fs_error, process_refused, scos_cmd_read_binary, storeVars, Answer
  <2> QED
    BY <2>1, QuietValid
<1>4. Outcome \subseteq {"done", "failed", "unsynced", "torn"}
  BY FaultsAssumption DEF Outcome
<1>5. CASE scos_cmd_update_binary
  <2>1. desc' = desc
    BY <1>5 DEF scos_cmd_update_binary, fs_store_write_data, storeVars
  <2>2. pc' # "walk" /\ (life' # "OPERATIONAL" \/ (sel' = sel /\ life' = life))
    <3>1. ASSUME NEW o \in Outcome, NEW r,
                 LET done == Answer(r) /\ UNCHANGED sel IN After(o, done, done)
          PROVE  RamLost \/ (Answer(r) /\ sel' = sel)
      BY <1>4, <3>1 DEF After
    <3>2. RamLost \/ \E r : Answer(r) /\ sel' = sel
      BY <1>5, <3>1 DEF scos_cmd_update_binary
    <3>3. ASSUME NEW r, Answer(r) PROVE pc' = "ready" /\ life' = life
      BY <3>3 DEF Answer
    <3>4. ASSUME RamLost PROVE pc' = "off" /\ life' = "INITIALISING"
      BY <3>4 DEF RamLost
    <3> QED
      BY <3>2, <3>3, <3>4
  <2> QED
    BY <2>1, <2>2, QuietValid
<1>6. CASE scos_cmd_create_file
  <2>1. desc' = desc
    BY <1>6 DEF scos_cmd_create_file, AllocThenPlace, fs_store_alloc_data, storeVars
  <2>2. pc' # "walk" /\ (life' # "OPERATIONAL" \/ (sel' = sel /\ life' = life))
    <3> DEFINE Place == pc' = "place" /\ sel' = sel /\ life' = life
    <3>1. ASSUME NEW req, NEW slot, NEW p, AllocThenPlace(req, slot, p, MemoryFailure)
          PROVE  RamLost \/ MemoryFailure \/ Place
      BY <1>4, <3>1 DEF AllocThenPlace, After
    <3>2. RamLost \/ Place \/ \E r : Answer(r) /\ sel' = sel
      BY <1>6, <3>1 DEF scos_cmd_create_file, MemoryFailure
    <3>3. ASSUME NEW r, Answer(r) PROVE pc' = "ready" /\ life' = life
      BY <3>3 DEF Answer
    <3>4. ASSUME RamLost PROVE pc' = "off" /\ life' = "INITIALISING"
      BY <3>4 DEF RamLost
    <3> QED
      BY <3>2, <3>3, <3>4
  <2> QED
    BY <2>1, <2>2, QuietValid
<1> QED
  BY <1>1, <1>2, <1>3, <1>5, <1>6

\* Every step of the card keeps the selection valid.
LEMMA SelectionNext ==
  ASSUME SelectionInv, "unsynced" \notin NvmFaults, [Next]_vars
  PROVE  SelectionInv'
<1>1. CardInvariant'
  BY NextInv DEF SelectionInv
<1>2. CASE UNCHANGED vars
  <2>1. RootDesc' /\ Files' = Files /\ EFs' = EFs
    BY <1>2, RootQuiet, TableKept DEF vars, SelectionInv
  <2>2. SelectionValid'
    BY <1>2, <2>1 DEF vars, SelectionInv, SelectionValid, ValidSelection
  <2> QED
    BY <1>1, <2>1, <2>2 DEF SelectionInv
<1>3. CASE Next
  <2>1. CASE scos_cmd_select \/ select_by_path \/ walk_step
    <3>1. ServedValid
      BY <2>1, SelectValid, PathValid, WalkValid
    <3>2. desc' = desc
      BY <2>1 DEF scos_cmd_select, select_by_path, walk_step, storeVars
    <3> QED
      BY <1>1, <3>1, <3>2, ServedIsValid, RootQuiet DEF SelectionInv
  <2>2. CASE ~(scos_cmd_select \/ select_by_path \/ walk_step)
    <3>1. RootDesc' /\ ServedValid
      BY <1>3, <2>2, PlaceValid, DeleteValid, InitialisingValid, OthersValid
      DEF Next, Internal, Command
    <3> QED
      BY <1>1, <3>1, ServedIsValid DEF SelectionInv
  <2> QED
    BY <2>1, <2>2
<1> QED
  BY <1>2, <1>3

\* On a card whose hal_nvm_sync does not fail, the current DF and EF of an
\* operational card, and those of a path SELECT under way, always exist and are
\* usable, and the EF is a child of the DF.
THEOREM SelectionAlwaysValid ==
  ASSUME "unsynced" \notin NvmFaults
  PROVE  Spec => []SelectionValid
<1>1. Init => SelectionInv
  <2>1. Init => Files = {} /\ life # "OPERATIONAL"
    BY DEF Init, StoreInit, Files, FreeDesc, NoDesc, FileType
  <2> QED
    BY <2>1, InitInv DEF SelectionInv, RootDesc, SelectionValid
<1>2. SelectionInv /\ [Next]_vars => SelectionInv'
  BY SelectionNext
<1>3. SelectionInv => SelectionValid
  BY DEF SelectionInv
<1> QED
  BY <1>1, <1>2, <1>3, PTL DEF Spec
-----------------------------------------------------------------------------
(***************************************************************************)
(* Refusals.  The answer of the last command is gone once the card is      *)
(* doing anything else, so a step that keeps rsp is not a refusal.         *)
(***************************************************************************)
NoStaleRsp == pc # "ready" => rsp = NoRsp

Loud == {"none", "9000", "6282", "6581"}
NoTrace == rsp'.sw \notin Loud => UNCHANGED <<storeVars, sel>>

\* The two ways a step can keep both: it answers nothing, or it is quiet.
LEMMA Silent ==
  ASSUME rsp' = NoRsp PROVE NoStaleRsp' /\ NoTrace
BY DEF NoStaleRsp, NoTrace, Loud, NoRsp, SW

LEMMA Answered ==
  ASSUME NEW r, Answer(r), r.sw \in Loud \/ UNCHANGED <<storeVars, sel>>
  PROVE  NoStaleRsp' /\ NoTrace
BY DEF NoStaleRsp, NoTrace, Answer

\* What follows a write: an answer that admits it, or none.
LEMMA AfterWrite ==
  ASSUME NEW o \in Outcome, NEW r, r.sw \in Loud,
         After(o, Answer(r), MemoryFailure)
  PROVE  NoStaleRsp' /\ NoTrace
<1>1. o \in {"done", "torn", "failed", "unsynced"}
  BY FaultsAssumption DEF Outcome
<1>2. Answer(r) \/ RamLost \/ MemoryFailure
  BY <1>1 DEF After
<1>3. CASE RamLost
  BY <1>3, Silent DEF RamLost
<1>4. CASE MemoryFailure
  <2>1. Answer(SW("6581")) /\ SW("6581").sw \in Loud
    BY <1>4 DEF MemoryFailure, fs_error_to_sw, SW, Loud
  <2> QED
    BY <2>1, Answered
<1> QED
  BY <1>2, <1>3, <1>4, Answered

\* SELECT touches nothing but the selection, and that only on success.
LEMMA FinishTrace ==
  ASSUME NEW c, NEW s, FinishSelect(c, s), UNCHANGED storeVars
  PROVE  NoStaleRsp' /\ NoTrace
<1>1. pc' = "ready" /\ (rsp'.sw # "9000" => sel' = sel)
  BY DEF FinishSelect, Answer
<1> QED
  BY <1>1 DEF NoStaleRsp, NoTrace, Loud

LEMMA RefuseTrace ==
  ASSUME NEW sw, RefuseSelect(sw), UNCHANGED storeVars
  PROVE  NoStaleRsp' /\ NoTrace
BY Answered DEF RefuseSelect

LEMMA SelectTrace ==
  ASSUME scos_cmd_select PROVE NoStaleRsp' /\ NoTrace
<1>1. UNCHANGED storeVars
  BY DEF scos_cmd_select
<1>2. (\E sw : RefuseSelect(sw)) \/ (\E c, s : FinishSelect(c, s))
  BY DEF scos_cmd_select, SelectSlot
<1> QED
  BY <1>1, <1>2, FinishTrace, RefuseTrace

LEMMA WalkTrace ==
  ASSUME NoStaleRsp, walk_step PROVE NoStaleRsp' /\ NoTrace
<1>1. UNCHANGED storeVars /\ pc = "walk" /\ rsp = NoRsp
  BY DEF walk_step, NoStaleRsp
<1>2. (\E sw : RefuseSelect(sw)) \/ (\E s : WalkOn(s))
  BY DEF walk_step
<1>3. ASSUME NEW s, WalkOn(s) PROVE FinishSelect(walk.cmd, s) \/ rsp' = rsp
  BY <1>3 DEF WalkOn
<1> QED
  BY <1>1, <1>2, <1>3, FinishTrace, RefuseTrace, Silent

\* The one error of UPDATE BINARY that is not a memory failure and comes after
\* hal_nvm_write was called: the write was refused and changed nothing.
LEMMA UpdateTrace ==
  ASSUME CardInvariant, scos_cmd_update_binary PROVE NoStaleRsp' /\ NoTrace
<1>1. PICK c \in UpdateCmds :
        LET refusal == IF c.data = <<>> \/ c.le # NoLe THEN "6700" ELSE target_sw(c.to)
        IN \/ Answer(SW(refusal)) /\ UNCHANGED <<storeVars, sel>>
           \/ \E i \in target(c.to) :
                LET st == ef_write_status(i, c.to.offset, Len(c.data))
                IN \/ Answer(SW(fs_error_to_sw(st))) /\ UNCHANGED <<storeVars, sel>>
                   \/ \E o \in Outcome :
                        /\ fs_store_write_data(o, desc[i].data_offset + c.to.offset, c.data)
                        /\ LET done == Answer(SW(fs_error_to_sw(write_data_status(o))))
                                       /\ UNCHANGED sel
                           IN After(o, done, done)
  BY DEF scos_cmd_update_binary
<1>2. CASE \E r : Answer(r) /\ UNCHANGED <<storeVars, sel>>
  BY <1>2, Answered
<1>3. ASSUME NEW off, NEW o \in Outcome, fs_store_write_data(o, off, c.data),
             LET done == Answer(SW(fs_error_to_sw(write_data_status(o)))) /\ UNCHANGED sel
             IN After(o, done, done)
      PROVE  NoStaleRsp' /\ NoTrace
  <2> DEFINE r == SW(fs_error_to_sw(write_data_status(o)))
  <2>1. o \in {"done", "torn", "failed", "unsynced"}
    BY FaultsAssumption DEF Outcome
  <2>2. RamLost \/ (Answer(r) /\ UNCHANGED sel)
    BY <1>3, <2>1 DEF After
  <2>3. CASE o = "failed"
    <3>1. flash' = [x \in DOMAIN flash |-> flash[x]] /\ ram' = ram /\ UNCHANGED <<sb, desc>>
      BY <1>3, <2>3 DEF fs_store_write_data, Written, RamAfter
    <3>2. flash' = flash
      BY <3>1 DEF CardInvariant, TypeOK, StoreTypeOK
    <3>3. UNCHANGED storeVars
      BY <3>1, <3>2 DEF storeVars
    <3> QED
      BY <2>2, <3>3, Answered, Silent DEF RamLost
  <2>4. CASE o # "failed"
    <3>1. r.sw \in Loud
      BY <2>1, <2>4 DEF SW, fs_error_to_sw, write_data_status, Loud
    <3> QED
      BY <2>2, <3>1, Answered, Silent DEF RamLost
  <2> QED
    BY <2>3, <2>4
<1> QED
  BY <1>1, <1>2, <1>3

LEMMA AllocTrace ==
  ASSUME NEW req, NEW slot, NEW p, AllocThenPlace(req, slot, p, MemoryFailure)
  PROVE  NoStaleRsp' /\ NoTrace
<1>1. \A o \in Outcome : o \in {"done", "torn", "failed", "unsynced"}
  BY FaultsAssumption DEF Outcome
<1>2. RamLost \/ MemoryFailure \/ rsp' = NoRsp
  BY <1>1 DEF AllocThenPlace, After
<1>3. ASSUME MemoryFailure PROVE Answer(SW("6581")) /\ SW("6581").sw \in Loud
  BY <1>3 DEF MemoryFailure, fs_error_to_sw, SW, Loud
<1> QED
  BY <1>2, <1>3, Answered, Silent DEF RamLost

LEMMA CreateTrace ==
  ASSUME scos_cmd_create_file PROVE NoStaleRsp' /\ NoTrace
<1>1. \/ \E r : Answer(r) /\ UNCHANGED <<storeVars, sel>>
      \/ \E req, slot, p : AllocThenPlace(req, slot, p, MemoryFailure)
  BY DEF scos_cmd_create_file
<1> QED
  BY <1>1, Answered, AllocTrace

LEMMA DeleteTrace ==
  ASSUME scos_cmd_delete_file PROVE NoStaleRsp' /\ NoTrace
<1>1. \/ \E r : Answer(r) /\ UNCHANGED <<storeVars, sel>>
      \/ \E i : \E o \in Outcome :
           After(o, Answer(SW("9000")) /\ sel' = deselect(sel, i), MemoryFailure)
  BY DEF scos_cmd_delete_file
<1>2. ASSUME NEW i, NEW o \in Outcome,
             After(o, Answer(SW("9000")) /\ sel' = deselect(sel, i), MemoryFailure)
      PROVE  NoStaleRsp' /\ NoTrace
  <2>1. o \in {"done", "torn", "failed", "unsynced"}
    BY FaultsAssumption DEF Outcome
  <2>2. After(o, Answer(SW("9000")), MemoryFailure)
    BY <1>2, <2>1 DEF After
  <2>3. SW("9000").sw \in Loud
    BY DEF SW, Loud
  <2> QED
    BY <2>2, <2>3, AfterWrite
<1> QED
  BY <1>1, <1>2, Answered

LEMMA PlaceTrace ==
  ASSUME NoStaleRsp, place_desc PROVE NoStaleRsp' /\ NoTrace
<1>1. pc = "place" /\ rsp = NoRsp
  BY DEF place_desc, NoStaleRsp
<1>2. PICK o \in Outcome :
        IF life = "INITIALISING"
        THEN After(o, /\ pc' = "row"
                      /\ row' = row + 1
                      /\ job' = NoJob
                      /\ UNCHANGED <<life, sel, walk, rsp>>,
                   InitFailed)
        ELSE After(o, Answer(SW("9000")) /\ UNCHANGED sel, MemoryFailure)
  BY DEF place_desc
<1>3. o \in {"done", "torn", "failed", "unsynced"}
  BY FaultsAssumption DEF Outcome
<1>4. CASE life = "INITIALISING"
  <2>1. rsp' = NoRsp
    BY <1>1, <1>2, <1>3, <1>4 DEF After, RamLost, InitFailed
  <2> QED
    BY <2>1, Silent
<1>5. CASE life # "INITIALISING"
  <2>1. After(o, Answer(SW("9000")), MemoryFailure)
    BY <1>2, <1>3, <1>5 DEF After
  <2>2. SW("9000").sw \in Loud
    BY DEF SW, Loud
  <2> QED
    BY <2>1, <2>2, AfterWrite
<1> QED
  BY <1>4, <1>5

\* Power and initialisation: nothing is answered.
LEMMA InitialisingTrace ==
  ASSUME NoStaleRsp,
         \/ scos_init \/ format_slot \/ format_done \/ personalise_mf \/ personalise_row
         \/ personalise_done \/ PowerCut \/ Decay \/ scos_reset
  PROVE  NoStaleRsp' /\ NoTrace
<1>1. \A o \in Outcome : o \in {"done", "torn", "failed", "unsynced"}
  BY FaultsAssumption DEF Outcome
<1>2. CASE PowerCut \/ scos_reset
  BY <1>2, Silent DEF PowerCut, scos_reset, RamLost
<1>3. CASE scos_init \/ Decay \/ personalise_done
  <2>1. rsp' = rsp /\ rsp = NoRsp
    BY <1>3 DEF scos_init, Decay, personalise_done, kernelVars, NoStaleRsp
  <2> QED
    BY <2>1, Silent
<1>4. CASE format_slot \/ format_done \/ personalise_mf
  <2>1. rsp = NoRsp
    BY <1>4 DEF format_slot, format_done, personalise_mf, NoStaleRsp
  <2>2. RamLost \/ rsp' = rsp
    BY <1>1, <1>4 DEF format_slot, format_done, personalise_mf, After, InitFailed
  <2> QED
    BY <2>1, <2>2, Silent DEF RamLost
<1>5. CASE personalise_row
  <2>1. rsp = NoRsp
    BY <1>5 DEF personalise_row, NoStaleRsp
  <2>2. InitFailed \/ \E req, slot, p : AllocThenPlace(req, slot, p, InitFailed)
    BY <1>5 DEF personalise_row
  <2>3. ASSUME NEW req, NEW slot, NEW p, AllocThenPlace(req, slot, p, InitFailed)
        PROVE  RamLost \/ InitFailed \/ rsp' = NoRsp
    BY <1>1, <2>3 DEF AllocThenPlace, After
  <2> QED
    BY <2>1, <2>2, <2>3, Silent DEF RamLost, InitFailed
<1> QED
  BY <1>2, <1>3, <1>4, <1>5

LEMMA RefusalStep ==
  ASSUME CardInvariant, NoStaleRsp, [Next]_vars
  PROVE  NoStaleRsp' /\ (UNCHANGED vars \/ NoTrace)
<1>1. CASE UNCHANGED vars
  BY <1>1 DEF NoStaleRsp, vars
<1>2. CASE process_fs_error \/ process_refused \/ scos_cmd_read_binary
  <2>1. UNCHANGED <<storeVars, sel>>
    BY <1>2 DEF process_fs_error, process_refused, scos_cmd_read_binary
  <2>2. pc' = "ready"
    BY <1>2 DEF process_fs_error, process_refused, scos_cmd_read_binary, Answer
  <2> QED
    BY <2>1, <2>2 DEF NoStaleRsp, NoTrace
<1>3. CASE select_by_path
  BY <1>3, Silent DEF select_by_path
<1> QED
  BY <1>1, <1>2, <1>3, SelectTrace, WalkTrace, UpdateTrace, CreateTrace, DeleteTrace,
     PlaceTrace, InitialisingTrace
  DEF Next, Internal, Command

\* A command that the card refuses, for any reason but a memory failure, leaves
\* the files, their data, the allocator and the selection as they were, whatever
\* the memory does: what is checked is checked before the first write, and the
\* only refusal that comes after it (6B00 for a write the memory turned down)
\* comes without its effect.
THEOREM RefusalsLeaveNoTrace == Spec => RefusalLeavesNoTrace
<1>1. Init => NoStaleRsp
  BY DEF Init, NoStaleRsp
<1>2. CardInvariant /\ NoStaleRsp /\ [Next]_vars => NoStaleRsp'
  BY RefusalStep
<1>3. CardInvariant /\ NoStaleRsp /\ [Next]_vars =>
        [rsp'.sw \notin {"none", "9000", "6282", "6581"} => UNCHANGED <<storeVars, sel>>]_vars
  BY RefusalStep DEF NoTrace, Loud
<1> QED
  BY <1>1, <1>2, <1>3, Invariance, PTL DEF Spec, RefusalLeavesNoTrace

-----------------------------------------------------------------------------
(***************************************************************************)
(* A new file reads as erased.  fs.c never erases the data of a new file:  *)
(* it relies on FLASH being erased above the top of the superblock, so the *)
(* proof follows that fact through every write.                            *)
(***************************************************************************)
\* Superblock s is one fs_store_mount accepts.
Mounts(s) == /\ s.magic /\ s.crc /\ s.version = 1
             /\ s.max_files # 0 /\ s.max_files <= FS_MAX_FILES
             /\ s.data_top <= FLASH_SIZE

\* FLASH contents f are erased wherever a card with superblock s can allocate:
\* above its top, or everywhere if the card will be formatted.
ErasedAbove(s, f) ==
  \A c \in 0 .. FLASH_SIZE - 1 :
    ~s.magic \/ (Mounts(s) /\ s.data_top <= c) => f[c] = Erased

\* Only a card without the magic is formatted.
BlankBeforeFormat == pc \in {"format", "super"} => ~sb.magic

\* The allocation that waits for its descriptor is erased.
JobErased ==
  pc = "place" /\ fs_is_ef(job.d) => \A c \in Extent(job.d) : flash[c] = Erased

\* What a card relies on to create files.
FreshInv == BlankBeforeFormat /\ ErasedAbove(sb, flash) /\ JobErased

-----------------------------------------------------------------------------
\* A card is formatted when its superblock mounts.
LEMMA MountsIsFormatted ==
  ASSUME sb \in superblock PROVE Formatted <=> Mounts(sb)
BY SizesAssumption DEF Formatted, mount_status, Mounts, superblock

\* The same after a step.
LEMMA MountsIsFormattedNext ==
  ASSUME sb' \in superblock PROVE Formatted' <=> Mounts(sb')
BY SizesAssumption DEF Formatted, mount_status, Mounts, superblock

\* A format needs a card without the magic, and keeps it until its last write.
LEMMA BlankStep ==
  ASSUME CardInvariant, BlankBeforeFormat, [Next]_vars
  PROVE  BlankBeforeFormat'
<1> SUFFICES ASSUME pc' \in {"format", "super"} PROVE ~sb'.magic
  BY DEF BlankBeforeFormat
<1>1. CASE scos_init
  BY <1>1 DEF scos_init, mount_status, nvmVars
<1>2. CASE format_slot
  <2>1. sb' = sb
    BY <1>2, RamAfterWrite DEF format_slot
  <2> QED
    BY <1>2, <2>1 DEF format_slot, BlankBeforeFormat
<1>3. CASE UNCHANGED vars
  BY <1>3 DEF vars, BlankBeforeFormat
<1>4. CASE Decay
  BY <1>4 DEF Decay, kernelVars, BlankBeforeFormat
<1>5. CASE Internal /\ ~format_slot
  <2>1. CASE format_done
    BY <2>1, FaultsAssumption DEF format_done, Outcome, After, InitFailed, RamLost
  <2>2. CASE personalise_mf
    BY <2>2, FaultsAssumption DEF personalise_mf, Outcome, After, InitFailed, RamLost
  <2>3. CASE personalise_row
    BY <2>3, FaultsAssumption DEF personalise_row, AllocThenPlace, Outcome, After, InitFailed, RamLost
  <2>4. CASE personalise_done
    BY <2>4 DEF personalise_done
  <2>5. CASE place_desc
    BY <2>5, FaultsAssumption DEF place_desc, Outcome, After, InitFailed, RamLost, Answer, MemoryFailure
  <2>6. CASE walk_step
    BY <2>6 DEF walk_step, WalkOn, FinishSelect, RefuseSelect, Answer
  <2> QED
    BY <1>5, <2>1, <2>2, <2>3, <2>4, <2>5, <2>6 DEF Internal
<1>6. CASE Command
  <2>1. CASE process_fs_error \/ process_refused
    BY <2>1 DEF process_fs_error, process_refused, Answer
  <2>2. CASE scos_cmd_select
    BY <2>2 DEF scos_cmd_select, SelectSlot, FinishSelect, RefuseSelect, Answer
  <2>3. CASE select_by_path
    BY <2>3 DEF select_by_path
  <2>4. CASE scos_cmd_read_binary
    BY <2>4 DEF scos_cmd_read_binary, Answer
  <2>5. CASE scos_cmd_update_binary
    BY <2>5, FaultsAssumption DEF scos_cmd_update_binary, Outcome, After, RamLost, Answer
  <2>6. CASE scos_cmd_create_file
    BY <2>6, FaultsAssumption DEF scos_cmd_create_file, AllocThenPlace, Outcome, After, RamLost, MemoryFailure, Answer
  <2>7. CASE scos_cmd_delete_file
    BY <2>7, FaultsAssumption DEF scos_cmd_delete_file, Outcome, After, RamLost, MemoryFailure, Answer
  <2> QED
    BY <1>6, <2>1, <2>2, <2>3, <2>4, <2>5, <2>6, <2>7 DEF Command
<1>7. CASE scos_reset \/ PowerCut
  BY <1>7 DEF scos_reset, PowerCut, RamLost
<1> QED
  BY <1>1, <1>2, <1>3, <1>4, <1>5, <1>6, <1>7 DEF Next

\* No write of the superblock loses the magic.
LEMMA MagicKept ==
  ASSUME sb \in superblock, sb.magic, NEW o, NEW size, fs_store_alloc_data(o, size)
  PROVE  sb'.magic
<1>1. sb_write(o, ram.data_top + size)
  BY DEF fs_store_alloc_data
<1>2. \/ sb' = [magic |-> TRUE, crc |-> TRUE, version |-> 1,
              max_files |-> FS_MAX_FILES, data_top |-> ram.data_top + size]
      \/ sb' = sb
      \/ sb' = [sb EXCEPT !.crc = FALSE]
      \/ sb' = [sb EXCEPT !.magic = TRUE, !.crc = FALSE]
  BY <1>1 DEF sb_write
<1>3. sb = [magic |-> sb.magic, crc |-> sb.crc, version |-> sb.version,
            max_files |-> sb.max_files, data_top |-> sb.data_top]
  BY DEF superblock
<1>4. sb' = [sb EXCEPT !.crc = FALSE] => sb'.magic
  BY <1>3
<1>5. sb' = [sb EXCEPT !.magic = TRUE, !.crc = FALSE] => sb'.magic
  BY <1>3
<1> QED
  BY <1>2, <1>4, <1>5

\* Contents that are erased above the old top are erased above the new one.
LEMMA ErasedStep ==
  ASSUME CardInvariant, BlankBeforeFormat, [Next]_vars, ~Decay,
         NEW f, ErasedAbove(sb, f)
  PROVE  ErasedAbove(sb', f)
<1>1. CASE sb' = sb
  BY <1>1
<1>2. CASE format_done
  <2>1. ~sb.magic
    BY <1>2 DEF format_done, BlankBeforeFormat
  <2> QED
    BY <2>1 DEF ErasedAbove
<1>3. ASSUME NEW o \in Outcome, NEW size \in Nat, fs_store_alloc_data(o, size),
             ram.mounted, ~NoRoom(size)
      PROVE  ErasedAbove(sb', f)
  <2>1. Formatted /\ sb.magic
    BY <1>3, MountsIsFormatted
    DEF CardInvariant, StoreInv, SuperblockInv, Mounts, TypeOK, StoreTypeOK
  <2>2. sb'.magic
    BY <1>3, <2>1, MagicKept DEF CardInvariant, TypeOK, StoreTypeOK
  <2>3. Formatted' => sb.data_top <= sb'.data_top
    BY TopStep, <2>1
  <2>4. sb \in superblock /\ sb' \in superblock
    BY NextInv DEF CardInvariant, TypeOK, StoreTypeOK
  <2> QED
    BY <2>1, <2>2, <2>3, <2>4, MountsIsFormatted, MountsIsFormattedNext
    DEF ErasedAbove, superblock
<1> QED
  BY <1>1, <1>2, <1>3, SbWriters

-----------------------------------------------------------------------------
(***************************************************************************)
(* Where a step writes FLASH, allocates, and makes a new file.             *)
(***************************************************************************)
\* UPDATE BINARY is the only step that writes FLASH, and it stays inside one
\* file, below the top.
LEMMA FlashWriters ==
  ASSUME CardInvariant, [Next]_vars
  PROVE  \/ flash' = flash
         \/ /\ scos_cmd_update_binary
            /\ Formatted /\ sb' = sb /\ desc' = desc /\ pc' # "place"
            /\ \A c \in DOMAIN flash : c >= sb.data_top => flash'[c] = flash[c]
            /\ \E i \in EFs : \A c \in DOMAIN flash \ Extent(desc[i]) : flash'[c] = flash[c]
<1>1. CASE scos_init \/ scos_reset \/ PowerCut \/ Decay \/ UNCHANGED vars
  BY <1>1 DEF scos_init, scos_reset, PowerCut, Decay, nvmVars, storeVars, vars
<1>2. CASE Internal
  BY <1>2, RamAfterWrite
  DEF Internal, format_slot, format_done, format_superblock, personalise_mf,
      fs_store_write_desc, personalise_row, AllocThenPlace, fs_store_alloc_data,
      personalise_done, place_desc, walk_step, storeVars
<1>3. CASE Command /\ ~scos_cmd_update_binary
  BY <1>3, RamAfterWrite
  DEF Command, process_fs_error, process_refused, scos_cmd_select, select_by_path,
      scos_cmd_read_binary, scos_cmd_create_file, AllocThenPlace, fs_store_alloc_data,
      scos_cmd_delete_file, fs_store_free_desc, storeVars
<1>4. ASSUME scos_cmd_update_binary, flash' # flash
      PROVE  /\ Formatted /\ sb' = sb /\ desc' = desc /\ pc' # "place"
             /\ \A c \in DOMAIN flash : c >= sb.data_top => flash'[c] = flash[c]
             /\ \E i \in EFs : \A c \in DOMAIN flash \ Extent(desc[i]) : flash'[c] = flash[c]
  <2> USE DEF CardInvariant
  <2>1. PICK c \in UpdateCmds :
          \/ UNCHANGED storeVars
          \/ \E i \in target(c.to), o \in Outcome :
               /\ ef_write_status(i, c.to.offset, Len(c.data)) = "OK"
               /\ fs_store_write_data(o, desc[i].data_offset + c.to.offset, c.data)
    BY <1>4 DEF scos_cmd_update_binary
  <2> PICK i \in target(c.to), o \in Outcome :
          /\ ef_write_status(i, c.to.offset, Len(c.data)) = "OK"
          /\ fs_store_write_data(o, desc[i].data_offset + c.to.offset, c.data)
    BY <1>4, <2>1 DEF storeVars
  <2>2. sb' = sb /\ desc' = desc
    BY DEF fs_store_write_data
  <2>4. pc' # "place"
    BY <1>4, FaultsAssumption
    DEF scos_cmd_update_binary, Outcome, After, RamLost, Answer
  <2>5. /\ resolve(i) = "OK" /\ fs_is_ef(desc[i])
        /\ ~(c.to.offset + Len(c.data) > desc[i].size)
    BY DEF ef_write_status
  <2>6. i \in Slot
    <3>1. i \in Slot \cup {FS_INVALID_INDEX}
      BY SearchSlots DEF target, Readable, TypeOK, fs_selection, Index
    <3>2. i = FS_INVALID_INDEX => fs_store_read_desc(i) # "OK"
      BY SizesAssumption DEF fs_store_read_desc, StoreInv, SuperblockInv
    <3> QED
      BY <2>5, <3>1, <3>2 DEF resolve
  <2>7. i \in EFs /\ Formatted
    BY <2>5, <2>6, ResolveOK DEF EFs, StoreInv, SuperblockInv
  <2>8. desc[i].data_offset + desc[i].size <= sb.data_top
    BY <2>7 DEF StoreInv, SuperblockInv, DataBelow
  <2>9. /\ c.to.offset \in Nat /\ Len(c.data) \in Nat
        /\ desc[i].data_offset \in Nat /\ desc[i].size \in Nat /\ sb.data_top \in Nat
    <3>1. c \in UpdateCmd
      BY CommandsAssumption
    <3> QED
      BY <2>6, <3>1
      DEF UpdateCmd, BinaryTarget, TypeOK, StoreTypeOK, fs_descriptor, superblock
  <2>10. PICK K \in SUBSET Cells(desc[i].data_offset + c.to.offset, Len(c.data)) :
           flash' = [x \in DOMAIN flash |->
                       IF x \in K THEN c.data[x - (desc[i].data_offset + c.to.offset) + 1]
                       ELSE flash[x]]
    BY DEF fs_store_write_data
  <2>11. \A x \in K : x \in Extent(desc[i])
    <3> DEFINE from == desc[i].data_offset + c.to.offset
    <3>1. \A x \in Cells(from, Len(c.data)) : x \in Extent(desc[i])
      <4>1. \A a, b, n, z \in Nat : \A x \in (a + b) .. (a + b) + n - 1 :
              ~(b + n > z) => x \in a .. a + z - 1
        OBVIOUS
      <4> QED
        BY <2>5, <2>9, <4>1 DEF Extent, Cells
    <3> QED
      BY <2>10, <3>1
  <2>12. \A x \in Extent(desc[i]) : x \in Int /\ x < sb.data_top
    <3>1. \A a, z, top \in Nat : \A x \in a .. a + z - 1 :
            a + z <= top => x \in Int /\ x < top
      OBVIOUS
    <3> QED
      BY <2>8, <2>9, <3>1 DEF Extent, Cells
  <2>13. \A x \in DOMAIN flash \ Extent(desc[i]) : flash'[x] = flash[x]
    BY <2>10, <2>11
  <2>14. \A x \in DOMAIN flash : x >= sb.data_top => x \notin Extent(desc[i])
    BY <2>9, <2>12
  <2> QED
    BY <2>2, <2>4, <2>7, <2>13, <2>14
<1> QED
  BY <1>1, <1>2, <1>3, <1>4 DEF Next

\* An allocation is handed to the descriptor about to be stored.
LEMMA Placing ==
  ASSUME CardInvariant, [Next]_vars, pc' = "place"
  PROVE  \/ UNCHANGED vars
         \/ /\ ram.mounted /\ flash' = flash
            /\ fs_is_ef(job'.d) => job'.d.data_offset = ram.data_top
<1>1. CASE scos_init \/ scos_reset \/ PowerCut \/ Decay
  BY <1>1 DEF scos_init, scos_reset, PowerCut, Decay, RamLost, kernelVars
<1>2. CASE format_slot \/ format_done \/ personalise_mf \/ personalise_done
  BY <1>2, FaultsAssumption
  DEF format_slot, format_done, personalise_mf, personalise_done, Outcome, After,
      InitFailed, RamLost
<1>3. CASE place_desc \/ walk_step
  BY <1>3, FaultsAssumption
  DEF place_desc, walk_step, Outcome, After, InitFailed, RamLost, MemoryFailure, Answer,
      WalkOn, FinishSelect, RefuseSelect
<1>4. ASSUME NEW req, NEW slot, NEW parent, NEW ACTION OnError,
             AllocThenPlace(req, slot, parent, OnError), OnError => pc' # "place"
      PROVE  flash' = flash /\ (fs_is_ef(job'.d) => job'.d.data_offset = ram.data_top)
  <2>1. flash' = flash
    BY <1>4 DEF AllocThenPlace, fs_store_alloc_data, storeVars
  <2>2. job' = [slot |-> slot, d |-> NewDesc(req, parent)]
    BY <1>4, FaultsAssumption DEF AllocThenPlace, Outcome, After, RamLost
  <2> QED
    BY <2>1, <2>2 DEF NewDesc, fs_is_ef
<1>5. CASE personalise_row
  <2>1. pc = "row" /\ row <= Len(Layout)
    BY <1>5 DEF personalise_row
  <2>2. InitFailed => pc' # "place"
    BY DEF InitFailed
  <2>3. AllocThenPlace(RowReq(row), Layout[row].index, Layout[row].parent, InitFailed)
    BY <1>5, <2>2 DEF personalise_row
  <2> QED
    BY <1>4, <2>1, <2>2, <2>3, RowStage
<1>6. CASE scos_cmd_create_file
  <2>1. MemoryFailure => pc' # "place"
    BY DEF MemoryFailure, Answer
  <2>2. PICK req \in CreateReqs, slot \in fs_store_find_free_slot :
          /\ create_status(sel, req) = "OK"
          /\ AllocThenPlace(req, slot, sel.cur_df, MemoryFailure)
    BY <1>6 DEF scos_cmd_create_file, Answer
  <2>3. ram.mounted
    BY <2>2, CommandsAssumption, CreateAcceptable
  <2> QED
    BY <1>4, <2>1, <2>2, <2>3
<1>7. CASE process_fs_error \/ process_refused \/ scos_cmd_select \/ select_by_path
  BY <1>7 DEF process_fs_error, process_refused, scos_cmd_select, select_by_path,
              SelectSlot, FinishSelect, RefuseSelect, Answer
<1>8. CASE scos_cmd_read_binary \/ scos_cmd_update_binary \/ scos_cmd_delete_file
  BY <1>8, FaultsAssumption
  DEF scos_cmd_read_binary, scos_cmd_update_binary, scos_cmd_delete_file, Outcome, After,
      RamLost, MemoryFailure, Answer
<1> QED
  BY <1>1, <1>2, <1>3, <1>5, <1>6, <1>7, <1>8 DEF Next, Internal, Command

\* Which steps write the descriptor table.
LEMMA DescWriters ==
  ASSUME [Next]_vars
  PROVE  desc' = desc \/ format_slot \/ personalise_mf \/ place_desc \/ scos_cmd_delete_file
BY DEF Next, Internal, Command, vars, scos_init, scos_reset, PowerCut, Decay, nvmVars,
       storeVars, format_done, format_superblock, personalise_row, AllocThenPlace,
       fs_store_alloc_data, personalise_done, walk_step, process_fs_error,
       process_refused, scos_cmd_select, select_by_path, scos_cmd_read_binary,
       scos_cmd_update_binary, fs_store_write_data, scos_cmd_create_file

\* A new elementary file is the one whose allocation was waiting.
LEMMA NewFile ==
  ASSUME CardInvariant, [Next]_vars, NEW i \in EFs', i \notin EFs
  PROVE  pc = "place" /\ desc'[i] = job.d /\ flash' = flash
<1> USE DEF CardInvariant
<1>1. i \in Slot /\ desc'[i].type = "EF" /\ desc[i].type # "EF"
  BY DEF EFs, fs_is_ef
<1>2. ASSUME NEW o, NEW k \in Slot, NEW d, desc_write(o, k, d), d.type # "EF" PROVE FALSE
  <2>1. desc' \in {desc, [desc EXCEPT ![k] = d], [desc EXCEPT ![k] = BadDesc]}
    BY <1>2 DEF desc_write
  <2> QED
    BY <1>1, <1>2, <2>1 DEF TypeOK, StoreTypeOK, BadDesc, NoDesc
<1>3. CASE format_slot \/ personalise_mf \/ scos_cmd_delete_file
  <2>1. FreeDesc.type # "EF" /\ MfDesc.type # "EF" /\ FS_ROOT_INDEX \in Slot
    BY SlotFacts DEF FreeDesc, NoDesc, MfDesc
  <2>2. format_slot => row \in Slot /\ \E o : desc_write(o, row, FreeDesc)
    BY DEF format_slot, StageInv
  <2>3. personalise_mf => \E o : desc_write(o, FS_ROOT_INDEX, MfDesc)
    BY DEF personalise_mf, fs_store_write_desc
  <2>4. scos_cmd_delete_file => desc' = desc \/ \E o \in Outcome, k \in Slot : desc_write(o, k, FreeDesc)
    BY SearchSlots DEF scos_cmd_delete_file, fs_store_free_desc, storeVars, Readable
  <2> QED
    BY <1>1, <1>2, <1>3, <2>1, <2>2, <2>3, <2>4
<1>4. CASE place_desc
  <2>1. PICK o \in Outcome : desc_write(o, job.slot, job.d)
    BY <1>4 DEF place_desc, fs_store_write_desc
  <2>2. pc = "place" /\ job.slot \in Slot /\ flash' = flash
    BY <1>4, <2>1, RamAfterWrite DEF place_desc, TypeOK
  <2>3. desc' \in {desc, [desc EXCEPT ![job.slot] = job.d], [desc EXCEPT ![job.slot] = BadDesc]}
    BY <2>1 DEF desc_write
  <2>4. desc'[i] = job.d
    BY <1>1, <2>2, <2>3 DEF TypeOK, StoreTypeOK, BadDesc, NoDesc
  <2> QED
    BY <2>2, <2>4
<1>5. desc' # desc
  BY <1>1
<1> QED
  BY <1>3, <1>4, <1>5, DescWriters

-----------------------------------------------------------------------------
(***************************************************************************)
(* A card by itself.                                                       *)
(***************************************************************************)
\* Every step but a loss of the magic keeps what is above the top erased.
LEMMA FreshStep ==
  ASSUME CardInvariant, FreshInv, [Next]_vars, ~Decay
  PROVE  FreshInv'
<1>1. BlankBeforeFormat'
  BY BlankStep DEF FreshInv
<1>2. ErasedAbove(sb, flash) /\ ErasedAbove(sb', flash)
  BY ErasedStep DEF FreshInv
<1>3. flash \in [0 .. FLASH_SIZE - 1 -> Byte] /\ sb \in superblock
  BY DEF CardInvariant, TypeOK, StoreTypeOK
<1>4. ErasedAbove(sb', flash')
  <2>1. CASE flash' = flash
    BY <1>2, <2>1
  <2>2. CASE flash' # flash
    <3>1. Formatted /\ sb' = sb
      BY <2>2, FlashWriters
    <3>2. \A c \in DOMAIN flash : c >= sb.data_top => flash'[c] = flash[c]
      BY <2>2, FlashWriters
    <3>3. sb.magic /\ sb.data_top \in Nat
      BY <1>3, <3>1, MountsIsFormatted DEF Mounts, superblock
    <3> QED
      BY <1>2, <1>3, <3>1, <3>2, <3>3 DEF ErasedAbove
  <2> QED
    BY <2>1, <2>2
<1>5. JobErased'
  <2> SUFFICES ASSUME pc' = "place", fs_is_ef(job'.d), NEW c \in Extent(job'.d)
               PROVE  flash'[c] = Erased
    BY DEF JobErased, Extent
  <2>1. CASE UNCHANGED vars
    BY <2>1 DEF FreshInv, JobErased, vars
  <2>2. CASE ~UNCHANGED vars
    <3>1. ram.mounted /\ flash' = flash /\ job'.d.data_offset = ram.data_top
      BY <2>2, Placing
    <3>2. Formatted /\ sb.data_top <= ram.data_top
      BY <3>1 DEF CardInvariant, StoreInv, SuperblockInv
    <3>3. CardInvariant' /\ job'.d \in fs_descriptor
      BY NextInv DEF CardInvariant, TypeOK
    <3>4. job'.d.data_offset + job'.d.size <= FLASH_SIZE
      <4>1. job'.d.data_offset + job'.d.size <= sb'.data_top
        BY <3>3 DEF CardInvariant, StageInv, JobInv
      <4>2. ram'.mounted /\ sb' \in superblock
        BY <3>3 DEF CardInvariant, StageInv, TypeOK, StoreTypeOK
      <4>3. Formatted'
        BY <3>3, <4>2 DEF CardInvariant, StoreInv, SuperblockInv
      <4>4. sb'.data_top <= FLASH_SIZE
        BY <4>2, <4>3, MountsIsFormattedNext DEF Mounts
      <4>5. job'.d.data_offset \in Nat /\ job'.d.size \in Nat
        BY <3>3 DEF fs_descriptor
      <4>6. sb'.data_top \in Nat
        BY <4>2 DEF superblock
      <4> QED
        BY <4>1, <4>4, <4>5, <4>6, SizesAssumption
    <3>5. c \in 0 .. FLASH_SIZE - 1 /\ sb.data_top <= c
      <4>1. job'.d.data_offset \in Nat /\ job'.d.size \in Nat /\ sb.data_top \in Nat
        <5>1. job'.d.data_offset \in Nat /\ job'.d.size \in Nat
          BY <3>3 DEF fs_descriptor
        <5>2. sb.data_top \in Nat
          BY <1>3 DEF superblock
        <5> QED
          BY <5>1, <5>2
      <4>2. c \in Cells(job'.d.data_offset, job'.d.size)
        BY DEF Extent
      <4>3. c \in job'.d.data_offset .. job'.d.data_offset + job'.d.size - 1
        BY <4>2 DEF Cells
      <4> QED
        BY <3>1, <3>2, <3>4, <4>1, <4>3, SizesAssumption
    <3> QED
      BY <1>2, <1>3, <3>1, <3>2, <3>5, MountsIsFormatted DEF ErasedAbove
  <2> QED
    BY <2>1, <2>2
<1> QED
  BY <1>1, <1>4, <1>5 DEF FreshInv

\* What a step makes new is erased.
LEMMA NewFileErased ==
  ASSUME CardInvariant, JobErased, [Next]_vars, NEW i \in EFs' \ EFs,
         NEW c \in Extent(desc[i])'
  PROVE  flash'[c] = Erased
<1>1. pc = "place" /\ desc'[i] = job.d /\ flash' = flash
  BY NewFile
<1>2. fs_is_ef(job.d) /\ c \in Extent(job.d)
  BY <1>1 DEF EFs, Extent
<1> QED
  BY <1>1, <1>2 DEF JobErased

\* A file that comes into existence reads as erased, through failed, unsynced
\* and torn writes and power cuts, on a card of any size whose superblock keeps
\* its magic.
THEOREM NewFilesAreErased ==
  ASSUME "decay" \notin NvmFaults
  PROVE  Spec => FreshFileErased
<1>1. Init => FreshInv
  BY SizesAssumption
  DEF Init, StoreInit, FreshInv, BlankBeforeFormat, ErasedAbove, JobErased, Mounts,
      BlankSb, ForeignSb
<1>2. ~Decay
  BY DEF Decay
<1>3. CardInvariant /\ FreshInv /\ [Next]_vars => FreshInv'
  BY <1>2, FreshStep
<1>4. CardInvariant /\ FreshInv /\ [Next]_vars =>
        [\A i \in EFs' \ EFs : \A c \in Extent(desc[i])' : flash'[c] = Erased]_vars
  BY NewFileErased DEF FreshInv
<1> QED
  BY <1>1, <1>3, <1>4, Invariance, PTL DEF Spec, FreshFileErased

-----------------------------------------------------------------------------
(***************************************************************************)
(* The card implements the abstract file tree: every step, the loss of     *)
(* power and the failure of a write included, changes at most one file, and*)
(* as a whole.                                                             *)
(***************************************************************************)
\* A card that will be formatted has no files: it never had the magic.
NothingBeforeFormat == ~sb.magic => Files = {}

\* The MF is in no DF.
RootHasNoParent == FS_ROOT_INDEX \in Files => desc[FS_ROOT_INDEX].parent \notin Slot

TreeInv == CardInvariant /\ FreshInv /\ NothingBeforeFormat /\ RootHasNoParent

-----------------------------------------------------------------------------
(***************************************************************************)
(* The four things a step can do to the tree.                              *)
(***************************************************************************)
\* A file whose descriptor and data stay is the same file.
LEMMA FileKept ==
  ASSUME NEW i, desc[i] \in fs_descriptor, desc'[i] = desc[i],
         fs_is_ef(desc[i]) => \A c \in Extent(desc[i]) : flash'[c] = flash[c]
  PROVE  FileOf(i)' = FileOf(i)
<1>1. desc[i].data_offset \in Nat /\ desc[i].size \in Nat
  BY DEF fs_descriptor
<1>2. \A k \in 1 .. desc[i].size : desc[i].data_offset + k - 1 \in Extent(desc[i])
  <2>1. \A a, n \in Nat : \A k \in 1 .. n : a + k - 1 \in a .. a + n - 1
    OBVIOUS
  <2> QED
    BY <1>1, <2>1 DEF Extent, Cells
<1>3. fs_is_ef(desc[i]) =>
        fs_store_read_data(desc[i].data_offset, desc[i].size)'
          = fs_store_read_data(desc[i].data_offset, desc[i].size)
  BY <1>2 DEF fs_store_read_data
<1> QED
  BY <1>3 DEF FileOf

\* All files stay: the tree stutters, or the power goes on or off.
LEMMA StillStep ==
  ASSUME Files' = Files, \A i \in Files : FileOf(i)' = FileOf(i)
  PROVE  [Tree!TreeNext]_(Tree!treeVars)
<1>1. [i \in Files |-> FileOf(i)]' = [i \in Files |-> FileOf(i)]
  OBVIOUS
<1>2. CASE (pc # "off")' = (pc # "off")
  BY <1>1, <1>2 DEF Tree!treeVars
<1>3. CASE (pc # "off")' = ~(pc # "off")
  BY <1>1, <1>3 DEF Tree!TreeNext, Tree!Power
<1> QED
  BY <1>2, <1>3

\* Nothing is written, so all files stay.
LEMMA QuietStep ==
  ASSUME StoreTypeOK, flash' = flash, Files' = Files,
         \A i \in Files : desc'[i] = desc[i]
  PROVE  [Tree!TreeNext]_(Tree!treeVars)
<1>1. \A i \in Files : desc[i] \in fs_descriptor
  BY DEF StoreTypeOK, Files
<1>2. \A i \in Files : FileOf(i)' = FileOf(i)
  BY <1>1, FileKept
<1> QED
  BY <1>2, StillStep

\* A descriptor is stored in the free slot i.
LEMMA AppearStep ==
  ASSUME StoreTypeOK, NEW i \in Slot, i \notin Files, NEW d \in fs_descriptor,
         d.type \in FileType, desc' = [desc EXCEPT ![i] = d], flash' = flash,
         pc # "off", pc' # "off",
         \/ /\ d.type # "MF"
            /\ d.parent \in Files /\ fs_is_df(desc[d.parent])
            /\ \A j \in Files : Distinguishable(d, desc[j])
         \/ Files = {} /\ i = FS_ROOT_INDEX /\ d.type = "MF",
         fs_is_ef(d) => \A c \in Extent(d) : flash[c] = Erased
  PROVE  Tree!TreeNext
<1>1. Files' = Files \cup {i} /\ desc'[i] = d
  BY DEF Files, StoreTypeOK
<1>2. \A j \in Files : FileOf(j)' = FileOf(j)
  <2>1. \A j \in Files : j # i /\ desc[j] \in fs_descriptor /\ desc'[j] = desc[j]
    BY DEF StoreTypeOK, Files
  <2> QED
    BY <2>1, FileKept
<1> DEFINE t == [j \in Files |-> FileOf(j)]
<1>3. /\ DOMAIN t = Files /\ DOMAIN t' = Files \cup {i}
      /\ \A j \in Files : t[j] = FileOf(j) /\ t'[j] = t[j]
      /\ t'[i] = FileOf(i)'
  BY <1>1, <1>2
<1>4. /\ FileOf(i)'.type = d.type /\ FileOf(i)'.parent = d.parent
      /\ FileOf(i)'.file_id = d.file_id /\ FileOf(i)'.sfi = d.sfi
  BY <1>1 DEF FileOf
<1>5. \A j \in Files : /\ t[j].type = desc[j].type /\ t[j].parent = desc[j].parent
                       /\ t[j].file_id = desc[j].file_id /\ t[j].sfi = desc[j].sfi
  BY <1>3 DEF FileOf
<1>6. \A k \in DOMAIN FileOf(i)'.data : FileOf(i)'.data[k] = Erased
  <2>1. CASE fs_is_ef(d)
    <3>1. FileOf(i)'.data = [k \in 1 .. d.size |-> flash[d.data_offset + k - 1]]
      <4>1. FileOf(i)'.data = fs_store_read_data(desc[i].data_offset, desc[i].size)'
        BY <1>1, <2>1 DEF FileOf
      <4> QED
        BY <1>1, <4>1 DEF fs_store_read_data
    <3>2. d.data_offset \in Nat /\ d.size \in Nat
      BY DEF fs_descriptor
    <3>3. \A k \in 1 .. d.size : d.data_offset + k - 1 \in Extent(d)
      <4>1. \A a, n \in Nat : \A k \in 1 .. n : a + k - 1 \in a .. a + n - 1
        OBVIOUS
      <4> QED
        BY <3>2, <4>1 DEF Extent, Cells
    <3> QED
      BY <2>1, <3>1, <3>3
  <2>2. CASE ~fs_is_ef(d)
    <3>1. FileOf(i)'.data = <<>>
      BY <1>1, <2>2 DEF FileOf
    <3> QED
      BY <3>1
  <2> QED
    BY <2>1, <2>2
<1> HIDE DEF t
<1>7. Tree!Appear(i)
  <2>1. CASE Files = {} /\ i = FS_ROOT_INDEX /\ d.type = "MF"
    BY <1>3, <1>4, <1>6, <2>1 DEF Tree!Appear, Tree!FS_ROOT_INDEX, FS_ROOT_INDEX, t
  <2>2. CASE /\ d.type # "MF"
             /\ d.parent \in Files /\ fs_is_df(desc[d.parent])
             /\ \A j \in Files : Distinguishable(d, desc[j])
    <3>1. Tree!IsDf(d.parent)
      BY <1>3, <1>5, <2>2 DEF Tree!IsDf, Tree!fs_is_df, fs_is_df, t
    <3>2. Tree!Fits(FileOf(i)')
      BY <1>3, <1>4, <1>5, <2>2, <3>1
      DEF Tree!Fits, Tree!fs_is_ef, Tree!FS_NO_SFI, Distinguishable, fs_is_ef, FS_NO_SFI, t
    <3> QED
      BY <1>3, <1>6, <3>2 DEF Tree!Appear, t
  <2> QED
    BY <2>1, <2>2
<1> QED
  BY <1>7 DEF Tree!TreeNext, Tree!Slot, Slot

\* The file in slot i, which has no children, is freed or damaged.
LEMMA DisappearStep ==
  ASSUME StoreTypeOK, NEW i \in Files, i # FS_ROOT_INDEX,
         \A j \in Files : desc[j].parent # i,
         NEW d, d.type \notin FileType, desc' = [desc EXCEPT ![i] = d], flash' = flash,
         pc # "off"
  PROVE  Tree!TreeNext
<1>1. i \in Slot /\ Files' = Files \ {i}
  BY DEF Files, StoreTypeOK
<1>2. \A j \in Files' : FileOf(j)' = FileOf(j)
  <2>1. \A j \in Files' : desc[j] \in fs_descriptor /\ desc'[j] = desc[j]
    BY <1>1 DEF StoreTypeOK, Files
  <2> QED
    BY <2>1, FileKept
<1> DEFINE t == [j \in Files |-> FileOf(j)]
<1>3. /\ DOMAIN t = Files /\ DOMAIN t' = Files \ {i}
      /\ \A j \in Files' : t'[j] = t[j]
      /\ \A j \in Files : t[j].parent = desc[j].parent
  BY <1>1, <1>2 DEF FileOf
<1> HIDE DEF t
<1>4. Tree!Disappear(i)
  BY <1>1, <1>3 DEF Tree!Disappear, Tree!FS_ROOT_INDEX, FS_ROOT_INDEX, t
<1> QED
  BY <1>1, <1>4 DEF Tree!TreeNext, Tree!Slot, Slot

\* Only FLASH inside the elementary file i is written.
LEMMA UpdateStep ==
  ASSUME StoreTypeOK, NEW i \in EFs, desc' = desc, pc # "off",
         \A j \in EFs \ {i} : \A c \in Extent(desc[j]) : flash'[c] = flash[c]
  PROVE  Tree!TreeNext
<1>1. i \in Slot /\ i \in Files /\ Files' = Files /\ EFs \subseteq Files
  BY DEF Files, EFs, fs_is_ef, FileType
<1>2. \A j \in Files \ {i} : FileOf(j)' = FileOf(j)
  <2>1. \A j \in Files : desc[j] \in fs_descriptor /\ desc'[j] = desc[j]
                         /\ (fs_is_ef(desc[j]) => j \in EFs)
    BY DEF StoreTypeOK, Files, EFs
  <2> QED
    BY <2>1, FileKept
<1>3. /\ FileOf(i)' = [FileOf(i) EXCEPT !.data = FileOf(i)'.data]
      /\ DOMAIN FileOf(i)'.data = DOMAIN FileOf(i).data
      /\ FileOf(i).type = "EF"
  <2>1. fs_is_ef(desc[i]) /\ fs_is_ef(desc[i])' /\ FileOf(i).type = "EF"
    BY DEF FileOf, EFs, fs_is_ef
  <2> DEFINE old == fs_store_read_data(desc[i].data_offset, desc[i].size)
  <2>2. /\ FileOf(i) = [file_id |-> desc[i].file_id, type |-> desc[i].type,
                        parent |-> desc[i].parent, lifecycle |-> desc[i].lifecycle,
                        sfi |-> desc[i].sfi, data |-> old]
        /\ FileOf(i)' = [file_id |-> desc[i].file_id, type |-> desc[i].type,
                         parent |-> desc[i].parent, lifecycle |-> desc[i].lifecycle,
                         sfi |-> desc[i].sfi, data |-> old']
    BY <2>1 DEF FileOf
  <2>3. DOMAIN old = 1 .. desc[i].size /\ DOMAIN old' = 1 .. desc[i].size
    BY DEF fs_store_read_data
  <2> HIDE DEF old
  <2> QED
    BY <2>1, <2>2, <2>3
<1> DEFINE t == [j \in Files |-> FileOf(j)]
<1>4. /\ DOMAIN t = Files /\ DOMAIN t' = Files
      /\ \A j \in Files \ {i} : t'[j] = t[j]
      /\ t[i] = FileOf(i) /\ t'[i] = FileOf(i)'
  BY <1>1, <1>2
<1> HIDE DEF t
<1>5. Tree!Update(i)
  BY <1>1, <1>3, <1>4 DEF Tree!Update, Tree!fs_is_ef, t
<1> QED
  BY <1>1, <1>5 DEF Tree!TreeNext, Tree!Slot, Slot

-----------------------------------------------------------------------------
(***************************************************************************)
(* The steps that write.                                                   *)
(***************************************************************************)
\* A format finds no files and leaves none.
LEMMA FormatTree ==
  ASSUME TreeInv, format_slot
  PROVE  [Tree!TreeNext]_(Tree!treeVars) /\ Files' = {} /\ sb' = sb
<1>1. PICK o : desc_write(o, row, FreeDesc)
  BY DEF format_slot
<1>2. Files = {} /\ row \in Slot /\ StoreTypeOK
  BY DEF TreeInv, FreshInv, BlankBeforeFormat, NothingBeforeFormat, format_slot,
         CardInvariant, StageInv, TypeOK
<1>3. Files' = {} /\ sb' = sb /\ flash' = flash
  BY <1>1, <1>2, WriteShrinks, RamAfterWrite
<1> QED
  BY <1>2, <1>3, QuietStep

\* The MF appears in an empty tree.
LEMMA MfTree ==
  ASSUME TreeInv, personalise_mf
  PROVE  [Tree!TreeNext]_(Tree!treeVars)
<1>1. PICK o \in Outcome :
        /\ desc_write(o, FS_ROOT_INDEX, MfDesc)
        /\ After(o, /\ pc' = "row"
                    /\ row' = 1
                    /\ UNCHANGED <<life, sel, job, walk, rsp>>, InitFailed)
  BY DEF personalise_mf, fs_store_write_desc
<1>2. pc = "mf" /\ Files = {} /\ StoreTypeOK
  BY DEF TreeInv, personalise_mf, CardInvariant, StageInv, TypeOK, AllFree, Files, FileType
<1>3. flash' = flash
  BY <1>1, RamAfterWrite
<1>4. CASE Written(o)
  <2>1. desc' = [desc EXCEPT ![FS_ROOT_INDEX] = MfDesc]
    BY <1>1, <1>4 DEF desc_write
  <2>2. pc' # "off"
    BY <1>1, <1>4 DEF Written, After, InitFailed
  <2>3. MfDesc.type = "MF" /\ MfDesc \in fs_descriptor /\ FS_ROOT_INDEX \in Slot
    BY MfFields, NoDescType, SlotFacts
  <2> QED
    BY <1>2, <1>3, <2>1, <2>2, <2>3, AppearStep DEF FileType, fs_is_ef
<1>5. CASE ~Written(o)
  <2>1. Files' = {}
    BY <1>1, <1>2, <1>5, SlotFacts, WriteShrinks
  <2> QED
    BY <1>2, <1>3, <2>1, QuietStep
<1> QED
  BY <1>4, <1>5

\* The file whose allocation was waiting appears, or nothing changes.
LEMMA PlaceTree ==
  ASSUME TreeInv, place_desc
  PROVE  [Tree!TreeNext]_(Tree!treeVars)
<1>1. PICK o \in Outcome :
        /\ desc_write(o, job.slot, job.d)
        /\ \/ After(o, /\ pc' = "row"
                       /\ row' = row + 1
                       /\ job' = NoJob
                       /\ UNCHANGED <<life, sel, walk, rsp>>, InitFailed)
           \/ After(o, Answer(SW("9000")) /\ UNCHANGED sel, MemoryFailure)
  BY DEF place_desc, fs_store_write_desc
<1>2. pc = "place" /\ JobInv /\ StoreTypeOK /\ job.d \in fs_descriptor /\ JobErased
  BY DEF TreeInv, FreshInv, place_desc, CardInvariant, StageInv, TypeOK
<1>3. /\ job.slot \in Slot /\ job.slot \notin Files /\ flash' = flash
      /\ job.d.type \in {"DF", "EF"}
  BY <1>1, <1>2, RamAfterWrite DEF JobInv, Files, FileType
<1>4. CASE Written(o)
  <2>1. desc' = [desc EXCEPT ![job.slot] = job.d]
    BY <1>1, <1>4 DEF desc_write
  <2>2. pc' # "off"
    BY <1>1, <1>4 DEF Written, After, InitFailed, MemoryFailure, Answer
  <2>3. /\ job.d.parent \in Files /\ fs_is_df(desc[job.d.parent])
        /\ \A j \in Files : Distinguishable(job.d, desc[j])
    BY <1>2 DEF JobInv
  <2>4. fs_is_ef(job.d) => \A c \in Extent(job.d) : flash[c] = Erased
    BY <1>2 DEF JobErased
  <2> QED
    BY <1>2, <1>3, <2>1, <2>2, <2>3, <2>4, AppearStep DEF FileType
<1>5. CASE ~Written(o)
  <2>1. Files' = Files /\ \A j \in Files : desc'[j] = desc[j]
    BY <1>1, <1>2, <1>3, <1>5, WriteShrinks
  <2> QED
    BY <1>2, <1>3, <2>1, QuietStep
<1> QED
  BY <1>4, <1>5

\* DELETE FILE takes a file that has no children.
LEMMA DeleteTree ==
  ASSUME TreeInv, scos_cmd_delete_file
  PROVE  [Tree!TreeNext]_(Tree!treeVars)
<1> USE DEF TreeInv, CardInvariant
<1>1. StoreTypeOK /\ pc # "off"
  BY DEF scos_cmd_delete_file, Serving, TypeOK
<1>2. CASE UNCHANGED storeVars
  <2>1. Files' = Files
    BY <1>2, TableKept DEF storeVars
  <2> QED
    BY <1>1, <1>2, <2>1, QuietStep DEF storeVars
<1>3. ASSUME NEW fid \in DeleteFids, NEW i \in fs_find_child(sel.cur_df, fid),
             delete_status(i) = "OK", NEW o \in Outcome, fs_store_free_desc(o, i)
      PROVE  [Tree!TreeNext]_(Tree!treeVars)
  <2>1. desc_write(o, i, FreeDesc) /\ i \in Slot
    BY <1>3, SearchSlots DEF fs_store_free_desc, Readable
  <2>2. /\ fs_store_read_desc(i) = "OK" /\ desc[i].type # "MF"
        /\ fs_is_df(desc[i]) => ~HasChild(i)
    BY <1>3 DEF delete_status
  <2>3. i \in Files /\ Formatted /\ Readable = Files
    BY <2>1, <2>2, ReadDesc, ReadableIsFiles DEF StoreInv, SuperblockInv
  <2>4. i # FS_ROOT_INDEX
    BY <2>2, <2>3 DEF StoreInv, TreeWellFormed
  <2>5. \A j \in Files : desc[j].parent # i
    <3>1. \A j \in Files \ {FS_ROOT_INDEX} : desc[j].parent # i
      BY <2>2, <2>3 DEF StoreInv, TreeWellFormed, HasChild
    <3>2. FS_ROOT_INDEX \in Files => desc[FS_ROOT_INDEX].parent # i
      BY <2>1 DEF RootHasNoParent
    <3> QED
      BY <3>1, <3>2
  <2>6. flash' = flash
    BY <2>1, RamAfterWrite
  <2>7. \/ desc' = desc
        \/ desc' = [desc EXCEPT ![i] = FreeDesc]
        \/ desc' = [desc EXCEPT ![i] = BadDesc]
    BY <2>1 DEF desc_write
  <2>8. FreeDesc.type \notin FileType /\ BadDesc.type \notin FileType
    BY DEF FreeDesc, BadDesc, NoDesc, FileType
  <2>9. CASE desc' = desc
    BY <1>1, <2>6, <2>9, TableKept, QuietStep
  <2> QED
    BY <1>1, <2>3, <2>4, <2>5, <2>6, <2>7, <2>8, <2>9, DisappearStep
<1>4. \/ UNCHANGED storeVars
      \/ \E fid \in DeleteFids : \E i \in fs_find_child(sel.cur_df, fid), o \in Outcome :
           delete_status(i) = "OK" /\ fs_store_free_desc(o, i)
  BY DEF scos_cmd_delete_file
<1> QED
  BY <1>2, <1>3, <1>4

\* UPDATE BINARY changes the data of one file, because no two files share data.
LEMMA UpdateTree ==
  ASSUME TreeInv, scos_cmd_update_binary, flash' # flash
  PROVE  [Tree!TreeNext]_(Tree!treeVars)
<1> USE DEF TreeInv, CardInvariant
<1>1. StoreTypeOK /\ pc # "off" /\ Next
  BY DEF scos_cmd_update_binary, Serving, TypeOK, Next, Command
<1>2. Formatted /\ desc' = desc
  BY <1>1, FlashWriters
<1>3. PICK i \in EFs : \A c \in DOMAIN flash \ Extent(desc[i]) : flash'[c] = flash[c]
  BY <1>1, FlashWriters
<1>4. ASSUME NEW j \in EFs \ {i}, NEW c \in Extent(desc[j]) PROVE flash'[c] = flash[c]
  <2>1. c \notin Extent(desc[i])
    BY InvNoSharedData DEF NoSharedData
  <2>2. c \in 0 .. FLASH_SIZE - 1
    <3>1. desc[j].data_offset \in Nat /\ desc[j].size \in Nat /\ sb.data_top \in Nat
      BY <1>1 DEF EFs, StoreTypeOK, fs_descriptor, superblock
    <3>2. desc[j].data_offset + desc[j].size <= sb.data_top
      BY <1>2 DEF StoreInv, SuperblockInv, DataBelow
    <3>3. sb.data_top <= FLASH_SIZE
      BY <1>1, <1>2, MountsIsFormatted DEF Mounts, StoreTypeOK
    <3>4. \A a, z, top, size \in Nat : \A x \in a .. a + z - 1 :
            a + z <= top /\ top <= size => x \in 0 .. size - 1
      OBVIOUS
    <3> QED
      BY <3>1, <3>2, <3>3, <3>4, SizesAssumption DEF Extent, Cells
  <2> QED
    BY <1>1, <1>3, <2>1, <2>2 DEF StoreTypeOK
<1> QED
  BY <1>1, <1>2, <1>4, UpdateStep

-----------------------------------------------------------------------------
(***************************************************************************)
(* The refinement.                                                         *)
(***************************************************************************)
\* Every step of the card is a step of the tree.
LEMMA TreeStep ==
  ASSUME TreeInv, [Next]_vars
  PROVE  [Tree!TreeNext]_(Tree!treeVars)
<1>1. StoreTypeOK
  BY DEF TreeInv, CardInvariant, TypeOK
<1>2. CASE flash' # flash
  BY <1>2, FlashWriters, UpdateTree DEF TreeInv
<1>3. CASE flash' = flash /\ desc' = desc
  BY <1>1, <1>3, TableKept, QuietStep
<1>4. CASE format_slot \/ personalise_mf \/ place_desc \/ scos_cmd_delete_file
  BY <1>4, FormatTree, MfTree, PlaceTree, DeleteTree
<1> QED
  BY <1>2, <1>3, <1>4, DescWriters

\* The invariant of the refinement is inductive, unless the magic is lost.
LEMMA TreeInvStep ==
  ASSUME TreeInv, [Next]_vars, ~Decay
  PROVE  TreeInv'
<1>1. CardInvariant' /\ FreshInv'
  BY NextInv, FreshStep DEF TreeInv
<1>2. StoreTypeOK /\ CardInvariant /\ sb \in superblock
  BY DEF TreeInv, CardInvariant, TypeOK, StoreTypeOK
<1>3. CASE format_slot
  <2>1. Files' = {}
    BY <1>3, FormatTree
  <2> QED
    BY <1>1, <2>1 DEF TreeInv, NothingBeforeFormat, RootHasNoParent
<1>4. CASE personalise_mf
  <2>1. PICK o : desc_write(o, FS_ROOT_INDEX, MfDesc)
    BY <1>4 DEF personalise_mf, fs_store_write_desc
  <2>2. sb' = sb /\ sb.magic /\ Files = {}
    BY <1>2, <1>4, <2>1, RamAfterWrite, MountsIsFormatted
    DEF CardInvariant, StageInv, StoreInv, SuperblockInv, personalise_mf, Mounts, AllFree,
        Files, FileType
  <2>3. FS_ROOT_INDEX \in Files' => desc'[FS_ROOT_INDEX] = MfDesc
    BY <1>2, <2>1, <2>2, SlotFacts, WriteShrinks DEF desc_write, StoreTypeOK
  <2>4. MfDesc.parent \notin Slot
    BY MfFields, SlotFacts
  <2> QED
    BY <1>1, <2>2, <2>3, <2>4 DEF TreeInv, NothingBeforeFormat, RootHasNoParent
<1>5. CASE place_desc
  <2>1. PICK o : desc_write(o, job.slot, job.d)
    BY <1>5 DEF place_desc, fs_store_write_desc
  <2>2. job.slot \in Slot \ {FS_ROOT_INDEX} /\ ram.mounted
    BY <1>2, <1>5 DEF place_desc, CardInvariant, StageInv, JobInv
  <2>3. sb' = sb /\ sb.magic
    BY <1>2, <2>1, <2>2, RamAfterWrite, MountsIsFormatted
    DEF CardInvariant, StoreInv, SuperblockInv, Mounts
  <2>4. desc'[FS_ROOT_INDEX] = desc[FS_ROOT_INDEX]
    BY <1>2, <2>1, <2>2, SlotFacts DEF desc_write, StoreTypeOK
  <2>5. FS_ROOT_INDEX \in Files' => FS_ROOT_INDEX \in Files
    BY <2>4 DEF Files
  <2> QED
    BY <1>1, <2>3, <2>4, <2>5 DEF TreeInv, NothingBeforeFormat, RootHasNoParent
<1>6. CASE scos_cmd_delete_file
  <2>1. \/ UNCHANGED storeVars
        \/ \E o \in Outcome, i \in Slot : desc_write(o, i, FreeDesc)
    BY <1>6, SearchSlots DEF scos_cmd_delete_file, fs_store_free_desc, Readable
  <2>2. sb' = sb /\ Files' \subseteq Files /\ \A j \in Files' : desc'[j] = desc[j]
    BY <1>2, <2>1, RamAfterWrite, WriteShrinks, TableKept DEF storeVars
  <2> QED
    BY <1>1, <2>2 DEF TreeInv, NothingBeforeFormat, RootHasNoParent
<1>7. CASE desc' = desc
  <2>1. Files' = Files
    BY <1>7, TableKept
  <2>2. ~sb'.magic => ~sb.magic \/ Files = {}
    <3>1. CASE format_done
      BY <1>2, <3>1 DEF format_done, CardInvariant, StageInv, AllFree, Files, FileType
    <3>2. ASSUME NEW o \in Outcome, NEW size \in Nat, fs_store_alloc_data(o, size)
          PROVE  sb.magic => sb'.magic
      BY <1>2, <3>2, MagicKept
    <3> QED
      BY <1>2, <3>1, <3>2, SbWriters
  <2> QED
    BY <1>1, <1>7, <2>1, <2>2 DEF TreeInv, NothingBeforeFormat, RootHasNoParent
<1> QED
  BY <1>3, <1>4, <1>5, <1>6, <1>7, DescWriters

\* The card implements the file tree, for every size of the table and of FLASH,
\* every factory table and every set of commands, through power cuts and failed,
\* unsynced and torn writes, as long as the superblock keeps its magic.
THEOREM CardImplementsFileTree ==
  ASSUME "decay" \notin NvmFaults
  PROVE  Spec => ImplementsFileTree
<1>1. Init => TreeInv /\ Tree!TreeInit
  <2> SUFFICES ASSUME Init PROVE TreeInv /\ Tree!TreeInit
    OBVIOUS
  <2>1. CardInvariant /\ Files = {} /\ pc = "off"
    BY InitInv DEF Init, StoreInit, Files, FreeDesc, NoDesc, FileType
  <2>2. FreshInv
    BY SizesAssumption
    DEF Init, StoreInit, FreshInv, BlankBeforeFormat, ErasedAbove, JobErased, Mounts,
        BlankSb, ForeignSb
  <2> QED
    BY <2>1, <2>2 DEF TreeInv, NothingBeforeFormat, RootHasNoParent, Tree!TreeInit
<1>2. ~Decay
  BY DEF Decay
<1>3. TreeInv /\ [Next]_vars => TreeInv'
  BY <1>2, TreeInvStep
<1>4. TreeInv /\ [Next]_vars => [Tree!TreeNext]_(Tree!treeVars)
  BY TreeStep
<1> QED
  BY <1>1, <1>3, <1>4, PTL DEF Spec, ImplementsFileTree, Tree!TreeSpec
=============================================================================
