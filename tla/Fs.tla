-------------------------------- MODULE Fs ---------------------------------
(***************************************************************************)
(* The logical layer, fs.c: searches in the tree, the selection rules and  *)
(* the checks of CREATE FILE and DELETE FILE.  These are operators on the  *)
(* state of FsStore; the steps that use them are in CardOS.                *)
(*                                                                         *)
(* A search gives the set of slots it answers with: the first slot of      *)
(* those that match, or {} when the code answers FS_ERR_NOT_FOUND.         *)
(***************************************************************************)
EXTENDS FsStore

Named(parent, fid) == {i \in Readable : desc[i].parent = parent /\ desc[i].file_id = fid}
fs_find_child(parent, fid) == First(Named(parent, fid))

\* Short identifiers are looked up among the EFs of one DF.
WithSfi(df, sfi) == {i \in Readable : /\ desc[i].parent = df
                                      /\ fs_is_ef(desc[i])
                                      /\ desc[i].sfi = sfi}
fs_find_by_sfi(df, sfi) == First(WithSfi(df, sfi))

\* fs_child_count(parent) > 0
HasChild(parent) == \E i \in Readable : desc[i].parent = parent

-----------------------------------------------------------------------------
(***************************************************************************)
(* Selection.                                                              *)
(***************************************************************************)
fs_selection_reset == [cur_df |-> FS_ROOT_INDEX, cur_ef |-> FS_INVALID_INDEX]

fs_selected_index(s) == IF s.cur_ef # FS_INVALID_INDEX THEN s.cur_ef ELSE s.cur_df

\* Variant with a mistake: a DF is not its own current DF.
commit_as_child(s, i) == [cur_df |-> desc[i].parent, cur_ef |-> i]

\* The selection after slot i, which has been found usable, is selected.
commit(s, i) ==
  IF fs_is_df(desc[i])
  THEN [cur_df |-> i, cur_ef |-> FS_INVALID_INDEX]
  ELSE [cur_df |-> desc[i].parent, cur_ef |-> i]

resolve(i) ==
  IF fs_store_read_desc(i) # "OK" THEN fs_store_read_desc(i)
  ELSE IF ~fs_is_usable(desc[i]) THEN "NOT_USABLE"
  ELSE "OK"

\* Slot i carries identifier fid.
Names(i, fid) == fs_store_read_desc(i) = "OK" /\ desc[i].file_id = fid

\* The search of fs_select_by_fid: the MF, a child of the current DF, the
\* current DF itself, its parent.
select_by_fid_target(s, fid) ==
  LET children == fs_find_child(s.cur_df, fid)
      parent == desc[s.cur_df].parent
  IN IF fid = FS_FID_MF THEN {FS_ROOT_INDEX}
     ELSE IF children # {} THEN children
     ELSE IF Names(s.cur_df, fid) THEN {s.cur_df}
     ELSE IF /\ fs_store_read_desc(s.cur_df) = "OK"
             /\ parent # FS_NO_PARENT
             /\ Names(parent, fid)
          THEN {parent}
     ELSE {}

\* The target of fs_select_parent: no target at the MF.
select_parent_target(s) ==
  IF desc[s.cur_df].parent = FS_NO_PARENT THEN {} ELSE {desc[s.cur_df].parent}

-----------------------------------------------------------------------------
(***************************************************************************)
(* CREATE FILE and DELETE FILE: the checks, made before any write.         *)
(***************************************************************************)
fid_is_reserved(fid) == fid \in {FS_FID_MF, FID_FFFF}

\* Variant with a mistake: siblings are not searched.
create_status_unsearched(s, req) ==
  IF fs_store_read_desc(s.cur_df) # "OK" THEN fs_store_read_desc(s.cur_df)
  ELSE IF fid_is_reserved(req.file_id) THEN "EXISTS"
  ELSE IF ~ValidReq(req) THEN "PARAM"
  ELSE IF FreeSlots = {} \/ (req.type = "EF" /\ NoRoom(req.size)) THEN "NO_SPACE"
  ELSE "OK"

\* The answer of fs_create_file up to its first write.
create_status(s, req) ==
  IF fs_store_read_desc(s.cur_df) # "OK" THEN fs_store_read_desc(s.cur_df)
  ELSE IF ~fs_is_df(desc[s.cur_df]) THEN "WRONG_TYPE"
  ELSE IF ~fs_is_usable(desc[s.cur_df]) THEN "NOT_USABLE"
  ELSE IF fid_is_reserved(req.file_id) THEN "EXISTS"
  ELSE IF ~ValidReq(req) THEN "PARAM"
  ELSE IF Named(s.cur_df, req.file_id) # {} THEN "EXISTS"
  ELSE IF req.sfi # FS_NO_SFI /\ WithSfi(s.cur_df, req.sfi) # {} THEN "EXISTS"
  ELSE IF FreeSlots = {} THEN "NO_SPACE"
  ELSE IF req.type = "EF" /\ NoRoom(req.size) THEN "NO_SPACE"
  ELSE "OK"

\* Variant with a mistake: the offset of the allocation is not recorded.
NewDesc_unplaced(req, parent) ==
  [file_id |-> req.file_id, type |-> req.type, lifecycle |-> req.lifecycle,
   parent |-> parent, size |-> req.size, data_offset |-> 0, sfi |-> req.sfi]

\* The descriptor fs_create_file stores: data of an EF starts at the old top.
NewDesc(req, parent) ==
  [file_id |-> req.file_id, type |-> req.type, lifecycle |-> req.lifecycle,
   parent |-> parent, size |-> req.size,
   data_offset |-> IF req.type = "EF" THEN ram.data_top ELSE 0,
   sfi |-> req.sfi]

\* Variant with a mistake: a DF is deleted whether or not it is empty.
delete_status_orphaning(i) ==
  IF fs_store_read_desc(i) # "OK" THEN fs_store_read_desc(i)
  ELSE IF desc[i].type = "MF" THEN "NOT_USABLE"
  ELSE "OK"

\* The answer of fs_delete_file for slot i up to its write.
delete_status(i) ==
  IF fs_store_read_desc(i) # "OK" THEN fs_store_read_desc(i)
  ELSE IF desc[i].type = "MF" THEN "NOT_USABLE"
  ELSE IF fs_is_df(desc[i]) /\ HasChild(i) THEN "NOT_USABLE"
  ELSE "OK"

\* Variant with a mistake: a deleted EF stays the current EF.
deselect_df_only(s, i) == IF s.cur_df = i THEN fs_selection_reset ELSE s

\* The selection once slot i has been freed.
deselect(s, i) ==
  IF s.cur_df = i THEN fs_selection_reset
  ELSE IF s.cur_ef = i THEN [s EXCEPT !.cur_ef = FS_INVALID_INDEX]
  ELSE s

-----------------------------------------------------------------------------
(***************************************************************************)
(* Factory personalisation.                                                *)
(***************************************************************************)
MfDesc == [file_id |-> FS_FID_MF, type |-> "MF", lifecycle |-> "ACTIVATED",
           parent |-> FS_NO_PARENT, size |-> 0, data_offset |-> 0,
           sfi |-> FS_NO_SFI]

\* Row r of the factory table as a request.
RowReq(r) == [file_id |-> Layout[r].file_id, type |-> Layout[r].type,
              lifecycle |-> "ACTIVATED", size |-> Layout[r].size,
              sfi |-> Layout[r].sfi]

\* fs_init trusts a mounted image only if slot 0 is the MF.
RootIsMf == /\ desc[FS_ROOT_INDEX].type = "MF"
            /\ desc[FS_ROOT_INDEX].file_id = FS_FID_MF

-----------------------------------------------------------------------------
(***************************************************************************)
(* Access to file data.                                                    *)
(***************************************************************************)
\* The status of fs_ef_read, and the number of bytes it returns.
ef_read_status(i, offset) ==
  IF resolve(i) # "OK" THEN resolve(i)
  ELSE IF ~fs_is_ef(desc[i]) THEN "WRONG_TYPE"
  ELSE IF offset > desc[i].size THEN "RANGE"
  ELSE "OK"
ef_read_len(i, offset, len) ==
  IF len < desc[i].size - offset THEN len ELSE desc[i].size - offset

\* Variant with a mistake: only the offset is compared with the size.
ef_write_status_overrun(i, offset, len) ==
  IF resolve(i) # "OK" THEN resolve(i)
  ELSE IF ~fs_is_ef(desc[i]) THEN "WRONG_TYPE"
  ELSE IF offset > desc[i].size THEN "RANGE"
  ELSE "OK"

\* The status of fs_ef_write before it writes: a write is refused as a whole.
ef_write_status(i, offset, len) ==
  IF resolve(i) # "OK" THEN resolve(i)
  ELSE IF ~fs_is_ef(desc[i]) THEN "WRONG_TYPE"
  ELSE IF offset + len > desc[i].size THEN "RANGE"
  ELSE "OK"
=============================================================================
