------------------------------- MODULE CardOS ------------------------------
(***************************************************************************)
(* The card operating system: power, the kernel (kernel.c, card_loop.c)    *)
(* and the handlers of SELECT, READ BINARY, UPDATE BINARY, CREATE FILE and *)
(* DELETE FILE, on top of the filesystem of Fs and FsStore.                *)
(*                                                                         *)
(* The card is single-threaded and passive, so a handler that makes at     *)
(* most one NVM write is one step.  What does interleave with it is the    *)
(* loss of power, so an operation with several writes has one step per     *)
(* write: personalisation (fs_personalise) and CREATE FILE of an EF, which *)
(* allocates data and then stores a descriptor.  A path SELECT is one step *)
(* per component.  pc says where the card is:                              *)
(*   "off"     no power                                                    *)
(*   "format"  fs_store_format is freeing slot row                         *)
(*   "super"   fs_store_format is about to write the superblock            *)
(*   "mf"      fs_personalise is about to store the MF                     *)
(*   "row"     fs_personalise is at row `row` of the factory table         *)
(*   "place"   descriptor `job` is about to be stored                      *)
(*   "walk"    fs_select_by_path is at component walk.s                    *)
(*   "ready"   waiting for the reader in hal_card_receive                  *)
(***************************************************************************)
EXTENDS Fs

CONSTANTS
  SelectCmds,   \* the SELECT commands the reader sends
  ReadCmds,     \* the READ BINARY commands
  UpdateCmds,   \* the UPDATE BINARY commands
  CreateReqs,   \* the files it asks CREATE FILE for
  DeleteFids,   \* the identifiers it asks DELETE FILE for
  RefusalSws    \* the refusals made before a handler acts, see RefusalSw

VARIABLES
  pc,     \* where the card is, see above
  life,   \* k->lifecycle
  sel,    \* k->sel, the current selection
  row,    \* loop index of fs_store_format and of fs_personalise
  job,    \* the slot and descriptor about to be stored
  walk,   \* the local state of a path SELECT
  rsp     \* the answer to the last command

kernelVars == <<pc, life, sel, row, job, walk, rsp>>
vars == <<sb, desc, flash, ram, pc, life, sel, row, job, walk, rsp>>

-----------------------------------------------------------------------------
(***************************************************************************)
(* Commands, as apdu_parse hands them to a handler.  A data field of file  *)
(* identifiers is a sequence of them, with lc its length in bytes; le is 0 *)
(* when the command carries no Le (an Le is 1 to 256).                     *)
(***************************************************************************)
NoLe == 0

\* rfu: a reserved bit of P2 is set.  first: P2 asks for the first occurrence.
\* ret: what P2 wants returned.
SelectCmd ==
  [p1 : 0 .. 255, rfu : BOOLEAN, first : BOOLEAN,
   ret : {"FCI", "FCP", "FMD", "NONE"}, lc : 0 .. 255, path : Seq(Fid),
   le : 0 .. 256]

\* The two meanings of P1-P2 of READ and UPDATE BINARY: a short identifier and
\* an offset (b8 of P1 set; rfu: b7 or b6 is set too), or an offset of 15 bits
\* alone.
BinaryTarget == [by_sfi : BOOLEAN, rfu : BOOLEAN, sfi : 0 .. 31, offset : Nat]
ReadCmd == [to : BinaryTarget, lc : 0 .. 255, le : 0 .. 256]
UpdateCmd == [to : BinaryTarget, data : Seq(Byte), le : 0 .. 256]

\* Status words of the refusals made before a handler acts on the filesystem:
\* apdu_parse and apdu_check_cla, an unknown instruction, the P1-P2 and Lc
\* checks of CREATE and DELETE FILE, and every refusal of parse_fcp.
RefusalSw == {"6700", "6E00", "6881", "6882", "6884", "6D00", "6A80", "6A81",
              "6A84", "6A86"}

ASSUME CommandsAssumption ==
  /\ \A c \in SelectCmds : c \in SelectCmd /\ (c.p1 <= 2 /\ c.lc = 2 => Len(c.path) = 1)
                           /\ (c.p1 \in {8, 9} /\ c.lc > 0 /\ c.lc % 2 = 0
                                 => Len(c.path) = c.lc \div 2)
  /\ ReadCmds \subseteq ReadCmd
  /\ UpdateCmds \subseteq UpdateCmd
  /\ CreateReqs \subseteq CreateReq
  /\ DeleteFids \subseteq Fid
  /\ RefusalSws \subseteq RefusalSw

\* An answer: a status word, with the control information of a file (the set
\* fci is {} or holds one template) after SELECT, or the bytes read.
SW(sw) == [sw |-> sw, fci |-> {}, data |-> <<>>]
NoRsp == SW("none")

-----------------------------------------------------------------------------
NoJob == [slot |-> 0, d |-> FreeDesc]
NoWalk == [cmd |-> [p1 |-> 9, rfu |-> FALSE, first |-> TRUE, ret |-> "NONE",
                    lc |-> 0, path |-> <<>>, le |-> NoLe],
           s |-> 0, scratch |-> fs_selection_reset]

\* What a loss of power does to everything that is not NVM.  k is zeroed by
\* scos_init, so the selection is <0, 0> until fs_selection_reset.
RamLost ==
  /\ pc' = "off"
  /\ life' = "INITIALISING"
  /\ sel' = [cur_df |-> 0, cur_ef |-> 0]
  /\ row' = 0
  /\ job' = NoJob
  /\ walk' = NoWalk
  /\ rsp' = NoRsp

Init ==
  /\ StoreInit
  /\ pc = "off"
  /\ life = "INITIALISING"
  /\ sel = [cur_df |-> 0, cur_ef |-> 0]
  /\ row = 0
  /\ job = NoJob
  /\ walk = NoWalk
  /\ rsp = NoRsp

PowerCut ==
  /\ pc # "off"
  /\ ram' = RamAtPowerOn
  /\ RamLost
  /\ UNCHANGED nvmVars

\* The superblock's magic is damaged while the card is in a drawer.
Decay ==
  /\ "decay" \in NvmFaults
  /\ pc = "off"
  /\ sb.magic
  /\ sb' = [sb EXCEPT !.magic = FALSE]
  /\ UNCHANGED <<desc, flash, ram, kernelVars>>

-----------------------------------------------------------------------------
(***************************************************************************)
(* Power-on: scos_init up to the first NVM write.  An image that mounts    *)
(* and has its MF makes the card operational, a blank chip is              *)
(* personalised, anything else is FS_ERROR.                                *)
(***************************************************************************)
scos_init ==
  /\ pc = "off"
  /\ fs_store_mount
  /\ LET st == mount_status
         operational == st = "OK" /\ RootIsMf
     IN /\ pc' = IF st = "NOT_FORMATTED" THEN "format" ELSE "ready"
        /\ life' = IF operational THEN "OPERATIONAL"
                   ELSE IF st = "NOT_FORMATTED" THEN "INITIALISING"
                   ELSE "FS_ERROR"
        /\ sel' = IF operational THEN fs_selection_reset ELSE sel
  /\ UNCHANGED <<nvmVars, row, job, walk, rsp>>

\* fs_personalise returned an error: scos_init ends in FS_ERROR.
InitFailed ==
  /\ pc' = "ready"
  /\ life' = "FS_ERROR"
  /\ row' = 0
  /\ job' = NoJob
  /\ UNCHANGED <<sel, walk, rsp>>

\* How the kernel goes on after an NVM write with outcome o.
After(o, OnDone, OnError) ==
  CASE o = "done" -> OnDone
    [] o = "torn" -> RamLost
    [] o \in {"failed", "unsynced"} -> OnError

\* Variant with a mistake: the loop stops one slot early.
format_slot_short ==
  /\ pc = "format"
  /\ \E o \in Outcome \ {"unsynced"} :
       /\ desc_write(o, row, FreeDesc)
       /\ After(o, /\ row' = IF row + 2 < FS_MAX_FILES THEN row + 1 ELSE 0
                   /\ pc' = IF row + 2 < FS_MAX_FILES THEN "format" ELSE "super"
                   /\ UNCHANGED <<life, sel, job, walk, rsp>>,
                InitFailed)

\* One iteration of the loop of fs_store_format.  There is no sync in it.
format_slot ==
  /\ pc = "format"
  /\ \E o \in Outcome \ {"unsynced"} :
       /\ desc_write(o, row, FreeDesc)
       /\ After(o, /\ row' = IF row + 1 < FS_MAX_FILES THEN row + 1 ELSE 0
                   /\ pc' = IF row + 1 < FS_MAX_FILES THEN "format" ELSE "super"
                   /\ UNCHANGED <<life, sel, job, walk, rsp>>,
                InitFailed)

\* The end of fs_store_format.
format_done ==
  /\ pc = "super"
  /\ \E o \in Outcome :
       /\ format_superblock(o)
       /\ After(o, pc' = "mf" /\ UNCHANGED <<life, sel, row, job, walk, rsp>>,
                InitFailed)

\* fs_personalise stores the MF in slot 0.
personalise_mf ==
  /\ pc = "mf"
  /\ \E o \in Outcome :
       /\ fs_store_write_desc(o, FS_ROOT_INDEX, MfDesc)
       /\ After(o, /\ pc' = "row"
                   /\ row' = 1
                   /\ UNCHANGED <<life, sel, job, walk, rsp>>,
                InitFailed)

\* Data for an EF is allocated before its descriptor is stored; a DF has none.
\* OnError is how the operation ends when the allocation's write fails.
AllocThenPlace(req, slot, parent, OnError) ==
  LET Place == /\ pc' = "place"
               /\ job' = [slot |-> slot, d |-> NewDesc(req, parent)]
               /\ rsp' = NoRsp
               /\ UNCHANGED <<life, sel, row, walk>>
  IN \/ /\ req.type = "EF"
        /\ \E o \in Outcome : /\ fs_store_alloc_data(o, req.size)
                             /\ After(o, Place, OnError)
     \/ /\ req.type # "EF"
        /\ Place
        /\ UNCHANGED storeVars

\* Variant with a mistake: the last row is never begun.
personalise_row_short ==
  /\ pc = "row"
  /\ row < Len(Layout)
  /\ AllocThenPlace(RowReq(row), Layout[row].index, Layout[row].parent, InitFailed)

\* One row of the factory table, up to its allocation.
personalise_row ==
  /\ pc = "row"
  /\ row <= Len(Layout)
  /\ IF Layout[row].type = "EF" /\ NoRoom(Layout[row].size)
     THEN InitFailed /\ UNCHANGED storeVars
     ELSE AllocThenPlace(RowReq(row), Layout[row].index, Layout[row].parent,
                         InitFailed)

\* Variant with a mistake: the lifecycle is left as it was.
personalise_done_silent ==
  /\ pc = "row"
  /\ row > Len(Layout)
  /\ pc' = "ready"
  /\ sel' = fs_selection_reset
  /\ row' = 0
  /\ UNCHANGED <<storeVars, life, job, walk, rsp>>

\* All rows are stored: scos_init completes.
personalise_done ==
  /\ pc = "row"
  /\ row > Len(Layout)
  /\ pc' = "ready"
  /\ life' = "OPERATIONAL"
  /\ sel' = fs_selection_reset
  /\ row' = 0
  /\ UNCHANGED <<storeVars, job, walk, rsp>>

-----------------------------------------------------------------------------
(***************************************************************************)
(* Answering.  A handler runs only on an operational card (scos_process);  *)
(* a card whose filesystem did not come up has one answer.                 *)
(***************************************************************************)
Answer(r) ==
  /\ pc' = "ready"
  /\ rsp' = r
  /\ job' = NoJob
  /\ walk' = NoWalk
  /\ UNCHANGED <<life, row>>

Serving == pc = "ready" /\ life = "OPERATIONAL"

process_fs_error ==
  /\ pc = "ready"
  /\ life = "FS_ERROR"
  /\ Answer(SW("6581"))
  /\ UNCHANGED <<storeVars, sel>>

\* A command refused before a handler touches the filesystem.
process_refused ==
  /\ Serving
  /\ \E sw \in RefusalSws : Answer(SW(sw))
  /\ UNCHANGED <<storeVars, sel>>

\* The reader asserts RST: all of k is cleared, RAM of the store is not.
scos_reset ==
  /\ pc = "ready"
  /\ sel' = fs_selection_reset
  /\ life' = "OPERATIONAL"
  /\ rsp' = NoRsp
  /\ UNCHANGED <<storeVars, pc, row, job, walk>>

-----------------------------------------------------------------------------
(***************************************************************************)
(* SELECT.                                                                 *)
(***************************************************************************)
\* The checks on P1, P2 and Lc: "9000", or the status word of the refusal.
select_params(c) ==
  IF c.rfu THEN "6A86"
  ELSE IF ~c.first THEN "6A81"
  ELSE CASE c.p1 = 0 -> IF c.lc \in {0, 2} THEN "9000" ELSE "6A87"
         [] c.p1 \in {1, 2} -> IF c.lc = 2 THEN "9000" ELSE "6A87"
         [] c.p1 = 3 -> IF c.lc = 0 THEN "9000" ELSE "6A87"
         [] c.p1 = 4 -> "6A81"
         [] c.p1 \in {8, 9} -> IF c.lc = 0 THEN "6A87"
                              ELSE IF c.lc % 2 # 0 THEN "6A80"
                              ELSE IF c.lc \div 2 > FS_MAX_DEPTH
                                   THEN fs_error_to_sw("PARAM")
                              ELSE "9000"
         [] OTHER -> "6A86"

\* emit_fci for the file in slot i: the answer of a SELECT that found it.
emit_fci(c, i) ==
  IF c.ret = "NONE" THEN SW("9000")
  ELSE IF c.ret = "FMD" THEN SW("6A81")
  ELSE IF fs_store_read_desc(i) # "OK" THEN SW(fs_error_to_sw(fs_store_read_desc(i)))
  ELSE IF c.le = NoLe THEN SW("9000")
  ELSE IF c.le < fcp_len(desc[i]) + 2 THEN SW("6CXX")
  ELSE [SW("9000") EXCEPT !.fci = {fs_build_fcp(desc[i])}]

\* Variant with a mistake: the selection is committed before the answer is known.
FinishSelect_early(c, s) ==
  /\ Answer(emit_fci(c, fs_selected_index(s)))
  /\ sel' = s

\* The answer is built before the selection s is committed, and decides it.
FinishSelect(c, s) ==
  /\ Answer(emit_fci(c, fs_selected_index(s)))
  /\ sel' = IF rsp'.sw = "9000" THEN s ELSE sel

RefuseSelect(sw) == Answer(SW(sw)) /\ UNCHANGED sel

\* The selection of slot i, if it is usable and of the type P1 asks for.
SelectSlot(c, i) ==
  IF resolve(i) # "OK" THEN RefuseSelect(fs_error_to_sw(resolve(i)))
  ELSE IF c.p1 \in {1, 2} /\ (c.p1 = 1) # fs_is_df(desc[i])
       THEN RefuseSelect(fs_error_to_sw("WRONG_TYPE"))
  ELSE FinishSelect(c, commit(sel, i))

\* Where the one-step forms look for their file.
select_target(c) ==
  CASE c.p1 = 0 -> select_by_fid_target(sel, IF c.lc = 0 THEN FS_FID_MF ELSE c.path[1])
    [] c.p1 \in {1, 2} -> fs_find_child(sel.cur_df, c.path[1])
    [] c.p1 = 3 -> select_parent_target(sel)

\* SELECT by identifier (00), child DF (01), child EF (02) and parent (03), and
\* every refusal of P1, P2 or Lc.
scos_cmd_select ==
  /\ Serving
  /\ \E c \in SelectCmds :
       \/ /\ select_params(c) # "9000"
          /\ RefuseSelect(select_params(c))
       \/ /\ select_params(c) = "9000"
          /\ c.p1 \in 0 .. 3
          /\ IF c.p1 = 3 /\ fs_store_read_desc(sel.cur_df) # "OK"
             THEN RefuseSelect(fs_error_to_sw(fs_store_read_desc(sel.cur_df)))
             ELSE \/ /\ select_target(c) = {}
                     /\ RefuseSelect(fs_error_to_sw("NOT_FOUND"))
                  \/ \E i \in select_target(c) : SelectSlot(c, i)
  /\ UNCHANGED storeVars

\* SELECT by path from the MF (08) or from the current DF (09): the walk works
\* on a scratch selection.
select_by_path ==
  /\ Serving
  /\ \E c \in SelectCmds :
       /\ select_params(c) = "9000"
       /\ c.p1 \in {8, 9}
       /\ walk' = [cmd |-> c, s |-> 1,
                   scratch |-> IF c.p1 = 8 THEN fs_selection_reset ELSE sel]
  /\ pc' = "walk"
  /\ rsp' = NoRsp
  /\ UNCHANGED <<storeVars, life, sel, row, job>>

\* The walk goes on with scratch selection s, or ends with it.
WalkOn(s) ==
  IF walk.s = Len(walk.cmd.path)
  THEN FinishSelect(walk.cmd, s)
  ELSE /\ walk' = [walk EXCEPT !.s = @ + 1, !.scratch = s]
       /\ UNCHANGED <<pc, life, sel, row, job, rsp>>

\* One component of the path.  The first may name the DF the walk starts from.
walk_step ==
  /\ pc = "walk"
  /\ LET fid == walk.cmd.path[walk.s]
         hits == fs_find_child(walk.scratch.cur_df, fid)
         last == walk.s = Len(walk.cmd.path)
     IN IF walk.s = 1 /\ Names(walk.scratch.cur_df, fid)
        THEN WalkOn(walk.scratch)
        ELSE \/ /\ hits = {}
                /\ RefuseSelect(fs_error_to_sw("NOT_FOUND"))
             \/ \E i \in hits :
                  IF resolve(i) # "OK" THEN RefuseSelect(fs_error_to_sw(resolve(i)))
                  ELSE IF ~last /\ ~fs_is_df(desc[i])
                       THEN RefuseSelect(fs_error_to_sw("WRONG_TYPE"))
                  ELSE WalkOn(commit(walk.scratch, i))
  /\ UNCHANGED storeVars

-----------------------------------------------------------------------------
(***************************************************************************)
(* READ BINARY and UPDATE BINARY.                                          *)
(***************************************************************************)
\* resolve_target: the slot a command addresses, as a set, or its refusal.
target_sw(to) ==
  IF to.by_sfi
  THEN IF to.rfu \/ to.sfi \notin 1 .. 30 THEN "6A86"
       ELSE IF fs_find_by_sfi(sel.cur_df, to.sfi) = {} THEN "6A82"
       ELSE "9000"
  ELSE IF sel.cur_ef = FS_INVALID_INDEX THEN "6986" ELSE "9000"
target(to) ==
  IF to.by_sfi THEN fs_find_by_sfi(sel.cur_df, to.sfi) ELSE {sel.cur_ef}

scos_cmd_read_binary ==
  /\ Serving
  /\ \E c \in ReadCmds :
       LET refusal == IF c.lc # 0 THEN "6A87"
                      ELSE IF c.le = NoLe THEN "6700"
                      ELSE target_sw(c.to)
       IN \/ /\ refusal # "9000"
             /\ Answer(SW(refusal))
          \/ /\ refusal = "9000"
             /\ \E i \in target(c.to) :
                  LET st == ef_read_status(i, c.to.offset)
                      got == ef_read_len(i, c.to.offset, c.le)
                  IN IF st # "OK" THEN Answer(SW(fs_error_to_sw(st)))
                     ELSE Answer([SW(IF got < c.le THEN "6282" ELSE "9000") EXCEPT
                            !.data = fs_store_read_data(desc[i].data_offset + c.to.offset, got)])
  /\ UNCHANGED <<storeVars, sel>>

scos_cmd_update_binary ==
  /\ Serving
  /\ \E c \in UpdateCmds :
       LET refusal == IF c.data = <<>> \/ c.le # NoLe THEN "6700"
                      ELSE target_sw(c.to)
       IN \/ /\ refusal # "9000"
             /\ Answer(SW(refusal))
             /\ UNCHANGED <<storeVars, sel>>
          \/ /\ refusal = "9000"
             /\ \E i \in target(c.to) :
                  LET st == ef_write_status(i, c.to.offset, Len(c.data))
                  IN IF st # "OK"
                     THEN Answer(SW(fs_error_to_sw(st))) /\ UNCHANGED <<storeVars, sel>>
                     ELSE \E o \in Outcome :
                            /\ fs_store_write_data(o, desc[i].data_offset + c.to.offset, c.data)
                            /\ LET done == Answer(SW(fs_error_to_sw(write_data_status(o))))
                                           /\ UNCHANGED sel
                               IN After(o, done, done)

-----------------------------------------------------------------------------
(***************************************************************************)
(* CREATE FILE and DELETE FILE.                                            *)
(***************************************************************************)
MemoryFailure == Answer(SW(fs_error_to_sw("NVM"))) /\ UNCHANGED sel

\* CREATE FILE up to the allocation.
scos_cmd_create_file ==
  /\ Serving
  /\ \E req \in CreateReqs :
       LET st == create_status(sel, req)
       IN \/ /\ st # "OK"
             /\ Answer(SW(fs_error_to_sw(st)))
             /\ UNCHANGED <<storeVars, sel>>
          \/ /\ st = "OK"
             /\ \E slot \in fs_store_find_free_slot :
                  AllocThenPlace(req, slot, sel.cur_df, MemoryFailure)

\* Variant with a mistake: a row of the factory table is stored again and again.
place_desc_again ==
  /\ pc = "place"
  /\ \E o \in Outcome :
       /\ fs_store_write_desc(o, job.slot, job.d)
       /\ IF life = "INITIALISING"
          THEN After(o, /\ pc' = "row"
                        /\ job' = NoJob
                        /\ UNCHANGED <<life, sel, row, walk, rsp>>,
                     InitFailed)
          ELSE After(o, Answer(SW("9000")) /\ UNCHANGED sel, MemoryFailure)

\* The descriptor is stored: the end of CREATE FILE, or of a row of the factory
\* table.
place_desc ==
  /\ pc = "place"
  /\ \E o \in Outcome :
       /\ fs_store_write_desc(o, job.slot, job.d)
       /\ IF life = "INITIALISING"
          THEN After(o, /\ pc' = "row"
                        /\ row' = row + 1
                        /\ job' = NoJob
                        /\ UNCHANGED <<life, sel, walk, rsp>>,
                     InitFailed)
          ELSE After(o, Answer(SW("9000")) /\ UNCHANGED sel, MemoryFailure)

\* DELETE FILE: one write, and then the selection lets go of the slot.
scos_cmd_delete_file ==
  /\ Serving
  /\ \E fid \in DeleteFids :
       LET hits == fs_find_child(sel.cur_df, fid)
           Refuse(st) == /\ Answer(SW(fs_error_to_sw(st)))
                         /\ UNCHANGED <<storeVars, sel>>
       IN IF fid = FS_FID_MF THEN Refuse("NOT_USABLE")
          ELSE \/ hits = {} /\ Refuse("NOT_FOUND")
               \/ \E i \in hits :
                    IF delete_status(i) # "OK" THEN Refuse(delete_status(i))
                    ELSE \E o \in Outcome :
                           /\ fs_store_free_desc(o, i)
                           /\ After(o, Answer(SW("9000")) /\ sel' = deselect(sel, i),
                                    MemoryFailure)

-----------------------------------------------------------------------------
\* What the card does by itself once power is on.
Internal ==
  \/ format_slot
  \/ format_done
  \/ personalise_mf
  \/ personalise_row
  \/ personalise_done
  \/ place_desc
  \/ walk_step

\* What the reader makes it do.
Command ==
  \/ process_fs_error
  \/ process_refused
  \/ scos_cmd_select
  \/ select_by_path
  \/ scos_cmd_read_binary
  \/ scos_cmd_update_binary
  \/ scos_cmd_create_file
  \/ scos_cmd_delete_file

Next ==
  \/ scos_init
  \/ Internal
  \/ Command
  \/ scos_reset
  \/ PowerCut
  \/ Decay

\* The processor runs while there is power; nothing forces the reader to act.
Spec == Init /\ [][Next]_vars /\ WF_vars(Internal)

-----------------------------------------------------------------------------
(***************************************************************************)
(* Properties.                                                             *)
(***************************************************************************)
Pc == {"off", "format", "super", "mf", "row", "place", "walk", "ready"}
scos_lifecycle == {"INITIALISING", "OPERATIONAL", "FS_ERROR"}

\* Type invariant: every variable that the code reads again holds what its
\* declaration allows.  rsp, the answer to the last command, is not among them: it
\* has left the card.
TypeOK ==
  /\ StoreTypeOK
  /\ pc \in Pc
  /\ life \in scos_lifecycle
  /\ sel \in fs_selection
  /\ row \in 0 .. FS_MAX_FILES + Len(Layout)
  /\ job \in [slot : Slot, d : fs_descriptor]
  /\ walk \in [cmd : SelectCmd, s : Nat, scratch : fs_selection]

\* The files of the card, whether or not it is powered and mounted.
Files == {i \in Slot : desc[i].type \in FileType}
EFs == {i \in Slot : fs_is_ef(desc[i])}
Extent(d) == Cells(d.data_offset, d.size)

\* The next fs_store_mount will succeed.
Formatted == mount_status = "OK"

\* No byte of FLASH belongs to two elementary files, nor to a file and to the
\* allocation CREATE FILE is about to record; and every file lies below the
\* durable top, so no later allocation can reach it.  This is what the write
\* order of fs_store_alloc_data is for, whatever write fails or tears.
NoSharedData ==
  /\ \A i, j \in EFs : i # j => Extent(desc[i]) \cap Extent(desc[j]) = {}
  /\ pc = "place" /\ fs_is_ef(job.d) =>
       \A i \in EFs : Extent(job.d) \cap Extent(desc[i]) = {}
  /\ Formatted => \A i \in EFs : desc[i].data_offset + desc[i].size <= sb.data_top

\* While the card is mounted, the mirror's top never lags behind the durable
\* top: an allocation that failed half way is never handed out again.
MirrorAhead ==
  ram.mounted => Formatted /\ sb.data_top <= ram.data_top /\ ram.data_top <= FLASH_SIZE

\* The files of a formatted card form a tree rooted at the MF in slot 0: the
\* parent of every other file is a DF that exists, and nothing is its own
\* ancestor.  CREATE and DELETE FILE, cut anywhere, leave no orphan behind.
TreeWellFormed ==
  Formatted =>
    /\ \A i \in Files : desc[i].type = "MF" <=> i = FS_ROOT_INDEX
    /\ \A i \in Files \ {FS_ROOT_INDEX} :
         desc[i].parent \in Files /\ fs_is_df(desc[desc[i].parent])
    /\ \A S \in SUBSET (Files \ {FS_ROOT_INDEX}) :
         S # {} => \E i \in S : desc[i].parent \notin S

\* No two children of a DF share an identifier, and no two of its EFs a short
\* identifier, which is what cmd_select.c relies on to refuse "next occurrence".
SiblingsUnique ==
  \A i, j \in Files :
    i # j /\ desc[i].parent = desc[j].parent =>
      /\ desc[i].file_id # desc[j].file_id
      /\ fs_is_ef(desc[i]) /\ fs_is_ef(desc[j]) /\ desc[i].sfi = desc[j].sfi
           => desc[i].sfi = FS_NO_SFI

\* A selection s names a usable DF and, if it has a current EF, a usable EF
\* that is a child of that DF.
ValidSelection(s) ==
  /\ s.cur_df \in Files
  /\ fs_is_df(desc[s.cur_df]) /\ fs_is_usable(desc[s.cur_df])
  /\ s.cur_ef # FS_INVALID_INDEX =>
       /\ s.cur_ef \in EFs
       /\ desc[s.cur_ef].parent = s.cur_df
       /\ fs_is_usable(desc[s.cur_ef])

\* On an operational card that has its MF the selection is always valid
\* (fs.h: cur_df is "always valid"), also across DELETE FILE, and so is the
\* scratch selection of a path SELECT under way.
SelectionValid ==
  life = "OPERATIONAL" /\ FS_ROOT_INDEX \in Files =>
    ValidSelection(sel) /\ (pc = "walk" => ValidSelection(walk.scratch))

\* A file that comes into existence reads as erased: its bytes never held
\* another file's data (fs.c leaves the contents of a new EF as they are).
FreshFileErased ==
  [][\A i \in EFs' \ EFs : \A c \in Extent(desc[i])' : flash'[c] = Erased]_vars

\* The durable top of a formatted card never falls, so space freed by DELETE
\* FILE is not reused (fs_store_data_free "only ever decreases").
TopNeverFalls == [][Formatted /\ Formatted' => sb.data_top <= sb'.data_top]_vars

\* A command that is refused (any error but a memory failure) changed neither
\* the files nor their data nor the selection; SELECT's 6CXX counts as refused.
RefusalLeavesNoTrace ==
  [][rsp'.sw \notin {"none", "9000", "6282", "6581"} => UNCHANGED <<storeVars, sel>>]_vars

\* The steps until the card waits for the reader, at most: FS_MAX_FILES +
\* 2 * Len(Layout) + 3 from a blank card, one in CREATE FILE after its allocation,
\* and in a path SELECT one for each component.
StepsLeft ==
  CASE pc = "format" -> (FS_MAX_FILES - row) + 2 * Len(Layout) + 3
    [] pc = "super" -> 2 * Len(Layout) + 3
    [] pc = "mf" -> 2 * Len(Layout) + 2
    [] pc = "row" -> 2 * (Len(Layout) + 1 - row) + 1
    [] pc = "place" -> IF life = "INITIALISING" THEN 2 * (Len(Layout) + 1 - row) ELSE 1
    [] pc = "walk" -> Len(walk.cmd.path) + 1 - walk.s
    [] OTHER -> 0

\* Every step of a card at work, one that fails or loses power included, leaves
\* fewer steps to go: the loops of fs_store_format, of the factory table and of
\* the path walk never go round.
CardAdvances == [][~(pc \in {"off", "ready"}) => StepsLeft' \in 0 .. StepsLeft - 1]_vars

\* Whatever the card starts, a path walk, a CREATE FILE or its initialisation,
\* it finishes: it waits for the reader again, unless power is lost.
EventuallyReady == pc \notin {"off", "ready"} ~> pc \in {"off", "ready"}
=============================================================================
