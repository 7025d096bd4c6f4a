------------------------------ MODULE FsTypes ------------------------------
(***************************************************************************)
(* The vocabulary of the card's filesystem: what fs_types.h declares, the  *)
(* status codes of the filesystem and the status words they become on the  *)
(* wire.  Everything here is constant; the state is in FsStore and CardOS. *)
(*                                                                         *)
(* Data is abstracted to what the properties tell apart.  A file           *)
(* identifier is a member of the set Fid, a byte of file data a member of  *)
(* Byte.  Sizes, offsets, slots and short identifiers stay numbers,        *)
(* because arithmetic on them is where the allocator could go wrong.       *)
(***************************************************************************)
EXTENDS Integers, Sequences

CONSTANTS
  FS_MAX_FILES,    \* slots of the descriptor table
  FS_INVALID_INDEX, \* FFFF, an index that is no slot
  FLASH_SIZE,      \* bytes of FLASH available to elementary files
  FS_MAX_EF_SIZE,  \* largest elementary file
  FS_MAX_DEPTH,    \* components a path may have
  Fid,             \* file identifiers
  FS_FID_MF,       \* 3F00
  FID_FFFF,        \* FFFF, reserved by ISO 7816-4
  Byte,            \* values a FLASH byte can hold
  Erased,          \* FF, the value of an erased byte
  Layout           \* the factory files of fs_personalise, in order

FS_NO_PARENT == FS_INVALID_INDEX
FS_NO_SFI == 0
FS_ROOT_INDEX == 0

Slot == 0 .. FS_MAX_FILES - 1
Sfi == 0 .. 30

FileType == {"MF", "DF", "EF"}
fs_lifecycle == {"CREATION", "INITIALISED", "ACTIVATED", "DEACTIVATED",
                 "TERMINATED"}

(***************************************************************************)
(* A descriptor as the table holds it.  "FREE" is a slot whose type byte   *)
(* is FF.  "BAD" is any content that is not free and whose checksum does   *)
(* not match: what a torn write leaves behind.                             *)
(***************************************************************************)
fs_descriptor ==
  [file_id : Fid, type : FileType \cup {"FREE", "BAD"},
   lifecycle : fs_lifecycle, parent : Slot \cup {FS_NO_PARENT},
   size : 0 .. FS_MAX_EF_SIZE, data_offset : 0 .. FLASH_SIZE, sfi : Sfi]

NoDesc(t) == [file_id |-> FID_FFFF, type |-> t, lifecycle |-> "TERMINATED",
              parent |-> FS_NO_PARENT, size |-> 0, data_offset |-> 0,
              sfi |-> FS_NO_SFI]
FreeDesc == NoDesc("FREE")
BadDesc == NoDesc("BAD")

fs_is_df(d) == d.type \in {"DF", "MF"}
fs_is_ef(d) == d.type = "EF"
fs_is_usable(d) == d.lifecycle = "ACTIVATED"

\* The selection: a current DF and, unless it is FS_INVALID_INDEX, a current EF.
Index == Slot \cup {FS_INVALID_INDEX}
fs_selection == [cur_df : Slot, cur_ef : Index]

fs_status == {"OK", "PARAM", "NOT_FOUND", "CORRUPT", "NO_SPACE", "EXISTS",
              "NOT_USABLE", "WRONG_TYPE", "RANGE", "NVM", "NOT_FORMATTED",
              "VERSION"}

\* The one place where a filesystem status becomes a status word.
fs_error_to_sw(st) ==
  CASE st = "OK"         -> "9000"
    [] st = "NOT_FOUND"  -> "6A82"
    [] st = "NOT_USABLE" -> "6985"
    [] st = "WRONG_TYPE" -> "6981"
    [] st = "RANGE"      -> "6B00"
    [] st = "PARAM"      -> "6A86"
    [] st = "NO_SPACE"   -> "6A84"
    [] st = "EXISTS"     -> "6A89"
    [] OTHER             -> "6581"

\* What CREATE FILE asks for once its FCP has been decoded.
CreateReq ==
  [file_id : Fid, type : {"DF", "EF"}, lifecycle : fs_lifecycle,
   size : 0 .. FS_MAX_EF_SIZE, sfi : Sfi]

\* The type-specific and lifecycle validation of fs_create_file.
ValidReq(req) ==
  /\ \/ req.type = "DF" /\ req.size = 0 /\ req.sfi = FS_NO_SFI
     \/ req.type = "EF" /\ req.size \in 1 .. FS_MAX_EF_SIZE /\ req.sfi \in Sfi
  /\ req.lifecycle \in fs_lifecycle \ {"TERMINATED"}

\* A row of the factory table: the file in slot `index`.
LayoutRow ==
  [index : Slot, file_id : Fid, type : {"DF", "EF"}, parent : Slot,
   size : 0 .. FS_MAX_EF_SIZE, sfi : Sfi]

(***************************************************************************)
(* fs_build_fcp: the control information of a file, and its length on the  *)
(* wire (82: 3 bytes, 83: 4, 8A: 3; an EF adds 80: 4 and, with a short     *)
(* identifier, 88: 3).                                                     *)
(***************************************************************************)
fs_build_fcp(d) == [file_id |-> d.file_id, df |-> fs_is_df(d),
                    size |-> IF fs_is_ef(d) THEN d.size ELSE 0,
                    lifecycle |-> d.lifecycle,
                    sfi |-> IF fs_is_ef(d) THEN d.sfi ELSE FS_NO_SFI]
fcp_len(d) == 10 + (IF fs_is_ef(d) THEN 4 ELSE 0)
                 + (IF fs_is_ef(d) /\ d.sfi # FS_NO_SFI THEN 3 ELSE 0)

-----------------------------------------------------------------------------
(***************************************************************************)
(* What the proofs need of the constants.                                  *)
(***************************************************************************)
ASSUME SizesAssumption ==
  /\ FS_MAX_FILES \in Nat \ {0}
  /\ FS_INVALID_INDEX \in Nat /\ FS_MAX_FILES <= FS_INVALID_INDEX
  /\ FLASH_SIZE \in Nat
  /\ FS_MAX_EF_SIZE \in Nat
  /\ FS_MAX_DEPTH \in Nat \ {0}

ASSUME NamesAssumption ==
  /\ FS_FID_MF \in Fid /\ FID_FFFF \in Fid
  /\ Erased \in Byte

\* The factory table lists files after their parent DF, one per slot, and
\* gives no two children of a DF the same identifier or short identifier.
ASSUME LayoutAssumption ==
  /\ Layout \in Seq(LayoutRow)
  /\ \A r \in 1 .. Len(Layout) :
       /\ Layout[r].index = r
       /\ Layout[r].parent < r
       /\ Layout[r].parent # 0 => Layout[Layout[r].parent].type = "DF"
       /\ Layout[r].file_id \notin {FS_FID_MF, FID_FFFF}
       /\ Layout[r].type = "EF" => Layout[r].size > 0
       /\ Layout[r].type = "DF" => Layout[r].size = 0 /\ Layout[r].sfi = FS_NO_SFI
  /\ \A r, s \in 1 .. Len(Layout) :
       r # s /\ Layout[r].parent = Layout[s].parent =>
         /\ Layout[r].file_id # Layout[s].file_id
         /\ Layout[r].sfi = Layout[s].sfi => Layout[r].sfi = FS_NO_SFI
=============================================================================
