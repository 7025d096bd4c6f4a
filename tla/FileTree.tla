------------------------------ MODULE FileTree -----------------------------
(***************************************************************************)
(* What the card promises about its files, with no superblock, descriptor  *)
(* table or FLASH in sight: a tree of files that changes one file at a     *)
(* time.  A file appears whole and erased under a DF that exists, with a   *)
(* name none of its siblings has; it disappears whole, and only when it    *)
(* has no children; its attributes never change; an update changes the     *)
(* data of one EF and the size of none.  Losing power changes nothing,     *)
(* unless it hits an update or a deletion in progress.                     *)
(***************************************************************************)
EXTENDS FsTypes

VARIABLES
  tree,   \* the files: a function from the slots in use to their files
  up      \* whether the card has power

treeVars == <<tree, up>>

IsDf(i) == i \in DOMAIN tree /\ fs_is_df(tree[i])

\* File f may be added under its parent.
Fits(f) ==
  /\ IsDf(f.parent)
  /\ f.type # "MF"
  /\ \A i \in DOMAIN tree : tree[i].parent = f.parent =>
       /\ tree[i].file_id # f.file_id
       /\ fs_is_ef(f) /\ fs_is_ef(tree[i]) /\ tree[i].sfi = f.sfi => f.sfi = FS_NO_SFI

TreeInit == DOMAIN tree = {} /\ up = FALSE

\* A file appears in the unused slot i.
Appear(i) ==
  /\ i \in DOMAIN tree' \ DOMAIN tree
  /\ DOMAIN tree' = DOMAIN tree \cup {i}
  /\ \A j \in DOMAIN tree : tree'[j] = tree[j]
  /\ \/ Fits(tree'[i])
     \/ DOMAIN tree = {} /\ i = FS_ROOT_INDEX /\ tree'[i].type = "MF"
  /\ \A k \in DOMAIN tree'[i].data : tree'[i].data[k] = Erased
  /\ up /\ up'

\* File i, which has no children, disappears.  The power may go with it.
Disappear(i) ==
  /\ i \in DOMAIN tree \ {FS_ROOT_INDEX}
  /\ ~ \E j \in DOMAIN tree : tree[j].parent = i
  /\ DOMAIN tree' = DOMAIN tree \ {i}
  /\ \A j \in DOMAIN tree' : tree'[j] = tree[j]
  /\ up

\* The data of EF i changes, wholly or, if power is lost, in part.
Update(i) ==
  /\ i \in DOMAIN tree
  /\ fs_is_ef(tree[i])
  /\ DOMAIN tree' = DOMAIN tree
  /\ \A j \in DOMAIN tree \ {i} : tree'[j] = tree[j]
  /\ tree'[i] = [tree[i] EXCEPT !.data = tree'[i].data]
  /\ DOMAIN tree'[i].data = DOMAIN tree[i].data
  /\ up

Power == up' = ~up /\ UNCHANGED tree

TreeNext ==
  \/ \E i \in Slot : Appear(i) \/ Disappear(i) \/ Update(i)
  \/ Power

TreeSpec == TreeInit /\ [][TreeNext]_treeVars
=============================================================================
