----------------------------- MODULE CardClaims ----------------------------
(***************************************************************************)
(* What comments and documents of the repository say of the card and the   *)
(* code does not do.  Each is checked by a run of its own that finds the   *)
(* counterexample; README.md tells the stories.                            *)
(***************************************************************************)
EXTENDS CardOS

\* kernel.c and docs/filesystem.md: a card whose image is corrupt or of an
\* unknown version answers 6581 to everything.
DeadCardAnswers6581 == pc = "ready" /\ ~ram.mounted => rsp.sw \in {"none", "6581"}

\* fs.h: selecting a DF makes it the current DF and clears the current EF.  So
\* after a path SELECT that succeeded, the selected file (the current EF if there
\* is one) is the file the last component of the path names.
PathSelectsWhatItNames ==
  [][pc = "walk" /\ pc' = "ready" /\ rsp'.sw = "9000" =>
       desc[fs_selected_index(sel')].file_id = walk.cmd.path[Len(walk.cmd.path)]]_vars
=============================================================================
