---------------------------- MODULE MCShowHistory ---------------------------
(***************************************************************************)
(* A show and its rescue folder, for TLC.  The show is named after the     *)
(* folder of new shows, so that ShowNew replaces it.                       *)
(***************************************************************************)
EXTENDS ShowHistory

CONSTANTS gala, rescue

Everything == {"Edit", "Save", "SaveAs", "Load", "New", "Recover",
               "Quit", "Panic", "Kill", "Corrupt", "Fail"}
\* both folders exist: there has been a rescue before
BothFolders == [n \in Names |-> 0]
\* gala falls back to its rescue folder
RescueOf == [n \in Names |-> IF n = gala THEN rescue ELSE n]
=============================================================================
