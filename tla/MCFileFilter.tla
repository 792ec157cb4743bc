----------------------------- MODULE MCFileFilter -----------------------------
(***************************************************************************)
(* Small instances of FileFilter for TLC.                                  *)
(***************************************************************************)
EXTENDS FileFilter

(* The kind whose line depends most on what the file system does.          *)
CreateOnly == {"CREATE"}

(* A kind for which only the routes through the filter matter.             *)
ReadOnly == {"READ"}

(* The kind that FileCallback prints but the driver does not register for. *)
SetInformationOnly == {"SET_INFORMATION"}
=============================================================================
