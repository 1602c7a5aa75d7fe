---------------------------- MODULE MCFolderLock ----------------------------
(***************************************************************************)
(* Three invocations and three files: every invocation could have a file   *)
(* of its own open if the lock did not keep the name on one file.  The     *)
(* states are few enough to do without symmetry, which the liveness        *)
(* property would not allow.                                               *)
(***************************************************************************)
EXTENDS FolderLock
=============================================================================
