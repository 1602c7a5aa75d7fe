-------------------------------- MODULE Mutex --------------------------------
(***************************************************************************)
(* What the folder lock promises to the commands of a folder: at most one  *)
(* invocation of xorbox is inside at any time (README.md, "The persistent  *)
(* empty .xorbox.lock file coordinates operations in the folder").         *)
(***************************************************************************)

CONSTANT Procs      \* invocations of xorbox in one folder

VARIABLE inside     \* the invocations working in the folder

Init == inside = {}

Enter(p) ==
    /\ inside = {}
    /\ inside' = {p}

(***************************************************************************)
(* The invocation inside finishes, is killed, or is lost to a power loss.  *)
(***************************************************************************)
Leave ==
    /\ inside # {}
    /\ inside' = {}

Next == Leave \/ \E p \in Procs : Enter(p)

Spec == Init /\ [][Next]_inside
=============================================================================
