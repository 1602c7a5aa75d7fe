------------------------------ MODULE FolderLock ------------------------------
(***************************************************************************)
(* The lock of one folder: Root::lock of src/files.rs.  A command creates  *)
(* the file .xorbox.lock or, when the name exists, opens it, checks that   *)
(* the file has no second hard link, and takes a non-blocking exclusive    *)
(* lock on the FILE it opened.  The lock belongs to the file (the inode),  *)
(* not to the name: two commands that open the name at different times     *)
(* exclude each other only as long as the name keeps denoting one file.    *)
(* The steps of several commands interleave; any of them can be killed,    *)
(* the power can fail, and the user can link or remove the file.           *)
(***************************************************************************)
EXTENDS Naturals

CONSTANTS Procs,    \* invocations of xorbox (one process each)
          Inodes,   \* files the name .xorbox.lock may come to denote
          NoProc,   \* no owner
          NoFile    \* no file

ASSUME NoProcAssumption == NoProc \notin Procs
ASSUME NoFileAssumption == NoFile \notin Inodes

VARIABLES entry,    \* the file the name .xorbox.lock denotes, or NoFile
          extra,    \* files that also have a name outside the folder
          pc,       \* where each invocation is in Root::lock
          fd,       \* the lock file each invocation has open, or NoFile
          owner     \* the invocation holding the exclusive lock of a file

vars == <<entry, extra, pc, fd, owner>>

Stages == {"idle", "creating", "opening", "checking", "locking", "holding"}

TypeOK ==
    /\ entry \in Inodes \cup {NoFile}
    /\ extra \in SUBSET Inodes
    /\ pc \in [Procs -> Stages]
    /\ fd \in [Procs -> Inodes \cup {NoFile}]
    /\ owner \in [Inodes -> Procs \cup {NoProc}]

Init ==
    /\ entry \in {NoFile} \cup Inodes
    /\ extra = {}
    /\ pc = [p \in Procs |-> "idle"]
    /\ fd = [p \in Procs |-> NoFile]
    /\ owner = [i \in Inodes |-> NoProc]

(***************************************************************************)
(* A file no name and no open handle refers to: create_new may return it.  *)
(***************************************************************************)
Unused(i) == i # entry /\ i \notin extra /\ \A p \in Procs : fd[p] # i

\* nlink = 1: the name .xorbox.lock and nothing else.
SingleLink(i) == entry = i /\ i \notin extra

Invoke(p) ==
    /\ pc[p] = "idle"
    /\ pc' = [pc EXCEPT ![p] = "creating"]
    /\ UNCHANGED <<entry, extra, fd, owner>>

(***************************************************************************)
(* platform::create_private: O_CREAT with O_EXCL, atomic in the kernel.    *)
(***************************************************************************)
Create(p) ==
    /\ pc[p] = "creating"
    /\ entry = NoFile
    /\ \E i \in Inodes :
        /\ Unused(i)
        /\ entry' = i
        /\ fd' = [fd EXCEPT ![p] = i]
    /\ pc' = [pc EXCEPT ![p] = "checking"]
    /\ UNCHANGED <<extra, owner>>

\* create_private returned AlreadyExists: the existing file will be opened.
AlreadyExists(p) ==
    /\ pc[p] = "creating"
    /\ entry # NoFile
    /\ pc' = [pc EXCEPT ![p] = "opening"]
    /\ UNCHANGED <<entry, extra, fd, owner>>

\* platform::open_regular: whatever file the name denotes by now.
Open(p) ==
    /\ pc[p] = "opening"
    /\ entry # NoFile
    /\ fd' = [fd EXCEPT ![p] = entry]
    /\ pc' = [pc EXCEPT ![p] = "checking"]
    /\ UNCHANGED <<entry, extra, owner>>

CheckLinks(p) ==
    /\ pc[p] = "checking"
    /\ SingleLink(fd[p])
    /\ pc' = [pc EXCEPT ![p] = "locking"]
    /\ UNCHANGED <<entry, extra, fd, owner>>

\* Mutant: the result of try_lock is ignored.
TryLockIgnored(p) ==
    /\ pc[p] = "locking"
    /\ owner' = [owner EXCEPT ![fd[p]] = p]
    /\ pc' = [pc EXCEPT ![p] = "holding"]
    /\ UNCHANGED <<entry, extra, fd>>

TryLock(p) ==
    /\ pc[p] = "locking"
    /\ owner[fd[p]] = NoProc
    /\ owner' = [owner EXCEPT ![fd[p]] = p]
    /\ pc' = [pc EXCEPT ![p] = "holding"]
    /\ UNCHANGED <<entry, extra, fd>>

\* Mutant: a command that is over also removes the lock file.
ReleaseAndUnlink(p) ==
    /\ pc' = [pc EXCEPT ![p] = "idle"]
    /\ fd' = [fd EXCEPT ![p] = NoFile]
    /\ owner' = [i \in Inodes |-> IF owner[i] = p THEN NoProc ELSE owner[i]]
    /\ entry' = NoFile
    /\ UNCHANGED extra

(***************************************************************************)
(* The process is gone: its handle is closed, and with it the lock.  The   *)
(* name stays: Root::lock never unlinks it.                                *)
(***************************************************************************)
Release(p) ==
    /\ pc' = [pc EXCEPT ![p] = "idle"]
    /\ fd' = [fd EXCEPT ![p] = NoFile]
    /\ owner' = [i \in Inodes |-> IF owner[i] = p THEN NoProc ELSE owner[i]]
    /\ UNCHANGED <<entry, extra>>

\* Mutant: the command waits for the lock (lock instead of try_lock).
RefusedUnlessLocked(p) ==
    /\ pc[p] \in {"creating", "opening", "checking"}
    /\ Release(p)

(***************************************************************************)
(* An error return of Root::lock: the file vanished before open_regular,   *)
(* it has another link, it is locked, the handle cannot be opened (on      *)
(* Windows: another command has it open for writing), or any I/O error.    *)
(***************************************************************************)
Refused(p) ==
    /\ pc[p] \in {"creating", "opening", "checking", "locking"}
    /\ Release(p)

\* Mutant: the handle is forgotten but not closed when the command is over.
FinishLeaking(p) ==
    /\ pc[p] = "holding"
    /\ pc' = [pc EXCEPT ![p] = "finished"]
    /\ UNCHANGED <<entry, extra, fd, owner>>

(***************************************************************************)
(* The command is over and app::run drops its lock handle.  Until then it  *)
(* works under the lock as long as it likes: keymake and the sphrase       *)
(* commands wait for a password there, perhaps for ever (app.rs:56-83).    *)
(***************************************************************************)
Finish(p) ==
    /\ pc[p] = "holding"
    /\ Release(p)

Kill(p) ==
    /\ pc[p] # "idle"
    /\ Release(p)

(***************************************************************************)
(* Every process is gone; a lock file whose creation had not reached the   *)
(* disk (nothing synchronizes it) may be gone too.                         *)
(***************************************************************************)
PowerLoss ==
    /\ pc' = [p \in Procs |-> "idle"]
    /\ fd' = [p \in Procs |-> NoFile]
    /\ owner' = [i \in Inodes |-> NoProc]
    /\ entry' \in {entry, NoFile}
    /\ UNCHANGED extra

(***************************************************************************)
(* The user links the lock file elsewhere or drops such a link at any      *)
(* time, and removes the name only while no command runs (README.md, "Do   *)
(* not remove it while a command runs").                                   *)
(***************************************************************************)
LinkElsewhere ==
    /\ entry # NoFile
    /\ entry \notin extra
    /\ extra' = extra \cup {entry}
    /\ UNCHANGED <<entry, pc, fd, owner>>

UnlinkElsewhere(i) ==
    /\ i \in extra
    /\ extra' = extra \ {i}
    /\ UNCHANGED <<entry, pc, fd, owner>>

RemoveName ==
    /\ entry # NoFile
    /\ \A p \in Procs : pc[p] = "idle"
    /\ entry' = NoFile
    /\ UNCHANGED <<extra, pc, fd, owner>>

\* The calls of Root::lock.
Step(p) ==
    \/ Create(p) \/ AlreadyExists(p) \/ Open(p) \/ CheckLinks(p)
    \/ TryLock(p) \/ Refused(p)

Environment ==
    \/ PowerLoss \/ LinkElsewhere \/ RemoveName
    \/ \E i \in Inodes : UnlinkElsewhere(i)

Next ==
    \/ \E p \in Procs : Invoke(p) \/ Step(p) \/ Finish(p) \/ Kill(p)
    \/ Environment

(***************************************************************************)
(* A process the operating system schedules goes on with Root::lock, none  *)
(* of whose calls waits.  Nothing else has to happen: a holder need never  *)
(* finish, and nobody has to invoke, kill, link or remove anything.        *)
(***************************************************************************)
Spec == Init /\ [][Next]_vars /\ \A p \in Procs : WF_vars(Step(p))

-----------------------------------------------------------------------------
Holding == {p \in Procs : pc[p] = "holding"}

(***************************************************************************)
(* Two invocations never work in the folder at once, although they may     *)
(* have opened the name at different times (files.rs:86-87).               *)
(***************************************************************************)
MutualExclusion == \A p, q \in Holding : p = q

(***************************************************************************)
(* Whoever works in the folder holds the lock of the very file a later     *)
(* command will open under the name, and a file is locked only by an       *)
(* invocation that is running: a killed command leaves no stale lock.      *)
(***************************************************************************)
HolderLocksTheName ==
    /\ \A p \in Holding : fd[p] = entry /\ owner[entry] = p
    /\ \A i \in Inodes : owner[i] # NoProc => owner[i] \in Holding

(***************************************************************************)
(* The inductive strengthening: every open handle is of the file the name  *)
(* denotes now, and a file is locked exactly by the holder that opened it. *)
(***************************************************************************)
HandlesAreTheName ==
    \A p \in Procs :
        IF pc[p] \in {"checking", "locking", "holding"}
        THEN fd[p] = entry /\ entry # NoFile
        ELSE fd[p] = NoFile

OwnersHold ==
    \A p \in Procs, i \in Inodes :
        owner[i] = p <=> pc[p] = "holding" /\ fd[p] = i

IInv == TypeOK /\ HandlesAreTheName /\ OwnersHold

(***************************************************************************)
(* The lock implements mutual exclusion: the set of holders behaves as the *)
(* variable of Mutex, through kills and power losses.                      *)
(***************************************************************************)
Abstract == INSTANCE Mutex WITH inside <- Holding
ImplementsMutex == Abstract!Spec

(***************************************************************************)
(* try_lock never waits: an invocation that asks for the folder gets it or *)
(* ends with an error, although the one that has it may keep it for ever,  *)
(* so nobody waits for anybody (files.rs:100-101).                         *)
(***************************************************************************)
Asking == {"creating", "opening", "checking", "locking"}
EveryAttemptEnds ==
    \A p \in Procs : pc[p] \in Asking ~> pc[p] \in {"holding", "idle"}

\* The calls of Root::lock from each stage on, if none fails.
StepsLeft ==
    [creating |-> 4, opening |-> 3, checking |-> 2, locking |-> 1, holding |-> 0,
     idle |-> 0]
Rank(p) == StepsLeft[pc[p]]
=============================================================================
